----------------------- MODULE CredentialRefreshProofs -----------------------
(***************************************************************************)
(* Proofs about TokenManager for every directory, every set of contents    *)
(* and any number of coroutines and requests, and about CredentialRefresh, *)
(* whose steps are the token manager's, so that it inherits them: of the   *)
(* tasks on a credential those that nobody displaced are the one in        *)
(* flight.                                                                 *)
(***************************************************************************)
EXTENDS CredentialRefresh, WellFoundedInduction, TLAPS

-----------------------------------------------------------------------------
(* A non-empty set of file names has a first one.                          *)
LEMMA FirstIsLeast ==
    ASSUME NEW S \in SUBSET Files, S # {}
    PROVE  First(S) \in S /\ \A g \in S : First(S) <= g
<1> DEFINE less == {p \in Nat \X Nat : p[1] < p[2]}
<1>1. S \subseteq Nat
  BY FilesOrdered
<1>2. IsWellFoundedOn(less, Nat)
  BY NatLessThanWellFounded DEF OpToRel
<1> HIDE DEF less
<1>3. PICK f \in S : \A g \in S : ~ (<<g, f>> \in less)
  BY <1>1, <1>2, WFMin
<1>4. \A g \in S : f <= g
  <2> SUFFICES ASSUME NEW g \in S PROVE f <= g
    OBVIOUS
  <2>1. f \in Nat /\ g \in Nat /\ <<g, f>> \notin less
    BY <1>1, <1>3
  <2> QED
    BY <2>1 DEF less
<1> QED
  BY <1>4 DEF First

(* Reading the directory yields contents only, and lists what parses.      *)
LEMMA LoadedType ==
    ASSUME NEW d
    PROVE  Loaded(d) \in [Files -> Tokens \union {Absent}]
BY DEF Loaded

(* A reload lists exactly the files that hold a credential.               *)
LEMMA LoadedLists ==
    ASSUME NEW d
    PROVE  ListedIn(Loaded(d)) = ListedIn(d)
BY ContentsDistinct DEF Loaded, ListedIn

(* A reload leaves the position on a listed file, or on none.              *)
LEMMA LoadAllTokensType ==
    ASSUME TypeOK, NEW d, LoadAllTokens(d)
    PROVE  /\ data' \in [Files -> Tokens \union {Absent}]
           /\ current' \in Files \union {None}
           /\ usage' \in 0..MaxRotation
           /\ IF ListedIn(d) = {} THEN current' = None
                                  ELSE current' \in ListedIn(d)
<1>1. ListedIn(d) \in SUBSET Files
  BY DEF ListedIn
<1>2. ListedIn(d) # {} => First(ListedIn(d)) \in ListedIn(d)
  BY <1>1, FirstIsLeast
<1>3. 0 \in 0..MaxRotation
  BY RotationPositive
<1> QED
  BY <1>1, <1>2, <1>3, LoadedType, FilesOrdered DEF LoadAllTokens, TypeOK

(* The policy picks a usable file and counts within the largest count.      *)
LEMMA SelectionType ==
    ASSUME TypeOK, UsableFiles # {}
    PROVE  /\ Selection.file \in UsableFiles
           /\ Selection.usage \in 0..MaxRotation
<1>1. UsableFiles \in SUBSET Files
  BY DEF UsableFiles
<1>2. First(UsableFiles) \in UsableFiles
  BY <1>1, FirstIsLeast
<1>3. \A f : NextUsable(f) \in UsableFiles
  <2> SUFFICES ASSUME NEW f PROVE NextUsable(f) \in UsableFiles
    OBVIOUS
  <2> DEFINE later == {g \in UsableFiles : g > f}
  <2>1. later \in SUBSET Files /\ later \subseteq UsableFiles
    BY <1>1
  <2>2. later # {} => First(later) \in later
    BY <2>1, FirstIsLeast
  <2> QED
    BY <1>2, <2>1, <2>2 DEF NextUsable
<1> DEFINE start == IF current \in UsableFiles
                      THEN [file |-> current, usage |-> usage]
                      ELSE [file |-> First(UsableFiles), usage |-> 0]
           turn == IF start.usage >= rotationCount
                      THEN [file |-> NextUsable(start.file), usage |-> 0]
                      ELSE start
<1>4. start \in [file : UsableFiles, usage : 0..MaxRotation]
  BY <1>2, RotationPositive DEF TypeOK
<1>5. turn \in [file : UsableFiles, usage : 0..MaxRotation - 1]
  <2>1. rotationCount \in 1..MaxRotation
    BY DEF TypeOK
  <2> QED
    BY <1>3, <1>4, <2>1, RotationPositive
<1>6. Selection = IF ~auto THEN start ELSE [turn EXCEPT !.usage = @ + 1]
  BY DEF Selection
<1> HIDE DEF start, turn
<1> QED
  BY <1>4, <1>5, <1>6, RotationPositive

-----------------------------------------------------------------------------
(* Every step keeps every variable in its set.                             *)
LEMMA TypeStep == TypeOK /\ [Next]_vars => TypeOK'
<1> SUFFICES ASSUME TypeOK, [Next]_vars PROVE TypeOK'
  OBVIOUS
<1> USE DEF dirVars, settings, listVars, history, Bumped
<1>1. ASSUME NEW f \in Files, NEW tok \in Tokens, AddCredential(f, tok)
      PROVE  TypeOK'
  BY <1>1, LoadAllTokensType DEF AddCredential, TypeOK
<1>2. ASSUME NEW f \in Files, NEW tok \in Tokens, AddCredentialFails(f, tok)
      PROVE  TypeOK'
  BY <1>2 DEF AddCredentialFails, TypeOK
<1>3. ASSUME NEW f \in Files, DeleteCredential(f)
      PROVE  TypeOK'
  BY <1>3, LoadAllTokensType DEF DeleteCredential, TypeOK
<1>4. ASSUME NEW f \in Files, SetCurrentCredential(f)
      PROVE  TypeOK'
  <2>1. auto' \in BOOLEAN /\ lapsed' \in BOOLEAN
    BY <1>4, Zenon DEF SetCurrentCredential, TypeOK
  <2>2. stateFile' \in Files \union {None, Corrupt}
    BY <1>4, Zenon DEF SetCurrentCredential, SaveState, TypeOK
  <2>3. pin' \in Files \union {None}
    BY <1>4, Zenon DEF SetCurrentCredential, TypeOK
  <2>4. usage' \in 0..MaxRotation
    BY <1>4, RotationPositive DEF SetCurrentCredential
  <2> QED
    BY <1>4, <2>1, <2>2, <2>3, <2>4 DEF SetCurrentCredential, TypeOK
<1>5. ASSUME NEW t \in Tasks, NEW f \in Files, TakeSnapshot(t, f)
      PROVE  TypeOK'
  <2>1. [file |-> f, token |-> data[f], gen |-> gen[f]] \in Snapshot
    BY <1>5 DEF TakeSnapshot, TypeOK, Listed, ListedIn, Snapshot
  <2> QED
    BY <1>5, <2>1 DEF TakeSnapshot, TypeOK
<1>6. ASSUME NEW t \in Tasks, ReplaceRefused(t)
      PROVE  TypeOK'
  BY <1>6 DEF ReplaceRefused, TypeOK
<1>7. ASSUME NEW t \in Tasks, NEW tok \in Tokens, ReplaceCredential(t, tok)
      PROVE  TypeOK'
  <2>1. snap[t].file \in Files /\ snap[t].gen \in Nat
    BY <1>7 DEF ReplaceCredential, TypeOK, Snapshot
  <2>2. [file |-> snap[t].file, token |-> tok, gen |-> snap[t].gen + 1]
           \in Snapshot
    BY <2>1 DEF Snapshot
  <2>3. snap' \in [Tasks -> Snapshot \union {None}]
    BY <1>7, <2>2 DEF ReplaceCredential, TypeOK
  <2>4. quotaGen' \in [Files -> Nat]
    BY <1>7, <2>1 DEF ReplaceCredential, TypeOK
  <2> QED
    BY <1>7, <2>1, <2>3, <2>4 DEF ReplaceCredential, TypeOK
<1>8. ASSUME NEW t \in Tasks, NEW tok \in Tokens,
             ReplaceFailsAfterRename(t, tok)
      PROVE  TypeOK'
  <2>1. snap[t].file \in Files
    BY <1>8 DEF ReplaceFailsAfterRename, TypeOK, Snapshot
  <2> QED
    BY <1>8, <2>1 DEF ReplaceFailsAfterRename, TypeOK
<1>9. ASSUME NEW r \in Requests, SelectNextCredential(r)
      PROVE  TypeOK'
  <2>1. /\ Selection.file \in Files /\ data[Selection.file] \in Tokens
        /\ Selection.usage \in 0..MaxRotation
    BY <1>9, SelectionType
       DEF SelectNextCredential, UsableFiles, Usable, Listed, ListedIn
  <2>2. [file    |-> Selection.file,
         account |-> AccountOf[data[Selection.file]],
         gen     |-> quotaGen[Selection.file]] \in Attribution
    BY <2>1 DEF Attribution, TypeOK
  <2> QED
    BY <1>9, <2>1, <2>2 DEF SelectNextCredential, TypeOK
<1>10. CASE ToggleAutoRotation
  <2> USE DEF ToggleAutoRotation, EnableAutoRotation, DisableAutoRotation
  <2>1. auto' \in BOOLEAN /\ lapsed' \in BOOLEAN
    BY <1>10, Zenon DEF TypeOK
  <2>2. stateFile' \in Files \union {None, Corrupt}
    BY <1>10, Zenon DEF SaveState, TypeOK
  <2>3. pin' \in Files \union {None}
    BY <1>10, Zenon DEF TypeOK
  <2>4. usage' \in 0..MaxRotation
    BY <1>10, RotationPositive DEF TypeOK
  <2> QED
    BY <1>10, <2>1, <2>2, <2>3, <2>4 DEF TypeOK
<1>15. ASSUME NEW enabled \in BOOLEAN, NEW count \in 1..MaxRotation,
              UpdateSettings(enabled, count)
       PROVE  TypeOK'
  <2>1. auto' \in BOOLEAN /\ lapsed' \in BOOLEAN
    BY <1>15, Zenon DEF UpdateSettings, TypeOK
  <2>2. pin' \in Files \union {None}
    BY <1>15, Zenon DEF UpdateSettings, TypeOK
  <2> QED
    BY <1>15, <2>1, <2>2 DEF UpdateSettings, TypeOK
<1>11. ASSUME NEW tok \in Expirable, Expire(tok)
       PROVE  TypeOK'
  BY <1>11 DEF Expire, TypeOK
<1>12. CASE Restart
  <2>1. ListedIn(disk) \in SUBSET Files
    BY DEF ListedIn
  <2>2. current' \in Files \union {None}
    BY <1>12, <2>1, FirstIsLeast DEF Restart
  <2>3. auto' \in BOOLEAN /\ lapsed' \in BOOLEAN
    BY <1>12, Zenon DEF Restart, TypeOK
  <2> QED
    BY <1>12, <2>2, <2>3, LoadedType, RotationPositive DEF Restart, TypeOK
<1>14. ASSUME NEW T \in SUBSET Tasks, DropSnapshots(T)
       PROVE  TypeOK'
  BY <1>14 DEF DropSnapshots, TypeOK
<1>13. CASE UNCHANGED vars
  BY <1>13 DEF vars, TypeOK
<1> QED
  BY <1>1, <1>2, <1>3, <1>4, <1>5, <1>6, <1>7, <1>8, <1>9, <1>10, <1>11,
     <1>12, <1>13, <1>14, <1>15 DEF Next

(* TypeOK holds of every behaviour of the token manager, whatever settings  *)
(* the user saves between its steps: usage_count may be above the count    *)
(* they name now, and never above the largest they named.                  *)
THEOREM TypeCorrect == Spec => []TypeOK
<1>1. ASSUME Init PROVE TypeOK
  <2>1. auto \in BOOLEAN /\ lapsed \in BOOLEAN
    BY <1>1, Zenon DEF Init
  <2> QED
    BY <1>1, <2>1, RotationPositive DEF Init, TypeOK
<1> QED
  BY <1>1, TypeStep, PTL DEF Spec

-----------------------------------------------------------------------------
(* The list rests on the directory: what is listed parses, and only a torn *)
(* file differs.                                                           *)
Backed == \A f \in Files :
    data[f] # Absent => disk[f] \in Tokens /\ (disk[f] = data[f] \/ f \in torn)

(* A snapshot is never ahead of its file.  Once the file left the list it  *)
(* is behind for good, so that a file created anew under that name is not  *)
(* taken for the old one; and as long as it is level, it holds the content *)
(* that is listed.                                                         *)
SnapInv == \A t \in Tasks : snap[t] # None =>
    LET s == snap[t]
        f == s.file
    IN  /\ s.gen <= gen[f]
        /\ data[f] = Absent => s.gen < gen[f]
        /\ data[f] # Absent /\ s.gen = gen[f] /\ f \notin torn
               => data[f] = s.token

(* The same of the usage a request captured and the quota generation.      *)
ReqInv == \A r \in Requests : req[r] # None =>
    LET q == req[r]
        f == q.file
    IN  /\ q.gen <= quotaGen[f]
        /\ data[f] = Absent => q.gen < quotaGen[f]
        /\ data[f] # Absent /\ q.gen = quotaGen[f] /\ f \notin torn
               => AccountOf[data[f]] = q.account

IInv == TypeOK /\ Backed /\ SnapInv /\ ReqInv

(* A reload changes the content of no file that was listed and not torn,   *)
(* and drops only files that are no longer there.                          *)
LEMMA ReloadKeeps ==
    ASSUME TypeOK, Backed, NEW d, LoadAllTokens(d),
           NEW f \in Files, d[f] = disk[f], data[f] # Absent
    PROVE  data'[f] # Absent /\ (f \notin torn => data'[f] = data[f])
BY ContentsDistinct DEF LoadAllTokens, Loaded, Backed, TypeOK

(* Every step keeps memory and directory in agreement outside the torn    *)
(* files.                                                                 *)
LEMMA BackedStep == TypeOK /\ Backed /\ [Next]_vars => Backed'
<1> SUFFICES ASSUME TypeOK, Backed, [Next]_vars PROVE Backed'
  OBVIOUS
<1> USE DEF dirVars, settings, listVars, history, Bumped
<1>1. ASSUME NEW f \in Files, NEW tok \in Tokens, AddCredential(f, tok)
      PROVE  Backed'
  BY <1>1 DEF AddCredential, LoadAllTokens, Loaded, Backed
<1>2. ASSUME NEW f \in Files, NEW tok \in Tokens, AddCredentialFails(f, tok)
      PROVE  Backed'
  BY <1>2, ContentsDistinct DEF AddCredentialFails, Backed, TypeOK
<1>3. ASSUME NEW f \in Files, DeleteCredential(f)
      PROVE  Backed'
  BY <1>3, ContentsDistinct
     DEF DeleteCredential, LoadAllTokens, Loaded, Backed
<1>4. ASSUME NEW f \in Files, SetCurrentCredential(f)
      PROVE  Backed'
  BY <1>4 DEF SetCurrentCredential, Backed
<1>5. ASSUME NEW t \in Tasks, NEW f \in Files, TakeSnapshot(t, f)
      PROVE  Backed'
  BY <1>5 DEF TakeSnapshot, Backed
<1>6. ASSUME NEW t \in Tasks, ReplaceRefused(t)
      PROVE  Backed'
  BY <1>6 DEF ReplaceRefused, Backed
<1>7. ASSUME NEW t \in Tasks, NEW tok \in Tokens, ReplaceCredential(t, tok)
      PROVE  Backed'
  BY <1>7 DEF ReplaceCredential, Backed, TypeOK
<1>8. ASSUME NEW t \in Tasks, NEW tok \in Tokens,
             ReplaceFailsAfterRename(t, tok)
      PROVE  Backed'
  BY <1>8 DEF ReplaceFailsAfterRename, Backed, TypeOK
<1>9. ASSUME NEW r \in Requests, SelectNextCredential(r)
      PROVE  Backed'
  BY <1>9 DEF SelectNextCredential, Backed
<1>10. CASE ToggleAutoRotation
  BY <1>10 DEF ToggleAutoRotation, EnableAutoRotation, DisableAutoRotation,
               Backed
<1>15. ASSUME NEW enabled \in BOOLEAN, NEW count \in 1..MaxRotation,
              UpdateSettings(enabled, count)
       PROVE  Backed'
  BY <1>15 DEF UpdateSettings, Backed
<1>11. ASSUME NEW tok \in Expirable, Expire(tok)
       PROVE  Backed'
  BY <1>11 DEF Expire, Backed
<1>12. CASE Restart
  BY <1>12 DEF Restart, Loaded, Backed
<1>14. ASSUME NEW T \in SUBSET Tasks, DropSnapshots(T)
       PROVE  Backed'
  BY <1>14 DEF DropSnapshots, Backed
<1>13. CASE UNCHANGED vars
  BY <1>13 DEF vars, Backed
<1> QED
  BY <1>1, <1>2, <1>3, <1>4, <1>5, <1>6, <1>7, <1>8, <1>9, <1>10, <1>11,
     <1>12, <1>13, <1>14, <1>15 DEF Next

(* Every step keeps what is known of the snapshots that are held.         *)
LEMMA SnapStep == TypeOK /\ Backed /\ SnapInv /\ [Next]_vars => SnapInv'
<1> SUFFICES ASSUME TypeOK, Backed, SnapInv, [Next]_vars,
                    NEW t \in Tasks, snap'[t] # None
             PROVE  LET s == snap'[t]
                        f == s.file
                    IN  /\ s.gen <= gen'[f]
                        /\ data'[f] = Absent => s.gen < gen'[f]
                        /\ data'[f] # Absent /\ s.gen = gen'[f] /\ f \notin torn'
                               => data'[f] = s.token
  BY DEF SnapInv
<1> DEFINE s == snap'[t]
           f == s.file
           Goal == /\ s.gen <= gen'[f]
                   /\ data'[f] = Absent => s.gen < gen'[f]
                   /\ data'[f] # Absent /\ s.gen = gen'[f] /\ f \notin torn'
                          => data'[f] = s.token
<1>a. s \in Snapshot
  BY TypeStep DEF TypeOK
<1>b. f \in Files /\ s.gen \in Nat
  BY <1>a DEF Snapshot
<1>c. gen[f] \in Nat
  BY <1>b DEF TypeOK
<1>d. snap[t] = s =>
          /\ s.gen <= gen[f]
          /\ data[f] = Absent => s.gen < gen[f]
          /\ data[f] # Absent /\ s.gen = gen[f] /\ f \notin torn
                 => data[f] = s.token
  BY DEF SnapInv
<1> SUFFICES Goal
  OBVIOUS
<1> USE DEF dirVars, settings, listVars, history, Bumped
<1> HIDE DEF s
<1>same. ASSUME UNCHANGED <<data, gen, torn>>, snap[t] = s
         PROVE  Goal
  BY <1>same, <1>d
<1>1. ASSUME NEW g \in Files, NEW tok \in Tokens, AddCredential(g, tok)
      PROVE  Goal
  <2>1. snap[t] = s /\ gen' = gen /\ torn' = torn
    BY <1>1 DEF AddCredential, s
  <2>2. CASE data[f] = Absent
    BY <1>b, <1>c, <1>d, <2>1, <2>2
  <2>3. CASE data[f] # Absent
    <3>1. disk'[f] = disk[f]
      BY <1>1, <1>b, <2>3, ContentsDistinct DEF AddCredential, Backed, TypeOK
    <3>2. data'[f] # Absent /\ (f \notin torn => data'[f] = data[f])
      BY <1>1, <1>b, <2>3, <3>1, ReloadKeeps DEF AddCredential
    <3> QED
      BY <1>d, <2>1, <2>3, <3>2
  <2> QED
    BY <2>2, <2>3
<1>2. ASSUME NEW g \in Files, NEW tok \in Tokens, AddCredentialFails(g, tok)
      PROVE  Goal
  BY <1>2, <1>same DEF AddCredentialFails, s
<1>3. ASSUME NEW g \in Files, DeleteCredential(g)
      PROVE  Goal
  <2>1. snap[t] = s
    BY <1>3 DEF DeleteCredential, s
  <2>2. CASE f = g
    <3>1. gen'[f] = gen[f] + 1
      BY <1>3, <2>2 DEF DeleteCredential, TypeOK
    <3> QED
      BY <1>b, <1>c, <1>d, <2>1, <3>1
  <2>3. CASE f # g
    <3>1. gen'[f] = gen[f] /\ (f \in torn' <=> f \in torn) /\ disk'[f] = disk[f]
      BY <1>3, <1>b, <2>3 DEF DeleteCredential, TypeOK
    <3>2. CASE data[f] = Absent
      BY <1>b, <1>c, <1>d, <2>1, <3>1, <3>2
    <3>3. CASE data[f] # Absent
      <4>1. data'[f] # Absent /\ (f \notin torn => data'[f] = data[f])
        BY <1>3, <1>b, <3>1, <3>3, ReloadKeeps DEF DeleteCredential
      <4> QED
        BY <1>d, <2>1, <3>1, <3>3, <4>1
    <3> QED
      BY <3>2, <3>3
  <2> QED
    BY <2>2, <2>3
<1>4. ASSUME NEW g \in Files, SetCurrentCredential(g)
      PROVE  Goal
  BY <1>4, <1>same DEF SetCurrentCredential, s
<1>5. ASSUME NEW u \in Tasks, NEW g \in Files, TakeSnapshot(u, g)
      PROVE  Goal
  <2>1. UNCHANGED <<data, gen, torn>>
    BY <1>5 DEF TakeSnapshot
  <2>2. CASE u = t
    <3>1. s = [file |-> g, token |-> data[g], gen |-> gen[g]]
      BY <1>5, <2>2 DEF TakeSnapshot, s, TypeOK
    <3>2. data[g] # Absent
      BY <1>5, ContentsDistinct DEF TakeSnapshot, Listed, ListedIn
    <3> QED
      BY <1>c, <2>1, <3>1, <3>2
  <2>3. CASE u # t
    BY <1>5, <1>same, <2>1, <2>3 DEF TakeSnapshot, s, TypeOK
  <2> QED
    BY <2>2, <2>3
<1>6. ASSUME NEW u \in Tasks, ReplaceRefused(u)
      PROVE  Goal
  <2>1. u # t
    BY <1>6 DEF ReplaceRefused, s, TypeOK
  <2> QED
    BY <1>6, <1>same, <2>1 DEF ReplaceRefused, s, TypeOK
<1>7. ASSUME NEW u \in Tasks, NEW tok \in Tokens, ReplaceCredential(u, tok)
      PROVE  Goal
  <2> DEFINE w == snap[u]
             g == w.file
  <2>1. w \in Snapshot /\ g \in Files /\ w.gen \in Nat
    BY <1>7 DEF ReplaceCredential, TypeOK, Snapshot
  <2>2. /\ gen[g] = w.gen /\ data[g] # Absent
        /\ torn' = torn
        /\ data' = [data EXCEPT ![g] = tok]
        /\ gen' = [gen EXCEPT ![g] = w.gen + 1]
    BY <1>7, <2>1, ContentsDistinct
       DEF ReplaceCredential, Conflict, Listed, ListedIn
  <2>3. tok # Absent
    BY ContentsDistinct
  <2>4. CASE u = t
    <3>1. s = [file |-> g, token |-> tok, gen |-> w.gen + 1]
      BY <1>7, <2>4 DEF ReplaceCredential, s, TypeOK
    <3> QED
      BY <2>1, <2>2, <2>3, <3>1 DEF TypeOK
  <2>5. CASE u # t
    <3>1. snap[t] = s
      BY <1>7, <2>5 DEF ReplaceCredential, s, TypeOK
    <3>2. CASE f = g
      <4>1. gen'[f] = gen[f] + 1 /\ data'[f] = tok
        BY <2>1, <2>2, <3>2 DEF TypeOK
      <4> QED
        BY <1>b, <1>c, <1>d, <2>3, <3>1, <4>1
    <3>3. CASE f # g
      <4>1. gen'[f] = gen[f] /\ data'[f] = data[f]
        BY <1>b, <2>2, <3>3 DEF TypeOK
      <4> QED
        BY <1>d, <2>2, <3>1, <4>1
    <3> QED
      BY <3>2, <3>3
  <2> QED
    BY <2>4, <2>5
<1>8. ASSUME NEW u \in Tasks, NEW tok \in Tokens,
             ReplaceFailsAfterRename(u, tok)
      PROVE  Goal
  <2>1. u # t
    BY <1>8 DEF ReplaceFailsAfterRename, s, TypeOK
  <2>2. snap[t] = s /\ data' = data /\ gen' = gen /\ torn \subseteq torn'
    BY <1>8, <2>1 DEF ReplaceFailsAfterRename, s, TypeOK
  <2> QED
    BY <1>d, <2>2
<1>9. ASSUME NEW r \in Requests, SelectNextCredential(r)
      PROVE  Goal
  BY <1>9, <1>same DEF SelectNextCredential, s
<1>10. CASE ToggleAutoRotation
  BY <1>10, <1>same
     DEF ToggleAutoRotation, EnableAutoRotation, DisableAutoRotation, s
<1>15. ASSUME NEW enabled \in BOOLEAN, NEW count \in 1..MaxRotation,
              UpdateSettings(enabled, count)
       PROVE  Goal
  BY <1>15, <1>same DEF UpdateSettings, s
<1>11. ASSUME NEW tok \in Expirable, Expire(tok)
       PROVE  Goal
  BY <1>11, <1>same DEF Expire, s
<1>12. CASE Restart
  BY <1>12 DEF Restart, s
<1>14. ASSUME NEW T \in SUBSET Tasks, DropSnapshots(T)
       PROVE  Goal
  <2>1. snap[t] = s
    BY <1>14 DEF DropSnapshots, s
  <2> QED
    BY <1>14, <1>same, <2>1 DEF DropSnapshots
<1>13. CASE UNCHANGED vars
  BY <1>13, <1>same DEF vars, s
<1> QED
  BY <1>1, <1>2, <1>3, <1>4, <1>5, <1>6, <1>7, <1>8, <1>9, <1>10, <1>11,
     <1>12, <1>13, <1>14, <1>15 DEF Next

(* Every step keeps what is known of the requests under way.              *)
LEMMA ReqStep ==
    TypeOK /\ Backed /\ SnapInv /\ ReqInv /\ [Next]_vars => ReqInv'
<1> SUFFICES ASSUME TypeOK, Backed, SnapInv, ReqInv, [Next]_vars,
                    NEW r \in Requests, req'[r] # None
             PROVE  LET q == req'[r]
                        f == q.file
                    IN  /\ q.gen <= quotaGen'[f]
                        /\ data'[f] = Absent => q.gen < quotaGen'[f]
                        /\ data'[f] # Absent /\ q.gen = quotaGen'[f] /\ f \notin torn'
                               => AccountOf[data'[f]] = q.account
  BY DEF ReqInv
<1> DEFINE q == req'[r]
           f == q.file
           Goal == /\ q.gen <= quotaGen'[f]
                   /\ data'[f] = Absent => q.gen < quotaGen'[f]
                   /\ data'[f] # Absent /\ q.gen = quotaGen'[f] /\ f \notin torn'
                          => AccountOf[data'[f]] = q.account
<1>a. q \in Attribution
  BY TypeStep DEF TypeOK
<1>b. f \in Files /\ q.gen \in Nat
  BY <1>a DEF Attribution
<1>c. quotaGen[f] \in Nat
  BY <1>b DEF TypeOK
<1>d. req[r] = q =>
          /\ q.gen <= quotaGen[f]
          /\ data[f] = Absent => q.gen < quotaGen[f]
          /\ data[f] # Absent /\ q.gen = quotaGen[f] /\ f \notin torn
                 => AccountOf[data[f]] = q.account
  BY DEF ReqInv
<1> SUFFICES Goal
  OBVIOUS
<1> USE DEF dirVars, settings, listVars, history, Bumped
<1> HIDE DEF q
<1>same. ASSUME UNCHANGED <<data, quotaGen>>, torn \subseteq torn', req[r] = q
         PROVE  Goal
  BY <1>same, <1>d
<1>1. ASSUME NEW g \in Files, NEW tok \in Tokens, AddCredential(g, tok)
      PROVE  Goal
  <2>1. req[r] = q /\ quotaGen' = quotaGen /\ torn' = torn
    BY <1>1 DEF AddCredential, q
  <2>2. CASE data[f] = Absent
    BY <1>b, <1>c, <1>d, <2>1, <2>2
  <2>3. CASE data[f] # Absent
    <3>1. disk'[f] = disk[f]
      BY <1>1, <1>b, <2>3, ContentsDistinct DEF AddCredential, Backed, TypeOK
    <3>2. data'[f] # Absent /\ (f \notin torn => data'[f] = data[f])
      BY <1>1, <1>b, <2>3, <3>1, ReloadKeeps DEF AddCredential
    <3> QED
      BY <1>d, <2>1, <2>3, <3>2
  <2> QED
    BY <2>2, <2>3
<1>2. ASSUME NEW g \in Files, NEW tok \in Tokens, AddCredentialFails(g, tok)
      PROVE  Goal
  BY <1>2, <1>same DEF AddCredentialFails, q
<1>3. ASSUME NEW g \in Files, DeleteCredential(g)
      PROVE  Goal
  <2>1. req[r] = q
    BY <1>3 DEF DeleteCredential, q
  <2>2. CASE f = g
    <3>1. quotaGen'[f] = quotaGen[f] + 1
      BY <1>3, <2>2 DEF DeleteCredential, TypeOK
    <3> QED
      BY <1>b, <1>c, <1>d, <2>1, <3>1
  <2>3. CASE f # g
    <3>1. /\ quotaGen'[f] = quotaGen[f]
          /\ (f \in torn' <=> f \in torn)
          /\ disk'[f] = disk[f]
      BY <1>3, <1>b, <2>3 DEF DeleteCredential, TypeOK
    <3>2. CASE data[f] = Absent
      BY <1>b, <1>c, <1>d, <2>1, <3>1, <3>2
    <3>3. CASE data[f] # Absent
      <4>1. data'[f] # Absent /\ (f \notin torn => data'[f] = data[f])
        BY <1>3, <1>b, <3>1, <3>3, ReloadKeeps DEF DeleteCredential
      <4> QED
        BY <1>d, <2>1, <3>1, <3>3, <4>1
    <3> QED
      BY <3>2, <3>3
  <2> QED
    BY <2>2, <2>3
<1>4. ASSUME NEW g \in Files, SetCurrentCredential(g)
      PROVE  Goal
  BY <1>4, <1>same DEF SetCurrentCredential, q
<1>5. ASSUME NEW u \in Tasks, NEW g \in Files, TakeSnapshot(u, g)
      PROVE  Goal
  BY <1>5, <1>same DEF TakeSnapshot, q
<1>6. ASSUME NEW u \in Tasks, ReplaceRefused(u)
      PROVE  Goal
  BY <1>6, <1>same DEF ReplaceRefused, q
<1>7. ASSUME NEW u \in Tasks, NEW tok \in Tokens, ReplaceCredential(u, tok)
      PROVE  Goal
  <2> DEFINE w == snap[u]
             g == w.file
  <2>1. w \in Snapshot /\ g \in Files /\ w.gen \in Nat
    BY <1>7 DEF ReplaceCredential, TypeOK, Snapshot
  <2>2. /\ req[r] = q
        /\ gen[g] = w.gen /\ data[g] # Absent
        /\ torn' = torn
        /\ data' = [data EXCEPT ![g] = tok]
    BY <1>7, <2>1, ContentsDistinct
       DEF ReplaceCredential, Conflict, Listed, ListedIn, q
  <2>3. g \notin torn => data[g] = w.token
    BY <1>7, <2>2 DEF SnapInv, ReplaceCredential
  <2>4. CASE f # g
    <3>1. quotaGen'[f] = quotaGen[f] /\ data'[f] = data[f]
      BY <1>7, <1>b, <2>2, <2>4 DEF ReplaceCredential, TypeOK
    <3> QED
      BY <1>d, <2>2, <3>1
  <2>5. CASE f = g /\ quotaGen'[f] = quotaGen[f] + 1
    BY <1>b, <1>c, <1>d, <2>2, <2>5
  <2>6. CASE f = g /\ quotaGen'[f] # quotaGen[f] + 1
    <3>1. quotaGen' = quotaGen /\ AccountOf[tok] = AccountOf[w.token]
      <4>1. PICK changed \in {AccountOf[tok] # AccountOf[w.token], TRUE} :
               quotaGen' = IF changed THEN Bumped(quotaGen, g) ELSE quotaGen
        BY <1>7 DEF ReplaceCredential
      <4>2. Bumped(quotaGen, g)[f] = quotaGen[f] + 1
        BY <2>1, <2>6 DEF Bumped, TypeOK
      <4>3. ~ changed
        BY <2>6, <4>1, <4>2
      <4> QED
        BY <4>1, <4>3
    <3>2. data'[f] = tok
      BY <2>1, <2>2, <2>6 DEF TypeOK
    <3>3. f \notin torn => AccountOf[data[f]] = AccountOf[tok]
      BY <2>3, <2>6, <3>1
    <3>4. data[f] # Absent
      BY <2>2, <2>6
    <3> QED
      BY <1>d, <2>2, <3>1, <3>2, <3>3, <3>4, ContentsDistinct
  <2> QED
    BY <2>4, <2>5, <2>6
<1>8. ASSUME NEW u \in Tasks, NEW tok \in Tokens,
             ReplaceFailsAfterRename(u, tok)
      PROVE  Goal
  BY <1>8, <1>same DEF ReplaceFailsAfterRename, q
<1>9. ASSUME NEW u \in Requests, SelectNextCredential(u)
      PROVE  Goal
  <2>1. UNCHANGED <<data, quotaGen, torn>>
    BY <1>9 DEF SelectNextCredential
  <2>2. CASE u = r
    <3>1. q = [file    |-> Selection.file,
               account |-> AccountOf[data[Selection.file]],
               gen     |-> quotaGen[Selection.file]]
      BY <1>9, <2>2 DEF SelectNextCredential, q, TypeOK
    <3>2. data[Selection.file] # Absent
      BY <1>9, SelectionType, ContentsDistinct
         DEF SelectNextCredential, UsableFiles, Usable, Listed, ListedIn
    <3> QED
      BY <1>c, <2>1, <3>1, <3>2
  <2>3. CASE u # r
    BY <1>9, <1>same, <2>1, <2>3 DEF SelectNextCredential, q, TypeOK
  <2> QED
    BY <2>2, <2>3
<1>10. CASE ToggleAutoRotation
  BY <1>10, <1>same
     DEF ToggleAutoRotation, EnableAutoRotation, DisableAutoRotation, q
<1>15. ASSUME NEW enabled \in BOOLEAN, NEW count \in 1..MaxRotation,
              UpdateSettings(enabled, count)
       PROVE  Goal
  BY <1>15, <1>same DEF UpdateSettings, q
<1>11. ASSUME NEW tok \in Expirable, Expire(tok)
       PROVE  Goal
  BY <1>11, <1>same DEF Expire, q
<1>12. CASE Restart
  BY <1>12 DEF Restart, q
<1>14. ASSUME NEW T \in SUBSET Tasks, DropSnapshots(T)
       PROVE  Goal
  BY <1>14, <1>same DEF DropSnapshots, q
<1>13. CASE UNCHANGED vars
  BY <1>13, <1>same DEF vars, q
<1> QED
  BY <1>1, <1>2, <1>3, <1>4, <1>5, <1>6, <1>7, <1>8, <1>9, <1>10, <1>11,
     <1>12, <1>13, <1>14, <1>15 DEF Next

-----------------------------------------------------------------------------
(* The inductive invariant holds of every behaviour.                       *)
THEOREM Inductive == Spec => []IInv
<1>1. Init => Backed /\ SnapInv /\ ReqInv
  BY DEF Init, Backed, SnapInv, ReqInv
<1>2. IInv /\ [Next]_vars => IInv'
  BY TypeStep, BackedStep, SnapStep, ReqStep DEF IInv
<1>3. Spec => []TypeOK
  BY TypeCorrect
<1> QED
  BY <1>1, <1>2, <1>3, PTL DEF Spec, IInv

(* MemoryOnDisk: outside torn files a restart loses nothing that was       *)
(* listed, whatever failed before.                                         *)
THEOREM MemorySafe == Spec => []MemoryOnDisk
<1>1. IInv => MemoryOnDisk
  BY DEF IInv, Backed, MemoryOnDisk
<1> QED
  BY <1>1, Inductive, PTL

(* NoLostUpdate: replace_credential_by_id never writes over content its    *)
(* caller has not read, for any number of callers, deletions and           *)
(* re-creations of the same file name.                                     *)
THEOREM ReplaceSafe == Spec => []NoLostUpdate
<1>1. IInv => NoLostUpdate
  <2> SUFFICES ASSUME IInv, NEW t \in Tasks, snap[t] # None,
                      ~Conflict(snap[t]), snap[t].file \notin torn
               PROVE  data[snap[t].file] = snap[t].token
    BY DEF NoLostUpdate
  <2>1. data[snap[t].file] # Absent /\ snap[t].gen = gen[snap[t].file]
    BY ContentsDistinct DEF Conflict, Listed, ListedIn
  <2> QED
    BY <2>1 DEF IInv, SnapInv
<1> QED
  BY <1>1, Inductive, PTL

(* ChargedToSpender: usage whose quota generation still matches belongs to *)
(* the account the credential has now.                                     *)
THEOREM ChargeSafe == Spec => []ChargedToSpender
<1>1. IInv => ChargedToSpender
  <2> SUFFICES ASSUME IInv, NEW r \in Requests, req[r] # None,
                      req[r].file \in Listed \ torn,
                      quotaGen[req[r].file] = req[r].gen
               PROVE  AccountOf[data[req[r].file]] = req[r].account
    BY DEF ChargedToSpender
  <2>1. data[req[r].file] # Absent
    BY ContentsDistinct DEF Listed, ListedIn
  <2> QED
    BY <2>1 DEF IInv, ReqInv
<1> QED
  BY <1>1, Inductive, PTL

-----------------------------------------------------------------------------
(* CurrentListed: the position is on a listed file, or on none when the    *)
(* list is empty.                                                          *)
LEMMA CurrentStep ==
    TypeOK /\ Backed /\ CurrentListed /\ [Next]_vars => CurrentListed'
<1> SUFFICES ASSUME TypeOK, Backed, CurrentListed, [Next]_vars
             PROVE  CurrentListed'
  OBVIOUS
<1> USE DEF dirVars, settings, listVars, history, Bumped
<1>same. ASSUME UNCHANGED <<data, current>> PROVE CurrentListed'
  BY <1>same DEF CurrentListed, Listed, ListedIn
<1>load. ASSUME LoadAllTokens(disk') PROVE CurrentListed'
  <2>1. Listed' = ListedIn(disk')
    BY <1>load, LoadedLists DEF LoadAllTokens, Listed, ListedIn
  <2> QED
    BY <1>load, <2>1, LoadAllTokensType DEF CurrentListed
<1>1. ASSUME NEW f \in Files, NEW tok \in Tokens, AddCredential(f, tok)
      PROVE  CurrentListed'
  BY <1>1, <1>load DEF AddCredential
<1>2. ASSUME NEW f \in Files, NEW tok \in Tokens, AddCredentialFails(f, tok)
      PROVE  CurrentListed'
  BY <1>2, <1>same DEF AddCredentialFails
<1>3. ASSUME NEW f \in Files, DeleteCredential(f)
      PROVE  CurrentListed'
  BY <1>3, <1>load DEF DeleteCredential
<1>4. ASSUME NEW f \in Files, SetCurrentCredential(f)
      PROVE  CurrentListed'
  BY <1>4 DEF SetCurrentCredential, CurrentListed, Listed, ListedIn
<1>5. ASSUME NEW t \in Tasks, NEW f \in Files, TakeSnapshot(t, f)
      PROVE  CurrentListed'
  BY <1>5, <1>same DEF TakeSnapshot
<1>6. ASSUME NEW t \in Tasks, ReplaceRefused(t)
      PROVE  CurrentListed'
  BY <1>6, <1>same DEF ReplaceRefused
<1>7. ASSUME NEW t \in Tasks, NEW tok \in Tokens, ReplaceCredential(t, tok)
      PROVE  CurrentListed'
  <2>1. snap[t].file \in Listed
    BY <1>7 DEF ReplaceCredential, Conflict
  <2>2. Listed' = Listed /\ current' = current
    BY <1>7, <2>1 DEF ReplaceCredential, Listed, ListedIn, TypeOK
  <2> QED
    BY <2>2 DEF CurrentListed
<1>8. ASSUME NEW t \in Tasks, NEW tok \in Tokens,
             ReplaceFailsAfterRename(t, tok)
      PROVE  CurrentListed'
  BY <1>8, <1>same DEF ReplaceFailsAfterRename
<1>9. ASSUME NEW r \in Requests, SelectNextCredential(r)
      PROVE  CurrentListed'
  <2>1. Listed' = Listed /\ current' \in Listed
    BY <1>9, SelectionType
       DEF SelectNextCredential, UsableFiles, Usable, Listed, ListedIn
  <2> QED
    BY <2>1 DEF CurrentListed
<1>10. CASE ToggleAutoRotation
  BY <1>10, <1>same
     DEF ToggleAutoRotation, EnableAutoRotation, DisableAutoRotation
<1>15. ASSUME NEW enabled \in BOOLEAN, NEW count \in 1..MaxRotation,
              UpdateSettings(enabled, count)
       PROVE  CurrentListed'
  BY <1>15, <1>same DEF UpdateSettings
<1>11. ASSUME NEW tok \in Expirable, Expire(tok)
       PROVE  CurrentListed'
  BY <1>11, <1>same DEF Expire
<1>12. CASE Restart
  <2>1. Listed' = ListedIn(disk)
    BY <1>12, LoadedLists DEF Restart, Listed, ListedIn
  <2>2. ListedIn(disk) \in SUBSET Files
    BY DEF ListedIn
  <2>3. ListedIn(disk) # {} => First(ListedIn(disk)) \in ListedIn(disk)
    BY <2>2, FirstIsLeast
  <2> QED
    BY <1>12, <2>1, <2>3 DEF Restart, CurrentListed
<1>14. ASSUME NEW T \in SUBSET Tasks, DropSnapshots(T)
       PROVE  CurrentListed'
  BY <1>14, <1>same DEF DropSnapshots
<1>13. CASE UNCHANGED vars
  BY <1>13, <1>same DEF vars
<1> QED
  BY <1>1, <1>2, <1>3, <1>4, <1>5, <1>6, <1>7, <1>8, <1>9, <1>10, <1>11,
     <1>12, <1>13, <1>14, <1>15 DEF Next

(* CurrentListed holds of every behaviour.                                 *)
THEOREM PositionSafe == Spec => []CurrentListed
<1>1. Init => CurrentListed
  BY ContentsDistinct DEF Init, CurrentListed, Listed, ListedIn
<1>2. IInv /\ CurrentListed /\ [Next]_vars => CurrentListed'
  BY CurrentStep DEF IInv
<1> QED
  BY <1>1, <1>2, Inductive, PTL DEF Spec

-----------------------------------------------------------------------------
(* A completed selection is the saved one, its file is listed, and it is   *)
(* current unless a request found it expired.                              *)
PinInv == pin # None =>
    /\ ~auto
    /\ stateFile = pin
    /\ pin \in Listed
    /\ lapsed \/ current = pin

(* Every step keeps the fixed credential in the settings, the state file  *)
(* and the position.                                                      *)
LEMMA PinStep ==
    TypeOK /\ Backed /\ CurrentListed /\ PinInv /\ [Next]_vars => PinInv'
<1> SUFFICES ASSUME TypeOK, Backed, CurrentListed, PinInv, [Next]_vars
             PROVE  PinInv'
  OBVIOUS
<1> USE DEF dirVars, settings, listVars, history, Bumped
<1>same. ASSUME UNCHANGED <<data, current, auto, stateFile, pin, lapsed>>
         PROVE  PinInv'
  BY <1>same DEF PinInv, Listed, ListedIn
<1>load. ASSUME LoadAllTokens(disk'), UNCHANGED <<auto, stateFile>>,
                pin' # None => pin' = pin /\ disk'[pin] = disk[pin]
                               /\ (lapsed' <=> lapsed)
         PROVE  PinInv'
  <2> SUFFICES ASSUME pin' # None
               PROVE  pin \in Listed' /\ (lapsed \/ current' = pin)
    BY <1>load DEF PinInv
  <2>1. pin \in Files /\ data[pin] # Absent /\ disk'[pin] \in Tokens
    BY <1>load, ContentsDistinct DEF PinInv, Listed, ListedIn, Backed
  <2>2. pin \in ListedIn(disk')
    BY <2>1 DEF ListedIn
  <2>3. Listed' = ListedIn(disk')
    BY <1>load, LoadedLists DEF LoadAllTokens, Listed, ListedIn
  <2> QED
    BY <1>load, <2>2, <2>3 DEF LoadAllTokens, PinInv
<1>1. ASSUME NEW f \in Files, NEW tok \in Tokens, AddCredential(f, tok)
      PROVE  PinInv'
  <2>1. pin # None => disk'[pin] = disk[pin]
    BY <1>1, ContentsDistinct
       DEF AddCredential, PinInv, Listed, ListedIn, Backed, TypeOK
  <2> QED
    BY <1>1, <1>load, <2>1 DEF AddCredential
<1>2. ASSUME NEW f \in Files, NEW tok \in Tokens, AddCredentialFails(f, tok)
      PROVE  PinInv'
  BY <1>2, <1>same DEF AddCredentialFails
<1>3. ASSUME NEW f \in Files, DeleteCredential(f)
      PROVE  PinInv'
  <2>1. pin' # None => pin' = pin /\ pin # f /\ disk'[pin] = disk[pin]
    BY <1>3 DEF DeleteCredential, TypeOK
  <2>2. pin # f => (lapsed' <=> lapsed)
    BY <1>3 DEF DeleteCredential
  <2> QED
    BY <1>3, <1>load, <2>1, <2>2 DEF DeleteCredential
<1>4. ASSUME NEW f \in Files, SetCurrentCredential(f)
      PROVE  PinInv'
  <2>1. Listed' = Listed
    BY <1>4 DEF SetCurrentCredential, Listed, ListedIn
  <2> QED
    BY <1>4, <2>1, Zenon DEF SetCurrentCredential, PinInv
<1>5. ASSUME NEW t \in Tasks, NEW f \in Files, TakeSnapshot(t, f)
      PROVE  PinInv'
  BY <1>5, <1>same DEF TakeSnapshot
<1>6. ASSUME NEW t \in Tasks, ReplaceRefused(t)
      PROVE  PinInv'
  BY <1>6, <1>same DEF ReplaceRefused
<1>7. ASSUME NEW t \in Tasks, NEW tok \in Tokens, ReplaceCredential(t, tok)
      PROVE  PinInv'
  <2>1. snap[t].file \in Listed
    BY <1>7 DEF ReplaceCredential, Conflict
  <2>2. Listed' = Listed
    BY <1>7, <2>1 DEF ReplaceCredential, Listed, ListedIn, TypeOK
  <2> QED
    BY <1>7, <2>2 DEF ReplaceCredential, PinInv
<1>8. ASSUME NEW t \in Tasks, NEW tok \in Tokens,
             ReplaceFailsAfterRename(t, tok)
      PROVE  PinInv'
  BY <1>8, <1>same DEF ReplaceFailsAfterRename
<1>9. ASSUME NEW r \in Requests, SelectNextCredential(r)
      PROVE  PinInv'
  <2>1. /\ Listed' = Listed
        /\ UNCHANGED <<auto, stateFile, pin>>
    BY <1>9 DEF SelectNextCredential, Listed, ListedIn
  <2>2. CASE pin = None
    BY <2>1, <2>2 DEF PinInv
  <2>3. CASE pin # None
    <3>1. ASSUME ~lapsed' PROVE current' = pin
      <4>1. ~lapsed /\ Usable(pin)
        BY <1>9, <2>3, <3>1 DEF SelectNextCredential
      <4>2. current = pin /\ current \in UsableFiles /\ ~auto
        BY <2>3, <4>1 DEF PinInv, UsableFiles, Listed, ListedIn
      <4>3. Selection.file = current
        BY <4>2 DEF Selection
      <4> QED
        BY <1>9, <4>2, <4>3 DEF SelectNextCredential
    <3> QED
      BY <2>1, <2>3, <3>1 DEF PinInv
  <2> QED
    BY <2>2, <2>3
<1>10. CASE ToggleAutoRotation
  <2>1. Listed' = Listed
    BY <1>10 DEF ToggleAutoRotation, EnableAutoRotation, DisableAutoRotation,
                 Listed, ListedIn
  <2>2. CASE EnableAutoRotation
    <3>1. CASE pin' = None
      BY <3>1 DEF PinInv
    <3>2. CASE UNCHANGED <<auto, stateFile, pin, lapsed>>
      <4>1. current' = current
        BY <2>2 DEF EnableAutoRotation
      <4> QED
        BY <2>1, <3>2, <4>1 DEF PinInv
    <3> QED
      BY <2>2, <3>1, <3>2 DEF EnableAutoRotation
  <2>3. CASE DisableAutoRotation
    <3>1. current # None => current \in Listed
      BY DEF CurrentListed
    <3>2. current' = current
      BY <2>3 DEF DisableAutoRotation
    <3>3. ~auto' /\ pin' = IF stateFile' = current THEN current ELSE None
      BY <2>3, Zenon DEF DisableAutoRotation
    <3> QED
      BY <2>1, <3>1, <3>2, <3>3 DEF PinInv
  <2> QED
    BY <1>10, <2>2, <2>3 DEF ToggleAutoRotation
<1>15. ASSUME NEW enabled \in BOOLEAN, NEW count \in 1..MaxRotation,
              UpdateSettings(enabled, count)
       PROVE  PinInv'
  <2>1. Listed' = Listed
    BY <1>15 DEF UpdateSettings, Listed, ListedIn
  <2>2. CASE enabled
    BY <1>15, <2>2 DEF UpdateSettings, PinInv
  <2>3. CASE ~enabled
    <3>1. ~auto' /\ pin' = pin /\ (lapsed' <=> lapsed)
      BY <1>15, <2>3, Zenon DEF UpdateSettings
    <3>2. UNCHANGED <<stateFile, current>>
      BY <1>15 DEF UpdateSettings
    <3> QED
      BY <2>1, <3>1, <3>2 DEF PinInv
  <2> QED
    BY <2>2, <2>3
<1>11. ASSUME NEW tok \in Expirable, Expire(tok)
       PROVE  PinInv'
  BY <1>11, <1>same DEF Expire
<1>12. CASE Restart
  <2>1. Listed' = ListedIn(disk)
    BY <1>12, LoadedLists DEF Restart, Listed, ListedIn
  <2>2. pin # None => pin \in ListedIn(disk)
    BY ContentsDistinct DEF PinInv, Backed, Listed, ListedIn
  <2> QED
    BY <1>12, <2>1, <2>2 DEF Restart, PinInv
<1>14. ASSUME NEW T \in SUBSET Tasks, DropSnapshots(T)
       PROVE  PinInv'
  BY <1>14, <1>same DEF DropSnapshots
<1>13. CASE UNCHANGED vars
  BY <1>13, <1>same DEF vars
<1> QED
  BY <1>1, <1>2, <1>3, <1>4, <1>5, <1>6, <1>7, <1>8, <1>9, <1>10, <1>11,
     <1>12, <1>13, <1>14, <1>15 DEF Next

(* PinKept: what the operator fixed stays fixed across every other change  *)
(* of the directory and across restarts.                                   *)
THEOREM PinSafe == Spec => []PinKept
<1>1. Init => PinInv
  BY DEF Init, PinInv
<1>2. IInv /\ CurrentListed /\ PinInv /\ [Next]_vars => PinInv'
  BY PinStep DEF IInv
<1>3. PinInv => PinKept
  BY DEF PinInv, PinKept
<1> QED
  BY <1>1, <1>2, <1>3, Inductive, PositionSafe, PTL DEF Spec

-----------------------------------------------------------------------------
(* Snapshots are dropped of coroutines only.                               *)
LEMMA DropIsNext == ASSUME NEW T, DropSnapshots(T) PROVE Next
<1>1. DropSnapshots(T \intersect Tasks)
  BY DEF DropSnapshots
<1>2. T \intersect Tasks \in SUBSET Tasks
  OBVIOUS
<1> QED
  BY <1>1, <1>2 DEF Next

(* So are the snapshot, and each of the writes, of a coroutine.            *)
LEMMA SnapshotIsNext ==
    ASSUME NEW c \in Tasks, NEW f \in Files, TakeSnapshot(c, f)
    PROVE  Next
BY DEF Next

(* The outcomes of a replacement.                                          *)
LEMMA ReplaceIsNext ==
    ASSUME NEW c \in Tasks, NEW tok \in Tokens,
           \/ ReplaceCredential(c, tok)
           \/ ReplaceFailsAfterRename(c, tok)
           \/ ReplaceRefused(c)
    PROVE  Next
BY DEF Next

(* The last write of a coroutine.                                          *)
LEMMA FinalWriteIsNext ==
    ASSUME NEW c \in Tasks, NEW tok \in Tokens, NEW quotaChanged,
           FinalWrite(c, tok, quotaChanged)
    PROVE  Next
BY ReplaceIsNext DEF FinalWrite

(* A retry writes nothing; giving up drops the snapshot.                   *)
LEMMA RetryIsNext ==
    ASSUME NEW c, Retry(c) PROVE [Next]_vars
BY DropIsNext DEF Retry, Fail

(* Every step of a coroutine is a step of the token manager, or none.      *)
LEMMA TaskStepIsNext ==
    ASSUME NEW c \in Tasks, TaskStep(c) PROVE [Next]_vars
<1>1. CASE JoinJob(c)
  BY <1>1, DropIsNext DEF JoinJob
<1>2. CASE StartJob(c)
  BY <1>2 DEF StartJob
<1>3. CASE NextAttempt(c)
  BY <1>3 DEF NextAttempt
<1>4. CASE TokenRefused(c)
  BY <1>4, DropIsNext, RetryIsNext DEF TokenRefused, Fail
<1>5. CASE TokenReturned(c)
  <2>1. PICK tok \in Pending : TokenStored(c, tok)
    BY <1>5 DEF TokenReturned
  <2>2. tok \in Tokens
    BY PendingTyped
  <2> QED
    BY <2>1, <2>2, ReplaceIsNext DEF TokenStored
<1>6. CASE AccountsRefused(c)
  BY <1>6, DropIsNext, RetryIsNext DEF AccountsRefused, Fail
<1>7. CASE AccountsReturned(c)
  BY <1>7, FinalWriteIsNext DEF AccountsReturned
<1>8. CASE Drop(c)
  BY <1>8 DEF Drop, Wake
<1>9. CASE SwitchEnds(c)
  BY <1>9, DropIsNext, FinalWriteIsNext DEF SwitchEnds, Fail
<1>10. CASE ModeUpdateEnds(c)
  BY <1>10, DropIsNext, FinalWriteIsNext DEF ModeUpdateEnds, Fail
<1> QED
  BY <1>1, <1>2, <1>3, <1>4, <1>5, <1>6, <1>7, <1>8, <1>9, <1>10 DEF TaskStep

(* So is every step of the module.                                         *)
LEMMA StepIsNext == [RefreshNext]_allVars => [Next]_vars
<1> SUFFICES ASSUME [RefreshNext]_allVars PROVE [Next]_vars
  OBVIOUS
<1>1. ASSUME NEW f \in Files, Scan(f) PROVE Next
  BY <1>1, SnapshotIsNext, JobsTyped DEF Scan
<1>2. ASSUME NEW c \in Tasks, TaskStep(c) PROVE [Next]_vars
  BY <1>2, TaskStepIsNext
<1>3. ASSUME NEW c \in Switches, NEW f \in Files,
             WaitToSwitch(c, f) \/ StartSwitch(c, f)
      PROVE  [Next]_vars
  BY <1>3, SnapshotIsNext, KindsTyped
     DEF WaitToSwitch, StartSwitch, BeginSwitch
<1>4. ASSUME NEW c \in ModeUpdates, NEW f \in Files, StartModeUpdate(c, f)
      PROVE  Next
  BY <1>4, SnapshotIsNext, KindsTyped DEF StartModeUpdate
<1>5. CASE Elsewhere
  <2>1. ASSUME NEW f \in Files, NEW tok \in Tokens \ Pending,
               AddCredential(f, tok) \/ AddCredentialFails(f, tok)
        PROVE  Next
    BY <2>1 DEF Next
  <2> QED
    BY <1>5, <2>1, Zenon DEF Elsewhere, Next
<1>6. CASE Shutdown
  BY <1>6, DropIsNext DEF Shutdown
<1>7. CASE RestartAll
  BY <1>7 DEF RestartAll, Next
<1>8. CASE UNCHANGED allVars
  BY <1>8 DEF allVars
<1>9. ASSUME NEW c \in Switches, ResumeSwitch(c) PROVE [Next]_vars
  <2>1. CASE target[c] \in Listed
    <3>1. target[c] \in Files
      BY <2>1 DEF Listed, ListedIn
    <3> QED
      BY <1>9, <2>1, <3>1, SnapshotIsNext, KindsTyped
         DEF ResumeSwitch, BeginSwitch
  <2>2. CASE target[c] \notin Listed
    BY <1>9, <2>2 DEF ResumeSwitch
  <2> QED
    BY <2>1, <2>2
<1> QED
  BY <1>1, <1>2, <1>3, <1>4, <1>5, <1>6, <1>7, <1>8, <1>9 DEF RefreshNext

(* Every write of the refresh, switch and probe-mode coroutines is one of  *)
(* the token manager's, with its compare-and-swap: CredentialRefresh       *)
(* implements TokenManager.                                                *)
THEOREM Implements == RefreshSpec => Spec
<1>1. RefreshInit => Init
  BY DEF RefreshInit
<1> QED
  BY <1>1, StepIsNext, PTL DEF RefreshSpec, Spec

(* So the credentials it writes are safe: what TokenManagerProofs says of  *)
(* every behaviour of the token manager holds here.                        *)
THEOREM Inherits == RefreshSpec => [](IInv /\ NoLostUpdate)
BY Implements, Inductive, ReplaceSafe, PTL

-----------------------------------------------------------------------------
(* Whoever waits for a task is suspended for that only, whoever does       *)
(* anything has a credential, and a probe-mode update registers nothing.   *)
(* After shutdown nothing is registered and nothing can begin to be.       *)
Waits ==
    \A c \in Tasks : awaits[c] # None => stage[c] \in {"joined", "waiting"}

Placed ==
    \A c \in Tasks :
        /\ stage[c] # "idle" => target[c] \in Files
        /\ stage[c] \in {"queued", "joined"} => \E f \in Files : c = Jobs[f]
        /\ c \in ModeUpdates => stage[c] \in {"idle", "probe"}

Quiet ==
    stopped => /\ \A f \in Files : inflight[f] = None
               /\ \A c \in Tasks : stage[c] # "queued"

Flight == RefreshTypeOK /\ Waits /\ Placed /\ SingleFlight /\ Quiet

(* One coroutine that is registered, or displaced, goes on.                *)
LEMMA MoveKeeps ==
    ASSUME Flight, NEW c \in Tasks, NEW place \in Running, Move(c, place),
           stage[c] \in Running,
           UNCHANGED <<target, awaits, stopped>>,
           TypeOK', attempt' \in [Tasks -> 0..MaxAttempts],
           refreshed' \in [Tasks -> BOOLEAN]
    PROVE  Flight'
<1> USE DEF Flight, Move
<1>1. RefreshTypeOK'
  BY DEF RefreshTypeOK, Stages
<1>2. \A d \in Tasks : stage'[d] = IF d = c THEN place ELSE stage[d]
  BY DEF RefreshTypeOK
<1>3. Waits'
  BY <1>2 DEF Waits, RefreshTypeOK, Running
<1>4. Placed'
  BY <1>2 DEF Placed, Running
<1>5. SingleFlight'
  <2>1. InflightFresh'
    BY <1>2 DEF SingleFlight, InflightFresh, Free, RefreshTypeOK
  <2> QED
    BY <2>1, <1>2 DEF SingleFlight
<1>6. Quiet'
  BY <1>2 DEF Quiet, Running
<1> QED
  BY <1>1, <1>3, <1>4, <1>5, <1>6

(* The task of a coroutine ends; its entry is still there.                 *)
LEMMA EndKeeps ==
    ASSUME Flight, NEW c \in Tasks, NEW outcome \in Ended,
           stage[c] \in Running \union {"probe"},
           End(c, outcome), TypeOK', UNCHANGED stopped
    PROVE  Flight'
<1> USE DEF Flight, End, taskVars
<1>1. \A d \in Tasks :
        stage'[d] = IF d # c THEN stage[d]
                    ELSE IF c \in ModeUpdates THEN "idle" ELSE outcome
  BY DEF RefreshTypeOK
<1>2. RefreshTypeOK'
  BY DEF RefreshTypeOK, Stages
<1>3. Waits'
  BY <1>1 DEF Waits, Running
<1>4. Placed'
  BY <1>1 DEF Placed, Running, Ended
<1>5. InflightFresh'
  <2> SUFFICES ASSUME NEW f \in Files, inflight[f] # None
               PROVE  /\ stage'[inflight[f]] \in Running \union Ended
                      /\ target[inflight[f]] = f
    BY DEF InflightFresh, Free
  <2>1. /\ inflight[f] \in Tasks /\ target[inflight[f]] = f
        /\ stage[inflight[f]] \in Running \union Ended
    BY DEF RefreshTypeOK, SingleFlight, InflightFresh, Free
  <2>2. inflight[f] \notin ModeUpdates
    BY <2>1 DEF Placed, Running, Ended
  <2> QED
    BY <1>1, <2>1, <2>2
<1>6. SingleFlight'
  BY <1>1, <1>5 DEF SingleFlight, Running, Ended
<1>7. Quiet'
  BY <1>1 DEF Quiet, Ended
<1> QED
  BY <1>2, <1>3, <1>4, <1>6, <1>7

(* The coroutine that registered a task takes notice of its end, and those *)
(* who waited for it with it.                                              *)
LEMMA DropKeeps ==
    ASSUME Flight, NEW c \in Tasks, Drop(c), TypeOK'
    PROVE  Flight'
<1> USE DEF Flight
<1>1. /\ stage[c] \in Ended
      /\ UNCHANGED <<target, attempt, refreshed, stopped, displaced>>
  BY DEF Drop, Wake
<1>2. \A d \in Tasks :
        /\ awaits'[d] = IF awaits[d] = c THEN None ELSE awaits[d]
        /\ d = c => stage'[d] = "idle"
        /\ awaits[d] = c => stage'[d] \in {"idle", "woken"}
        /\ d # c /\ awaits[d] # c => stage'[d] = stage[d]
  BY DEF Drop, Wake
<1>3. \A d \in Tasks : awaits[d] = c => stage[d] \in {"joined", "waiting"}
  BY NoneIsNothing DEF Waits
<1>4. RefreshTypeOK'
  <2>1. stage' \in [Tasks -> Stages] /\ awaits' \in [Tasks -> Tasks \union {None}]
    BY DEF Drop, Wake, RefreshTypeOK, Stages
  <2>2. inflight' \in [Files -> Tasks \union {None}]
    BY DEF Drop, RefreshTypeOK
  <2> QED
    BY <1>1, <2>1, <2>2 DEF RefreshTypeOK
<1>5. Waits'
  BY <1>2, NoneIsNothing, <1>1 DEF Waits, Ended
<1>6. Placed'
  BY <1>1, <1>2, <1>3 DEF Placed, Ended
<1>7. \A d \in Tasks :
        /\ stage'[d] \in Running => stage'[d] = stage[d] /\ d # c
        /\ d # c /\ stage[d] \in Running \union Ended => stage'[d] = stage[d]
  BY <1>2, <1>3 DEF Running, Ended
<1>8. \A f \in Files : inflight'[f] = IF inflight[f] = c THEN None ELSE inflight[f]
  BY DEF Drop
<1>9. InflightFresh'
  <2> SUFFICES ASSUME NEW f \in Files, inflight'[f] # None
               PROVE  /\ stage'[inflight'[f]] \in Running \union Ended
                      /\ target'[inflight'[f]] = f
    BY DEF InflightFresh, Free
  <2>1. inflight'[f] = inflight[f] /\ inflight[f] # c /\ inflight[f] # None
    BY <1>8
  <2>2. /\ inflight[f] \in Tasks /\ target[inflight[f]] = f
        /\ stage[inflight[f]] \in Running \union Ended
    BY <2>1 DEF RefreshTypeOK, SingleFlight, InflightFresh, Free
  <2> QED
    BY <1>1, <1>7, <2>1, <2>2
<1>10. SingleFlight'
  <2> SUFFICES ASSUME NEW d \in Tasks, stage'[d] \in Running
               PROVE  inflight'[target'[d]] = d \/ d \in displaced'
    BY <1>9 DEF SingleFlight
  <2>1. d # c /\ stage[d] \in Running
    BY <1>7
  <2>2. target[d] \in Files
    BY <2>1 DEF Placed, Running
  <2> QED
    BY <1>1, <1>8, <2>1, <2>2 DEF SingleFlight
<1>11. Quiet'
  BY <1>1, <1>2, <1>8 DEF Quiet
<1> QED
  BY <1>4, <1>5, <1>6, <1>10, <1>11

(* A coroutine without a task begins one, and registers it: a task that    *)
(* still ran is displaced.                                                 *)
LEMMA RegisterKeeps ==
    ASSUME Flight, NEW c \in Tasks, NEW f \in Files, NEW place \in Running,
           ~stopped, awaits[c] = None, stage[c] \notin Running \union Ended,
           c \notin ModeUpdates,
           stage' = [stage EXCEPT ![c] = place],
           target' = [target EXCEPT ![c] = f],
           Register(c, f), UNCHANGED <<awaits, stopped>>,
           TypeOK', attempt' \in [Tasks -> 0..MaxAttempts],
           refreshed' \in [Tasks -> BOOLEAN]
    PROVE  Flight'
<1> USE DEF Flight, Register
<1>1. \A d \in Tasks : /\ stage'[d] = IF d = c THEN place ELSE stage[d]
                       /\ target'[d] = IF d = c THEN f ELSE target[d]
  BY DEF RefreshTypeOK
<1>2. \A g \in Files : inflight'[g] = IF g = f THEN c ELSE inflight[g]
  BY DEF RefreshTypeOK
<1>3. displaced' \in SUBSET Tasks
  BY DEF RefreshTypeOK, Occupied, Free
<1>4. RefreshTypeOK'
  BY <1>3 DEF RefreshTypeOK, Stages
<1>5. Waits' /\ Placed'
  BY <1>1 DEF Waits, Placed, Running
<1>6. InflightFresh'
  <2> SUFFICES ASSUME NEW g \in Files, inflight'[g] # None
               PROVE  /\ stage'[inflight'[g]] \in Running \union Ended
                      /\ target'[inflight'[g]] = g
    BY DEF InflightFresh, Free
  <2>1. CASE g = f
    BY <2>1, <1>1, <1>2
  <2>2. CASE g # f
    <3>1. inflight'[g] = inflight[g] /\ inflight[g] \in Tasks
      BY <2>2, <1>2 DEF RefreshTypeOK
    <3> QED
      BY <3>1, <1>1 DEF SingleFlight, InflightFresh, Free
  <2> QED
    BY <2>1, <2>2
<1>7. SingleFlight'
  <2> SUFFICES ASSUME NEW d \in Tasks, stage'[d] \in Running
               PROVE  inflight'[target'[d]] = d \/ d \in displaced'
    BY <1>6 DEF SingleFlight
  <2>1. CASE d = c
    BY <2>1, <1>1, <1>2
  <2>2. CASE d # c
    <3>1. stage[d] \in Running /\ target'[d] = target[d]
      BY <2>2, <1>1
    <3>2. target[d] \in Files
      BY <3>1 DEF Placed, Running
    <3>3. CASE inflight[target[d]] = d /\ target[d] = f
      BY <3>1, <3>3, NoneIsNothing DEF Occupied, Free
    <3>4. CASE inflight[target[d]] = d /\ target[d] # f
      BY <3>1, <3>2, <3>4, <1>2
    <3>5. CASE d \in displaced
      BY <3>5
    <3> QED
      BY <3>1, <3>3, <3>4, <3>5 DEF SingleFlight
  <2> QED
    BY <2>1, <2>2
<1>8. Quiet'
  BY DEF Quiet
<1> QED
  BY <1>4, <1>5, <1>7, <1>8

(* A coroutine without a task is suspended elsewhere, or comes to rest.    *)
LEMMA SuspendKeeps ==
    ASSUME Flight, NEW c \in Tasks, NEW f \in Files, NEW place \in Stages,
           stage[c] \notin Running \union Ended,
           place \notin Running \union Ended,
           stage' = [stage EXCEPT ![c] = place],
           target' = [target EXCEPT ![c] = f],
           place \in {"queued", "joined"} => \E g \in Files : c = Jobs[g],
           c \in ModeUpdates => place \in {"idle", "probe"},
           stopped => place # "queued",
           awaits' \in [Tasks -> Tasks \union {None}],
           \A d \in Tasks : d # c => awaits'[d] = awaits[d],
           awaits'[c] # None => place \in {"joined", "waiting"},
           UNCHANGED <<attempt, refreshed, inflight, stopped, displaced>>,
           TypeOK'
    PROVE  Flight'
<1> USE DEF Flight
<1>1. \A d \in Tasks : /\ stage'[d] = IF d = c THEN place ELSE stage[d]
                       /\ target'[d] = IF d = c THEN f ELSE target[d]
  BY DEF RefreshTypeOK
<1>2. RefreshTypeOK'
  BY DEF RefreshTypeOK
<1>3. Waits' /\ Placed' /\ Quiet'
  BY <1>1 DEF Waits, Placed, Quiet
<1>4. InflightFresh'
  BY <1>1 DEF SingleFlight, InflightFresh, Free, RefreshTypeOK
<1>5. SingleFlight'
  BY <1>1, <1>4 DEF SingleFlight
<1> QED
  BY <1>2, <1>3, <1>5

-----------------------------------------------------------------------------
(* What a step of a coroutine other than its end does to it.               *)
LEMMA FailKeeps ==
    ASSUME Flight, TypeOK', NEW c \in Tasks, Fail(c),
           stage[c] \in Running \union {"probe"}, UNCHANGED stopped
    PROVE  Flight'
BY EndKeeps DEF Fail, Ended

(* A retry stays registered; giving up is an end.                          *)
LEMMA RetryKeeps ==
    ASSUME Flight, TypeOK', NEW c \in Tasks, stage[c] \in Running,
           Retry(c), UNCHANGED stopped
    PROVE  Flight'
<1>1. CASE attempt[c] < MaxAttempts
  <2>1. attempt[c] \in 0..MaxAttempts
    BY DEF Flight, RefreshTypeOK
  <2>2. attempt' \in [Tasks -> 0..MaxAttempts]
    BY <1>1, <2>1, AttemptsTyped DEF Retry, Flight, RefreshTypeOK
  <2>3. refreshed' \in [Tasks -> BOOLEAN] /\ Move(c, "retry")
        /\ UNCHANGED <<target, awaits>>
    BY <1>1 DEF Retry, Flight, RefreshTypeOK
  <2> QED
    BY <2>2, <2>3, MoveKeeps DEF Running
<1>2. CASE ~(attempt[c] < MaxAttempts)
  BY <1>2, FailKeeps DEF Retry
<1> QED
  BY <1>1, <1>2

(* The last write is an end.                                               *)
LEMMA FinalWriteKeeps ==
    ASSUME Flight, TypeOK', NEW c \in Tasks,
           stage[c] \in Running \union {"probe"}, NEW tok,
           NEW quotaChanged, FinalWrite(c, tok, quotaChanged),
           UNCHANGED stopped
    PROVE  Flight'
BY EndKeeps DEF FinalWrite, Ended

(* A switch that begins is registered.                                     *)
LEMMA BeginSwitchKeeps ==
    ASSUME Flight, TypeOK', NEW c \in Switches, NEW f \in Files, ~stopped,
           awaits[c] = None, stage[c] \notin Running \union Ended,
           BeginSwitch(c, f),
           UNCHANGED <<awaits, attempt, refreshed, stopped>>
    PROVE  Flight'
<1>1. attempt' \in [Tasks -> 0..MaxAttempts] /\ refreshed' \in [Tasks -> BOOLEAN]
  BY DEF Flight, RefreshTypeOK
<1>2. "switch" \in Running /\ c \in Tasks /\ c \notin ModeUpdates
  BY KindsTyped DEF Running
<1> QED
  BY <1>1, <1>2, RegisterKeeps DEF BeginSwitch

(* A switch that was woken begins, or comes to rest.                       *)
LEMMA ResumeKeeps ==
    ASSUME Flight, TypeOK', NEW c \in Switches, ResumeSwitch(c)
    PROVE  Flight'
<1>1. /\ c \in Tasks /\ target[c] \in Files /\ awaits[c] = None
      /\ stage[c] \notin Running \union Ended
  BY KindsTyped DEF ResumeSwitch, Flight, Placed, Waits, Running, Ended
<1>2. CASE ~stopped /\ BeginSwitch(c, target[c])
  BY <1>1, <1>2, BeginSwitchKeeps DEF ResumeSwitch
<1>3. CASE Move(c, "idle") /\ UNCHANGED target
  <2>1. /\ target' = [target EXCEPT ![c] = target[c]]
        /\ awaits \in [Tasks -> Tasks \union {None}]
    BY <1>3 DEF Flight, RefreshTypeOK
  <2>2. "idle" \in Stages /\ "idle" \notin Running \union Ended
    BY DEF Stages, Running, Ended
  <2> QED
    BY <1>1, <1>3, <2>1, <2>2, SuspendKeeps DEF ResumeSwitch, Move
<1> QED
  BY <1>2, <1>3 DEF ResumeSwitch

(* The steps of a suspended coroutine.                                     *)
LEMMA TaskStepKeeps ==
    ASSUME Flight, TypeOK', NEW c \in Tasks, TaskStep(c)
    PROVE  Flight'
<1>1. attempt \in [Tasks -> 0..MaxAttempts] /\ refreshed \in [Tasks -> BOOLEAN]
  BY DEF Flight, RefreshTypeOK
<1>2. ASSUME stage[c] = "queued"
      PROVE  /\ target[c] \in Files /\ awaits[c] = None /\ ~stopped
             /\ \E g \in Files : c = Jobs[g]
             /\ target' = target => target' = [target EXCEPT ![c] = target[c]]
             /\ stage[c] \notin Running \union Ended
             /\ c \notin ModeUpdates
  BY <1>2 DEF Flight, Placed, Waits, Quiet, RefreshTypeOK, Running, Ended
<1>3. CASE JoinJob(c)
  <2>1. stage[c] = "queued" /\ UNCHANGED target
    BY <1>3 DEF JoinJob
  <2>2. inflight[target[c]] \in Tasks
    BY <1>2, <1>3, <2>1 DEF JoinJob, Flight, RefreshTypeOK, Free
  <2>3. PICK place \in {"joined", "idle"} :
          /\ Move(c, place)
          /\ IF place = "joined"
               THEN awaits' = [awaits EXCEPT ![c] = inflight[target[c]]]
               ELSE UNCHANGED awaits
    BY <1>3 DEF JoinJob
  <2>4. /\ awaits' \in [Tasks -> Tasks \union {None}]
        /\ \A d \in Tasks : d # c => awaits'[d] = awaits[d]
        /\ awaits'[c] # None => place = "joined"
    BY <1>2, <2>1, <2>2, <2>3 DEF Flight, RefreshTypeOK
  <2>5. place \in Stages /\ place \notin Running \union Ended
    BY DEF Stages, Running, Ended
  <2>6. UNCHANGED <<attempt, refreshed, stopped>>
    BY <1>3 DEF JoinJob
  <2> QED
    BY <1>2, <2>1, <2>3, <2>4, <2>5, <2>6, SuspendKeeps DEF Move
<1>4. CASE StartJob(c)
  <2>1. stage[c] = "queued" /\ UNCHANGED target
    BY <1>4 DEF StartJob
  <2>2. FirstCall(snap[c].token) \in Running
    BY DEF FirstCall, Running
  <2>3. attempt' \in [Tasks -> 0..MaxAttempts] /\ refreshed' \in [Tasks -> BOOLEAN]
    <3>1. 1 \in 0..MaxAttempts /\ FALSE \in BOOLEAN
      BY AttemptsTyped
    <3>2. /\ attempt' = [attempt EXCEPT ![c] = 1]
          /\ refreshed' = [refreshed EXCEPT ![c] = FALSE]
      BY <1>4 DEF StartJob
    <3> QED
      BY <1>1, <3>1, <3>2, Zenon
  <2> QED
    BY <1>2, <1>4, <2>1, <2>2, <2>3, RegisterKeeps DEF StartJob
<1>5. CASE NextAttempt(c)
  <2>1. FirstCall(snap[c].token) \in Running /\ stage[c] \in Running
    BY <1>5 DEF FirstCall, NextAttempt, Running
  <2>2. refreshed' = [refreshed EXCEPT ![c] = FALSE] /\ UNCHANGED attempt
    BY <1>5 DEF NextAttempt
  <2>3. refreshed' \in [Tasks -> BOOLEAN]
    BY <1>1, <2>2
  <2> QED
    BY <1>1, <1>5, <2>1, <2>2, <2>3, MoveKeeps DEF NextAttempt
<1>6. CASE TokenRefused(c)
  BY <1>6, FailKeeps, RetryKeeps DEF TokenRefused, Running
<1>7. CASE TokenReturned(c)
  <2>1. PICK tok \in Pending : TokenStored(c, tok)
    BY <1>7 DEF TokenReturned
  <2>2. stage[c] \in Running /\ "accounts" \in Running /\ UNCHANGED stopped
    BY <2>1 DEF TokenStored, Running
  <2>3. CASE /\ Move(c, "accounts")
             /\ refreshed' = [refreshed EXCEPT ![c] = TRUE]
             /\ UNCHANGED <<target, awaits, attempt>>
    BY <1>1, <2>2, <2>3, MoveKeeps
  <2> QED
    BY <2>1, <2>2, <2>3, EndKeeps DEF TokenStored, Ended
<1>8. CASE AccountsRefused(c)
  <2>1. stage[c] \in Running /\ "post" \in Running /\ UNCHANGED stopped
    BY <1>8 DEF AccountsRefused, Running
  <2>2. CASE Move(c, "post") /\ UNCHANGED taskVars
    BY <1>1, <2>1, <2>2, MoveKeeps DEF taskVars
  <2> QED
    BY <1>8, <2>1, <2>2, FailKeeps, RetryKeeps DEF AccountsRefused
<1>9. CASE AccountsReturned(c)
  BY <1>9, FinalWriteKeeps DEF AccountsReturned, Running
<1>10. CASE Drop(c)
  BY <1>10, DropKeeps
<1>11. CASE SwitchEnds(c)
  BY <1>11, FailKeeps, FinalWriteKeeps DEF SwitchEnds, Running
<1>12. CASE ModeUpdateEnds(c)
  BY <1>12, FailKeeps, FinalWriteKeeps DEF ModeUpdateEnds
<1> QED
  BY <1>3, <1>4, <1>5, <1>6, <1>7, <1>8, <1>9, <1>10, <1>11, <1>12
     DEF TaskStep

(* Shutdown cancels all that is registered and runs, or queued or joined.  *)
LEMMA ShutdownKeeps ==
    ASSUME Flight, TypeOK', Shutdown PROVE Flight'
<1> DEFINE cancelled == {inflight[f] : f \in {g \in Files : Occupied(g)}}
           jobs == {Jobs[f] : f \in Files}
           gone == cancelled
                   \union {c \in jobs : stage[c] \in {"queued", "joined"}}
                   \union {c \in Switches : awaits[c] \in cancelled}
<1>1. \A d \in Tasks :
        /\ stage'[d] = IF d \in gone THEN "idle" ELSE stage[d]
        /\ awaits'[d] = IF d \in gone THEN None ELSE awaits[d]
  BY Zenon DEF Shutdown
<1>2. \A f \in Files : inflight'[f] = None
  BY DEF Shutdown
<1>3. /\ stopped' = TRUE
      /\ UNCHANGED <<target, attempt, refreshed, displaced>>
  BY DEF Shutdown
<1>4. /\ DOMAIN stage' = Tasks /\ DOMAIN awaits' = Tasks
      /\ stage' = [d \in Tasks |-> stage'[d]]
      /\ awaits' = [d \in Tasks |-> awaits'[d]]
      /\ inflight' = [f \in Files |-> None]
  BY Zenon DEF Shutdown
<1>5. \A d \in Tasks : stage[d] = "queued" => d \in gone
  BY DEF Flight, Placed
<1>6. \A d \in Tasks : stage[d] \in Running /\ d \notin gone => d \in displaced
  <2> SUFFICES ASSUME NEW d \in Tasks, stage[d] \in Running, d \notin displaced
               PROVE  d \in cancelled
    OBVIOUS
  <2>1. target[d] \in Files
    BY DEF Flight, Placed, Running
  <2>2. inflight[target[d]] = d
    BY DEF Flight, SingleFlight
  <2>3. Occupied(target[d])
    BY <2>2, NoneIsNothing DEF Occupied, Free
  <2> QED
    BY <2>1, <2>2, <2>3
<1> HIDE DEF gone
<1>7. RefreshTypeOK'
  <2>1. stage' \in [Tasks -> Stages] /\ awaits' \in [Tasks -> Tasks \union {None}]
    <3>1. \A d \in Tasks : stage'[d] \in Stages /\ awaits'[d] \in Tasks \union {None}
      BY <1>1 DEF Flight, RefreshTypeOK, Stages
    <3> QED
      BY <1>4, <3>1
  <2> QED
    BY <1>3, <1>4, <2>1 DEF Flight, RefreshTypeOK
<1>8. Waits' /\ Placed'
  BY <1>1, <1>3 DEF Flight, Waits, Placed
<1>9. SingleFlight'
  BY <1>1, <1>2, <1>3, <1>6 DEF SingleFlight, InflightFresh, Free, Running
<1>10. Quiet'
  BY <1>1, <1>2, <1>5 DEF Quiet
<1> QED
  BY <1>7, <1>8, <1>9, <1>10 DEF Flight

(* Every step keeps all of it.                                             *)
LEMMA FlightStep == Flight /\ TypeOK' /\ [RefreshNext]_allVars => Flight'
<1> SUFFICES ASSUME Flight, TypeOK', [RefreshNext]_allVars PROVE Flight'
  OBVIOUS
<1>1. ASSUME NEW c \in Tasks, stage[c] = "idle"
      PROVE  awaits[c] = None /\ stage[c] \notin Running \union Ended
  BY <1>1 DEF Flight, Waits, Running, Ended
<1>2. awaits \in [Tasks -> Tasks \union {None}]
  BY DEF Flight, RefreshTypeOK
<1>3. \A place \in {"queued", "waiting", "probe"} :
          place \in Stages /\ place \notin Running \union Ended
  BY DEF Stages, Running, Ended
<1>4. ASSUME NEW f \in Files, Scan(f) PROVE Flight'
  <2>1. Jobs[f] \in Tasks /\ stage[Jobs[f]] = "idle" /\ Jobs[f] \notin ModeUpdates
    BY <1>4, JobsTyped, KindsTyped DEF Scan
  <2> QED
    BY <1>1, <1>2, <1>3, <1>4, <2>1, SuspendKeeps DEF Scan, Move
<1>5. ASSUME NEW c \in Tasks, TaskStep(c) PROVE Flight'
  BY <1>5, TaskStepKeeps
<1>6. ASSUME NEW c \in Switches, NEW f \in Files, WaitToSwitch(c, f)
      PROVE  Flight'
  <2>1. /\ c \in Tasks /\ c \notin ModeUpdates /\ stage[c] = "idle"
        /\ inflight[f] \in Tasks
    BY <1>6, KindsTyped DEF WaitToSwitch, Occupied, Free, Flight, RefreshTypeOK
  <2>2. /\ awaits' \in [Tasks -> Tasks \union {None}]
        /\ \A d \in Tasks : d # c => awaits'[d] = awaits[d]
    BY <1>2, <1>6, <2>1 DEF WaitToSwitch
  <2> QED
    BY <1>1, <1>3, <1>6, <2>1, <2>2, SuspendKeeps DEF WaitToSwitch, Move
<1>7. ASSUME NEW c \in Switches, NEW f \in Files, StartSwitch(c, f)
      PROVE  Flight'
  BY <1>1, <1>7, KindsTyped, BeginSwitchKeeps DEF StartSwitch
<1>8. ASSUME NEW c \in ModeUpdates, NEW f \in Files, StartModeUpdate(c, f)
      PROVE  Flight'
  BY <1>1, <1>2, <1>3, <1>8, KindsTyped, SuspendKeeps DEF StartModeUpdate, Move
<1>9. CASE UNCHANGED refreshVars
  BY <1>9 DEF refreshVars, taskVars, Flight, RefreshTypeOK, Waits, Placed,
              SingleFlight, InflightFresh, Free, Quiet
<1>10. CASE Shutdown
  BY <1>10, ShutdownKeeps
<1>11. CASE RestartAll
  BY <1>11 DEF RestartAll, Flight, RefreshTypeOK, Waits, Placed,
               SingleFlight, InflightFresh, Free, Quiet, Stages, Running
<1>12. ASSUME NEW c \in Switches, ResumeSwitch(c) PROVE Flight'
  BY <1>12, ResumeKeeps
<1> QED
  BY <1>4, <1>5, <1>6, <1>7, <1>8, <1>9, <1>10, <1>11, <1>12
     DEF RefreshNext, Elsewhere, allVars

(* It holds of every behaviour.                                            *)
THEOREM FlightAlways == RefreshSpec => []Flight
<1>1. RefreshInit /\ TypeOK => Flight
  <2> SUFFICES ASSUME RefreshInit, TypeOK PROVE Flight
    OBVIOUS
  <2>1. 0 \in 0..MaxAttempts /\ FALSE \in BOOLEAN
    BY AttemptsTyped
  <2>2. RefreshTypeOK
    BY <2>1, Zenon DEF RefreshInit, RefreshTypeOK, Stages
  <2>3. Waits /\ Placed /\ SingleFlight /\ Quiet
    BY DEF RefreshInit, Waits, Placed, SingleFlight, InflightFresh, Free,
           Quiet, Running
  <2> QED
    BY <2>2, <2>3 DEF Flight
<1>2. RefreshSpec => []TypeOK
  BY Implements, TypeCorrect, PTL
<1>3. Flight /\ TypeOK' /\ [RefreshNext]_allVars => Flight'
  BY FlightStep
<1> QED
  BY <1>1, <1>2, <1>3, PTL DEF RefreshSpec

(* The types of the coroutines' variables; a refresh makes at most          *)
(* MaxAttempts attempts (refresh_credential, _perform_refresh).            *)
THEOREM RefreshTypeCorrect == RefreshSpec => []RefreshTypeOK
<1>1. Flight => RefreshTypeOK
  BY DEF Flight
<1> QED
  BY <1>1, FlightAlways, PTL

(* Of the tasks on a credential all but the displaced ones are the one in  *)
(* flight, and an entry is gone once the coroutine that registered it has  *)
(* resumed (_inflight of CredentialRefreshManager).                        *)
THEOREM OneInFlight == RefreshSpec => []SingleFlight
<1>1. Flight => SingleFlight
  BY DEF Flight
<1> QED
  BY <1>1, FlightAlways, PTL

(* What outlives shutdown() was displaced from _inflight.                   *)
THEOREM DisplacedOnlyEscape == RefreshSpec => []OnlyDisplacedEscape
<1>1. Flight => OnlyDisplacedEscape
  <2> SUFFICES ASSUME Flight, stopped, NEW c \in Tasks, stage[c] \in Running,
                      c \notin displaced
               PROVE  FALSE
    BY DEF OnlyDisplacedEscape
  <2>1. target[c] \in Files
    BY DEF Flight, Placed, Running
  <2> QED
    BY <2>1, NoneIsNothing DEF Flight, SingleFlight, Quiet
<1> QED
  BY <1>1, FlightAlways, PTL

-----------------------------------------------------------------------------
(* A coroutine that runs or is queued has a snapshot of its credential,    *)
(* and one that asks for the accounts has a snapshot with the mark.        *)
Held(c) ==
    /\ stage[c] \in Running \union {"queued"} =>
          snap[c] # None /\ snap[c].file = target[c]
    /\ stage[c] = "accounts" => snap[c].token \in Pending

Holds == \A c \in Tasks : Held(c)

(* A coroutine that stays where it was, or comes to rest, keeps this.      *)
LEMMA OthersHeld ==
    ASSUME NEW d, Held(d), snap'[d] = snap[d], target'[d] = target[d],
           stage'[d] = stage[d]
             \/ stage'[d] \in Ended \union {"idle", "woken", "joined"}
    PROVE  Held(d)'
BY DEF Held, Running, Ended

(* The end of a coroutine, whatever becomes of its snapshot.               *)
LEMMA EndHolds ==
    ASSUME Flight, Holds, NEW c \in Tasks, NEW outcome \in Ended,
           End(c, outcome), \A d \in Tasks : d # c => snap'[d] = snap[d]
    PROVE  Holds'
<1> SUFFICES ASSUME NEW d \in Tasks PROVE Held(d)'
  BY DEF Holds
<1>1. /\ d # c => stage'[d] = stage[d]
      /\ target' = target
  BY DEF End, taskVars, Flight, RefreshTypeOK
<1>2. stage'[c] \in Ended \union {"idle"}
  BY DEF End, Flight, RefreshTypeOK
<1>3. CASE d = c
  BY <1>2, <1>3 DEF Held, Running, Ended
<1>4. CASE d # c
  BY <1>1, <1>4, OthersHeld DEF Holds
<1> QED
  BY <1>3, <1>4

(* A failure is an end.                                                    *)
LEMMA FailHolds ==
    ASSUME Flight, Holds, NEW c \in Tasks, Fail(c) PROVE Holds'
BY EndHolds DEF Fail, DropSnapshots, Ended

(* A write leaves the other coroutines their snapshots.                    *)
LEMMA WritesKeepOthers ==
    ASSUME TypeOK, NEW c \in Tasks, NEW tok,
           \/ ReplaceCredential(c, tok)
           \/ ReplaceFailsAfterRename(c, tok)
           \/ ReplaceRefused(c)
    PROVE  \A d \in Tasks : d # c => snap'[d] = snap[d]
BY DEF TypeOK, ReplaceCredential, ReplaceFailsAfterRename, ReplaceRefused

(* The last write of a coroutine is an end.                                *)
LEMMA FinalWriteHolds ==
    ASSUME TypeOK, Flight, Holds, NEW c \in Tasks, NEW tok,
           NEW quotaChanged, FinalWrite(c, tok, quotaChanged)
    PROVE  Holds'
BY WritesKeepOthers, EndHolds DEF FinalWrite, Ended

(* A coroutine that goes on with its snapshot.                             *)
LEMMA MoveHolds ==
    ASSUME Flight, Holds, NEW c \in Tasks, NEW place, UNCHANGED <<snap, target>>,
           stage' = [stage EXCEPT ![c] = place],
           stage[c] \in Running \union {"queued"},
           place = "accounts" => snap[c].token \in Pending
    PROVE  Holds'
<1> SUFFICES ASSUME NEW d \in Tasks PROVE Held(d)'
  BY DEF Holds
<1>1. stage'[d] = IF d = c THEN place ELSE stage[d]
  BY DEF Flight, RefreshTypeOK
<1> QED
  BY <1>1 DEF Holds, Held

(* A retry keeps its snapshot; giving up is an end.                        *)
LEMMA RetryHolds ==
    ASSUME Flight, Holds, NEW c \in Tasks, stage[c] \in Running, Retry(c)
    PROVE  Holds'
<1>1. CASE attempt[c] < MaxAttempts
  BY <1>1, MoveHolds DEF Retry, Move, vars
<1> QED
  BY <1>1, FailHolds DEF Retry

(* A coroutine begins with a new snapshot.                                 *)
LEMMA SnapshotHolds ==
    ASSUME TypeOK, Flight, Holds, NEW c \in Tasks, NEW f \in Files,
           NEW place \in {"queued", "switch", "probe"},
           TakeSnapshot(c, f),
           stage' = [stage EXCEPT ![c] = place],
           target' = [target EXCEPT ![c] = f]
    PROVE  Holds'
<1> SUFFICES ASSUME NEW d \in Tasks PROVE Held(d)'
  BY DEF Holds
<1> DEFINE taken == [file |-> f, token |-> data[f], gen |-> gen[f]]
<1>1. /\ stage'[d] = IF d = c THEN place ELSE stage[d]
      /\ target'[d] = IF d = c THEN f ELSE target[d]
      /\ snap'[d] = IF d = c THEN taken ELSE snap[d]
  BY DEF TakeSnapshot, TypeOK, Flight, RefreshTypeOK
<1>2. taken # None
  BY NoneIsNothing DEF TakeSnapshot, Listed, ListedIn, TypeOK, Snapshot
<1>3. taken.file = f
  OBVIOUS
<1> HIDE DEF taken
<1> QED
  BY <1>1, <1>2, <1>3 DEF Holds, Held

(* The steps of a suspended coroutine.                                     *)
LEMMA TaskStepHolds ==
    ASSUME TypeOK, Flight, Holds, NEW c \in Tasks, TaskStep(c)
    PROVE  Holds'
<1>1. CASE JoinJob(c)
  <2> SUFFICES ASSUME NEW d \in Tasks PROVE Held(d)'
    BY DEF Holds
  <2>1. CASE d = c
    BY <1>1, <2>1 DEF JoinJob, Move, Held, Running, Flight, RefreshTypeOK
  <2>2. CASE d # c
    <3>1. snap'[d] = snap[d] /\ target'[d] = target[d] /\ stage'[d] = stage[d]
      BY <1>1, <2>2 DEF JoinJob, Move, DropSnapshots, Flight, RefreshTypeOK
    <3> QED
      BY <3>1, OthersHeld DEF Holds
  <2> QED
    BY <2>1, <2>2
<1>2. CASE StartJob(c)
  BY <1>2, MoveHolds DEF StartJob, FirstCall, vars
<1>3. CASE NextAttempt(c)
  <2>1. stage[c] \in Running
    BY <1>3 DEF NextAttempt, Running
  <2> QED
    BY <1>3, <2>1, MoveHolds DEF NextAttempt, Move, FirstCall, vars
<1>4. CASE TokenRefused(c)
  BY <1>4, FailHolds, RetryHolds DEF TokenRefused, Running
<1>5. CASE TokenReturned(c)
  <2>1. PICK tok \in Pending : TokenStored(c, tok)
    BY <1>5 DEF TokenReturned
  <2>2. \A d \in Tasks : d # c => snap'[d] = snap[d]
    BY <2>1, WritesKeepOthers DEF TokenStored
  <2>3. CASE /\ ReplaceCredential(c, tok)
             /\ snap'[c] # None
             /\ Move(c, "accounts")
             /\ UNCHANGED target
    <3> SUFFICES ASSUME NEW d \in Tasks PROVE Held(d)'
      BY DEF Holds
    <3>1. stage'[d] = IF d = c THEN "accounts" ELSE stage[d]
      BY <2>3 DEF Move, Flight, RefreshTypeOK
    <3>2. CASE d # c
      BY <2>2, <2>3, <3>1, <3>2, OthersHeld DEF Holds
    <3>3. CASE d = c
      <4>1. snap'[c].token = tok /\ snap'[c].file = snap[c].file
        BY <2>3 DEF ReplaceCredential, TypeOK
      <4>2. snap[c].file = target[c]
        BY <2>1 DEF TokenStored, Holds, Held, Running
      <4> QED
        BY <2>3, <3>1, <3>3, <4>1, <4>2 DEF Held
    <3> QED
      BY <3>2, <3>3
  <2> QED
    BY <2>1, <2>2, <2>3, EndHolds DEF TokenStored, Ended
<1>6. CASE AccountsRefused(c)
  <2>1. stage[c] \in Running
    BY <1>6 DEF AccountsRefused, Running
  <2> QED
    BY <1>6, <2>1, FailHolds, RetryHolds, MoveHolds
       DEF AccountsRefused, Move, vars, taskVars
<1>7. CASE AccountsReturned(c)
  BY <1>7, FinalWriteHolds DEF AccountsReturned
<1>8. CASE Drop(c)
  <2> SUFFICES ASSUME NEW d \in Tasks PROVE Held(d)'
    BY DEF Holds
  <2>1. /\ stage'[d] = stage[d] \/ stage'[d] \in {"idle", "woken"}
        /\ UNCHANGED <<snap, target>>
    BY <1>8 DEF Drop, Wake, vars
  <2> QED
    BY <2>1, OthersHeld DEF Holds
<1>9. CASE SwitchEnds(c)
  BY <1>9, FailHolds, FinalWriteHolds DEF SwitchEnds
<1>10. CASE ModeUpdateEnds(c)
  BY <1>10, FailHolds, FinalWriteHolds DEF ModeUpdateEnds
<1> QED
  BY <1>1, <1>2, <1>3, <1>4, <1>5, <1>6, <1>7, <1>8, <1>9, <1>10 DEF TaskStep

(* Every step keeps all of it.                                             *)
LEMMA HoldsStep ==
    TypeOK /\ Flight /\ Holds /\ [RefreshNext]_allVars => Holds'
<1> SUFFICES ASSUME TypeOK, Flight, Holds, [RefreshNext]_allVars PROVE Holds'
  OBVIOUS
<1>1. ASSUME NEW f \in Files, Scan(f) PROVE Holds'
  BY <1>1, JobsTyped, SnapshotHolds DEF Scan, Move
<1>2. ASSUME NEW c \in Tasks, TaskStep(c) PROVE Holds'
  BY <1>2, TaskStepHolds
<1>3. ASSUME NEW c \in Switches, NEW f \in Files, WaitToSwitch(c, f)
      PROVE  Holds'
  <2> SUFFICES ASSUME NEW d \in Tasks PROVE Held(d)'
    BY DEF Holds
  <2>1. /\ stage'[d] = IF d = c THEN "waiting" ELSE stage[d]
        /\ target'[d] = IF d = c THEN f ELSE target[d]
        /\ snap' = snap
    BY <1>3 DEF WaitToSwitch, Move, vars, Flight, RefreshTypeOK
  <2> QED
    BY <2>1 DEF Holds, Held, Running
<1>4. ASSUME NEW c \in Switches, NEW f \in Files, StartSwitch(c, f)
      PROVE  Holds'
  BY <1>4, KindsTyped, SnapshotHolds DEF StartSwitch, BeginSwitch
<1>5. ASSUME NEW c \in ModeUpdates, NEW f \in Files, StartModeUpdate(c, f)
      PROVE  Holds'
  BY <1>5, KindsTyped, SnapshotHolds DEF StartModeUpdate, Move
<1>6. CASE Elsewhere
  <2>1. UNCHANGED <<stage, target>>
    BY <1>6 DEF Elsewhere, refreshVars, taskVars
  <2>2. snap' = snap
    BY <1>6 DEF Elsewhere, AddCredential, AddCredentialFails, DeleteCredential,
                SetCurrentCredential, SelectNextCredential, ToggleAutoRotation,
                EnableAutoRotation, DisableAutoRotation, UpdateSettings,
                Expire
  <2> QED
    BY <2>1, <2>2 DEF Holds, Held
<1>7. CASE Shutdown
  <2> DEFINE gone == {d \in Tasks : stage'[d] = "idle"}
  <2>1. UNCHANGED target
    BY <1>7 DEF Shutdown
  <2>2. \A d \in Tasks :
          \/ stage'[d] = "idle"
          \/ stage'[d] = stage[d] /\ snap'[d] = snap[d]
    BY <1>7, Zenon DEF Shutdown, DropSnapshots
  <2> QED
    BY <2>1, <2>2 DEF Holds, Held, Running
<1>8. CASE RestartAll
  BY <1>8 DEF RestartAll, Holds, Held, Running
<1>10. ASSUME NEW c \in Switches, ResumeSwitch(c) PROVE Holds'
  <2>1. c \in Tasks /\ target[c] \in Files
    BY <1>10, KindsTyped DEF ResumeSwitch, Flight, Placed
  <2>2. CASE Move(c, "idle") /\ UNCHANGED <<vars, target>>
    <3> SUFFICES ASSUME NEW d \in Tasks PROVE Held(d)'
      BY DEF Holds
    <3>1. /\ stage'[d] = IF d = c THEN "idle" ELSE stage[d]
          /\ snap' = snap
      BY <2>2 DEF Move, vars, Flight, RefreshTypeOK
    <3> QED
      BY <2>2, <3>1, OthersHeld DEF Holds
  <2> QED
    BY <1>10, <2>1, <2>2, SnapshotHolds DEF ResumeSwitch, BeginSwitch
<1>9. CASE UNCHANGED allVars
  BY <1>9 DEF allVars, vars, refreshVars, taskVars, Holds, Held
<1> QED
  BY <1>1, <1>2, <1>3, <1>4, <1>5, <1>6, <1>7, <1>8, <1>9, <1>10
     DEF RefreshNext

(* A crash between the two calls of a refresh finds the pending mark in    *)
(* the directory: the snapshot has it, and by the token manager's          *)
(* invariants an unchallenged snapshot is what the directory holds.        *)
THEOREM MarkSafe == RefreshSpec => []CrashKeepsMark
<1>1. RefreshInit => Holds
  BY DEF RefreshInit, Holds, Held, Running
<1>2. TypeOK /\ Flight /\ Holds /\ [RefreshNext]_allVars => Holds'
  BY HoldsStep
<1>3. TypeOK /\ NoLostUpdate /\ MemoryOnDisk /\ Flight /\ Holds
        => CrashKeepsMark
  <2> SUFFICES ASSUME TypeOK, NoLostUpdate, MemoryOnDisk, Flight, Holds,
                      NEW c \in Tasks, stage[c] = "accounts",
                      ~Conflict(snap[c]), target[c] \notin torn
               PROVE  disk[target[c]] \in Pending
    BY DEF CrashKeepsMark
  <2>1. /\ snap[c] # None /\ snap[c].file = target[c]
        /\ snap[c].token \in Pending
    BY DEF Holds, Held, Running
  <2>2. target[c] \in Listed
    BY <2>1 DEF Conflict
  <2>3. data[target[c]] = snap[c].token
    BY <2>1 DEF NoLostUpdate
  <2>4. target[c] \in Files /\ data[target[c]] # Absent
    BY <2>2, ContentsDistinct DEF Listed, ListedIn
  <2> QED
    BY <2>1, <2>3, <2>4 DEF MemoryOnDisk
<1>4. RefreshSpec => [](TypeOK /\ NoLostUpdate /\ MemoryOnDisk)
  BY Implements, TypeCorrect, ReplaceSafe, MemorySafe, PTL
<1> QED
  BY <1>1, <1>2, <1>3, <1>4, FlightAlways, PTL DEF RefreshSpec
=============================================================================
