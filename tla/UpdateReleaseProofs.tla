------------------------- MODULE UpdateReleaseProofs -------------------------
(***************************************************************************)
(* Proofs about update_release.py.  The inductive invariant says what every *)
(* copy of the installation (the project, latest, previous, source, the    *)
(* pending copies) is at every moment: if it passes the checks of          *)
(* _ensure_safe_installation and its data is there, it is whole.  That     *)
(* rests on the order of the writes.  _deploy_release replaces the         *)
(* frontend first and puts web.py back after the manifest and the lock, so *)
(* that no half of it passes; _restore_snapshot puts web.py back last.     *)
(***************************************************************************)
EXTENDS UpdateRelease, SequenceTheorems, TLAPS

(* What SafeInstallation looks at.                                         *)
Safe(c) == /\ \A p \in Managed : c[p] # Broken
           /\ c.manifest = c.web /\ c.manifest = c["frontend"]

(* A copy that could be taken for a release is one.                       *)
Sound(c) == Safe(c) /\ c.data # Broken => Whole(c)
Good(c) == c.lock # Broken /\ Sound(c)

GoodOrNone(c) == c = None \/ Good(c)

AllGood ==
    /\ Good(project)
    /\ GoodOrNone(backups.latest)
    /\ GoodOrNone(backups.previous)
    /\ GoodOrNone(backups.source)
    /\ \A c \in backups.pending : Good(c)
    /\ updater # None => Good(updater.start) /\ GoodOrNone(updater.latest)

(* c is the installation u.start after u.done steps of _deploy_release.    *)
DeployedTo(u, c) ==
    LET k == u.done
        from == u.start
        v == u.version
    IN /\ u.remove = {} /\ k <= Swaps + 7
       /\ \A j \in DOMAIN Directories : c[Directories[j]] =
             IF k >= 2 * j THEN v ELSE IF k = 2 * j - 1 THEN Broken ELSE from[Directories[j]]
       /\ c.manifest = IF k <= Swaps THEN from.manifest ELSE IF k <= Swaps + 2 THEN Broken ELSE v
       /\ c.web = IF k <= Swaps + 1 THEN from.web ELSE IF k <= Swaps + 4 THEN Broken ELSE v
       /\ c.lock = IF k <= Swaps + 3 THEN from.lock ELSE v
       /\ c.data = from.data
       /\ k = Swaps + 7 => c.venv = v

(* c is being made the copy u.from; without web.py until the last step.    *)
RestoredTo(u, c) ==
    /\ u.remove \subseteq Removed
    /\ u.done <= Len(ByName)
    /\ u.remove # {} => u.done = 0
    /\ \A i \in 1..u.done : c[ByName[i]] = u.from[ByName[i]]
    /\ u.done < Len(ByName) => "web" \in u.remove \/ c.web = Broken

(* What an update at each of its places knows of the project and backups.  *)
OfUpdate(u) ==
    /\ u.at \in {"backup", "drop", "retire", "promote", "clean", "deploy", "restore"} \union Ends
    /\ u.version \in 1..MaxVersion
    /\ Safe(u.start) /\ u.start.manifest < u.version
    /\ misled \/ u.start.data # Broken
    /\ u.at \in {"backup", "drop", "retire", "promote", "clean", "failed"} => project = u.start
    /\ u.at \in {"backup", "drop", "retire"} => backups.latest = u.latest
    /\ u.at = "retire" => backups.previous = None
    /\ u.at = "promote" => backups.latest = None /\ backups.previous = u.latest
    /\ u.at \in {"clean", "deploy", "restore", "succeeded", "stuck"} => backups.latest = u.start
    /\ u.at \in Waiting \union {"promote"} => u.done = 0 /\ u.remove = {}
    /\ u.at = "deploy" => DeployedTo(u, project)
    /\ u.at = "restore" => u.from = u.start /\ RestoredTo(u, project)
    /\ u.at = "succeeded" => /\ OfVersion(project, u.version)
                             /\ project["venv"] = u.version /\ project.data = u.start.data
    /\ u.at = "failed" => \/ backups.latest \in {u.latest, u.start}
                          \/ backups.previous = u.latest

(* The same of a rollback.                                                 *)
OfRollback(u) ==
    /\ u.at \in {"backup", "clean", "rotate", "promote", "sweep", "restore", "undo"} \union Ends
    /\ u.latest # None
    /\ misled \/ Whole(u.latest)
    /\ u.at \in {"backup", "clean", "failed"} => project = u.start
    /\ u.at \in {"rotate", "promote", "sweep", "succeeded"} => project = u.latest
    /\ u.at \in {"backup", "clean", "restore", "undo", "rotate", "failed"} =>
          backups.latest = u.latest
    /\ u.at = "promote" => backups.latest = None /\ backups.source = u.latest
    /\ u.at \in {"sweep", "succeeded"} => backups.latest = u.start
    /\ u.at = "stuck" => u.latest \in {backups.latest, backups.source}
    /\ u.at \in {"clean", "restore", "undo", "rotate", "promote", "stuck"} =>
          u.start \in backups.pending
    /\ u.at = "restore" => u.from = u.latest /\ RestoredTo(u, project)
    /\ u.at = "undo" => u.from = u.start /\ RestoredTo(u, project)

UpdaterInv == updater # None =>
    /\ cut \/ misled \/ Whole(updater.start)
    /\ updater.kind = "update" => OfUpdate(updater)
    /\ updater.kind = "rollback" => OfRollback(updater)

IInv ==
    /\ TypeOK
    /\ service => updater = None
    /\ AllGood
    /\ updater = None => OneWhole /\ (cut \/ misled \/ Whole(project))
    /\ UpdaterInv

-----------------------------------------------------------------------------
(* The order of _restore_snapshot: every part once in its place, web.py    *)
(* last.                                                                   *)
LEMMA ByNameFacts ==
    /\ Len(ByName) \in Nat \ {0} /\ DOMAIN ByName = 1..Len(ByName)
    /\ ByName[Len(ByName)] = "web"
    /\ \A i \in 1..Len(ByName) : ByName[i] \in Parts /\ (ByName[i] = "web" => i = Len(ByName))
    /\ \A p \in Parts : \E i \in 1..Len(ByName) : ByName[i] = p
<1> DEFINE D == Directories
           T == Tail(Directories)
           A == <<"manifest", "data", "frontend", "lock">>
           Z == <<"venv", "web">>
           N == {"frontend", "scripts", "src", "manifest", "data", "lock", "venv", "web"}
<1>1. D \in Seq({"frontend", "scripts", "src"}) /\ Len(D) \in Nat \ {0} /\ D[1] = "frontend"
  BY DirectoriesAssumption
<1>2. /\ T \in Seq({"frontend", "scripts", "src"}) /\ Len(T) = Len(D) - 1
      /\ \A i \in 1..Len(T) : T[i] = D[i + 1]
  BY <1>1
<1>3. A \in Seq(N) /\ Len(A) = 4 /\ Z \in Seq(N) /\ Len(Z) = 2 /\ T \in Seq(N)
  BY <1>2
<1>4. /\ A \o T \in Seq(N) /\ Len(A \o T) = Len(T) + 4
      /\ \A i \in 1..4 : (A \o T)[i] = A[i]
      /\ \A i \in 1..Len(T) : (A \o T)[i + 4] = T[i]
  <2> HIDE DEF T, A
  <2>1. /\ A \o T \in Seq(N) /\ Len(A \o T) = Len(A) + Len(T)
        /\ \A i \in 1..(Len(A) + Len(T)) :
              (A \o T)[i] = IF i <= Len(A) THEN A[i] ELSE T[i - Len(A)]
    BY <1>3, ConcatProperties
  <2>2. Len(T) \in Nat
    BY <1>3
  <2>3. ASSUME NEW i \in 1..Len(T) PROVE (A \o T)[i + 4] = T[i]
    <3>1. i + 4 \in 1..(4 + Len(T)) /\ ~(i + 4 <= 4) /\ (i + 4) - 4 = i
      BY <2>2
    <3> QED BY <3>1, <2>1, <1>3
  <2> QED BY <2>1, <2>2, <2>3, <1>3
<1>5. /\ ByName \in Seq(N) /\ Len(ByName) = Len(D) + 5
      /\ \A i \in 1..(Len(T) + 4) : ByName[i] = (A \o T)[i]
      /\ ByName[Len(T) + 5] = "venv" /\ ByName[Len(T) + 6] = "web"
  <2> DEFINE AT == A \o T
  <2> HIDE DEF AT
  <2>1. ByName = AT \o Z
    BY DEF ByName, AT
  <2>2. AT \in Seq(N) /\ Len(AT) = Len(T) + 4
    BY <1>4 DEF AT
  <2> QED BY <2>1, <2>2, <1>2, <1>1, <1>3 DEF AT
<1>6. /\ ByName[1] = "manifest" /\ ByName[2] = "data" /\ ByName[3] = "frontend"
      /\ ByName[4] = "lock"
      /\ \A j \in 2..Len(D) : ByName[j + 3] = D[j]
  <2>1. \A i \in 1..4 : ByName[i] = A[i]
    <3> HIDE DEF A, T
    <3> QED BY <1>1, <1>2, <1>4, <1>5
  <2>2. ASSUME NEW j \in 2..Len(D) PROVE ByName[j + 3] = D[j]
    <3> HIDE DEF A, T
    <3>1. j - 1 \in 1..Len(T) /\ (j - 1) + 4 = j + 3 /\ (j - 1) + 1 = j
      BY <1>1, <1>2
    <3>2. T[j - 1] = D[j]
      BY <3>1, <1>2
    <3>3. (A \o T)[j + 3] = T[j - 1]
      BY <3>1, <1>4
    <3>4. j + 3 \in 1..(Len(T) + 4)
      BY <3>1, <1>2, <1>1
    <3> QED BY <3>2, <3>3, <3>4, <1>5
  <2> QED BY <2>1, <2>2
<1>7. \A i \in DOMAIN D : D[i] \in {"frontend", "scripts", "src"}
  BY <1>1
<1>8. ASSUME NEW i \in 1..Len(ByName)
      PROVE  ByName[i] \in Parts /\ (ByName[i] = "web" => i = Len(ByName))
  <2> HIDE DEF T, A, Z
  <2>1. CASE i \in 1..4
    BY <2>1, <1>6, <1>1 DEF Parts, Managed, Range
  <2>2. CASE i \in 5..(Len(D) + 3)
    <3>1. i - 3 \in 2..Len(D) /\ i - 3 \in DOMAIN D /\ (i - 3) + 3 = i
      BY <2>2, <1>1
    <3>2. ByName[i] = D[i - 3]
      BY <3>1, <1>6
    <3> QED BY <3>1, <3>2, <1>7 DEF Parts, Managed, Range
  <2>3. CASE i \in {Len(D) + 4, Len(D) + 5}
    <3>1. Len(T) + 5 = Len(D) + 4 /\ Len(T) + 6 = Len(D) + 5
      BY <1>1, <1>2
    <3> QED BY <2>3, <3>1, <1>5 DEF Parts, Managed
  <2> QED BY <2>1, <2>2, <2>3, <1>1, <1>5
<1>9. ASSUME NEW p \in Parts PROVE \E i \in 1..Len(ByName) : ByName[i] = p
  <2> HIDE DEF T, A, Z
  <2>1. ASSUME NEW j \in DOMAIN D, p = D[j] PROVE \E i \in 1..Len(ByName) : ByName[i] = p
    <3>1. CASE j = 1
      BY <2>1, <3>1, <1>1, <1>5, <1>6
    <3>2. CASE j # 1
      <4>1. j \in 2..Len(D) /\ j + 3 \in 1..Len(ByName)
        BY <3>2, <1>1, <1>5
      <4> QED BY <4>1, <2>1, <1>6
    <3> QED BY <3>1, <3>2
  <2>2. ASSUME p \in {"manifest", "data", "lock"} PROVE \E i \in 1..Len(ByName) : ByName[i] = p
    <3>1. 1 \in 1..Len(ByName) /\ 2 \in 1..Len(ByName) /\ 4 \in 1..Len(ByName)
      BY <1>1, <1>5
    <3> QED BY <3>1, <2>2, <1>6
  <2>3. ASSUME p \in {"venv", "web"} PROVE \E i \in 1..Len(ByName) : ByName[i] = p
    <3>1. Len(T) + 5 \in 1..Len(ByName) /\ Len(T) + 6 \in 1..Len(ByName)
      BY <1>1, <1>2, <1>5
    <3> QED BY <3>1, <2>3, <1>5
  <2> QED BY <2>1, <2>2, <2>3 DEF Parts, Managed, Range
<1>10. /\ Len(ByName) \in Nat \ {0} /\ DOMAIN ByName = 1..Len(ByName)
       /\ Len(ByName) = Len(T) + 6
  <2> HIDE DEF T, A, Z
  <2> QED BY <1>1, <1>2, <1>5
<1> QED
  <2> HIDE DEF T, A, Z
  <2> QED BY <1>5, <1>8, <1>9, <1>10

-----------------------------------------------------------------------------
(* REPLACE_DIRECTORIES: the frontend is the first of them, none is named   *)
(* twice.                                                                  *)
LEMMA DirectoryFacts ==
    /\ Len(Directories) \in Nat \ {0} /\ DOMAIN Directories = 1..Len(Directories)
    /\ Directories[1] = "frontend"
    /\ \A j \in DOMAIN Directories : Directories[j] \in {"frontend", "scripts", "src"}
    /\ \A i, j \in DOMAIN Directories : Directories[i] = Directories[j] => i = j
    /\ Swaps = 2 * Len(Directories)
BY DirectoriesAssumption DEF Swaps

(* The managed parts are the directories, the manifest, the lock module    *)
(* and web.py; the data and the environment are the others.                *)
LEMMA PartFacts ==
    /\ {"frontend", "manifest", "web", "lock"} \subseteq Managed
    /\ Managed \subseteq Parts
    /\ "data" \in Parts \ Managed /\ "venv" \in Parts \ Managed
    /\ \A p \in Managed : p \in {"manifest", "lock", "web"}
                           \/ \E j \in DOMAIN Directories : p = Directories[j]
    /\ \A j \in DOMAIN Directories : Directories[j] \in Managed
    /\ \A p \in Parts : p \in Managed \/ p \in {"data", "venv"}
<1>1. 1 \in DOMAIN Directories
  BY DirectoryFacts
<1> QED BY <1>1, DirectoryFacts DEF Managed, Parts, Range

Values == 0..IF MaxVersion < MaxData THEN MaxData ELSE MaxVersion

(* Every version is a value that a part can have.                          *)
LEMMA ValueFacts ==
    Copies = [Parts -> Values] /\ 0..MaxVersion \subseteq Values /\ Values \subseteq Nat
BY UpdateAssumption DEF Copies, Values

(* Neither a copy nor an updater is None.                                  *)
LEMMA NoneFacts ==
    /\ \A c \in Copies : c # None
    /\ \A u \in Updaters : u # None
BY NoneIsNothing

(* A good copy less one of its parts is as good. *)
LEMMA RemovingKeepsGood ==
    ASSUME NEW c \in Copies, NEW p \in Parts, p # "lock", Good(c)
    PROVE  [c EXCEPT ![p] = Broken] \in Copies /\ Good([c EXCEPT ![p] = Broken])
<1> DEFINE d == [c EXCEPT ![p] = Broken]
<1>1. d \in Copies /\ d[p] = Broken /\ \A q \in Parts \ {p} : d[q] = c[q]
  BY ValueFacts, UpdateAssumption DEF Broken
<1>2. d.lock # Broken
  BY <1>1, PartFacts DEF Good
<1>3. CASE p \in Managed
  BY <1>1, <1>2, <1>3 DEF Good, Sound, Safe
<1>4. CASE p = "data"
  BY <1>1, <1>2, <1>4 DEF Good, Sound
<1>5. CASE p = "venv"
  <2>1. "data" \in Parts \ {p} /\ Managed \subseteq Parts \ {p}
    BY <1>5, PartFacts
  <2>2. Safe(d) <=> Safe(c)
    BY <2>1, <1>1, PartFacts DEF Safe
  <2>3. Whole(d) <=> Whole(c)
    BY <2>1, <1>1 DEF Whole, OfVersion
  <2>4. d.data = c.data
    BY <2>1, <1>1
  <2>5. Good(d)
    <3> HIDE DEF d
    <3> QED BY <1>2, <2>2, <2>3, <2>4 DEF Good, Sound
  <2> QED BY <1>1, <2>5
<1> QED BY <1>3, <1>4, <1>5, PartFacts

(* A copy that agrees on all but the environment is as good. *)
LEMMA SameIsAsGood ==
    ASSUME NEW c, NEW d, Good(c), d.data = c.data, \A p \in Managed : d[p] = c[p]
    PROVE  Good(d) /\ (Safe(c) => Safe(d)) /\ (Whole(c) => Whole(d))
<1>1. d.lock = c.lock /\ (Safe(d) <=> Safe(c))
  BY PartFacts DEF Safe
<1>2. Whole(d) <=> Whole(c)
  BY DEF Whole, OfVersion
<1> QED BY <1>1, <1>2 DEF Good, Sound

-----------------------------------------------------------------------------
(* Within _deploy_release the project is good after every step, for it     *)
(* never passes the safety checks, and of the new version after the last.  *)
LEMMA DeployGood ==
    ASSUME NEW u \in Updaters, NEW c \in Copies, DeployedTo(u, c),
           Good(u.start), Safe(u.start),
           u.version \in 1..MaxVersion, u.start.manifest < u.version
    PROVE  /\ Good(c)
           /\ u.done = Swaps + 7 =>
                 OfVersion(c, u.version) /\ c["venv"] = u.version /\ c.data = u.start.data
<1> DEFINE k == u.done
<1>1. k \in Nat /\ u.start \in Copies
  BY DEF Updaters
<1>2. CASE k = 0
  <2>1. \A p \in Managed : c[p] = u.start[p]
    <3>1. \A j \in DOMAIN Directories : c[Directories[j]] = u.start[Directories[j]]
      BY <1>2, DirectoryFacts DEF DeployedTo
    <3>2. c.manifest = u.start.manifest /\ c.web = u.start.web /\ c.lock = u.start.lock
      BY <1>2, DirectoryFacts DEF DeployedTo
    <3> QED BY <3>1, <3>2, PartFacts
  <2>2. c.data = u.start.data
    BY DEF DeployedTo
  <2>3. Good(c)
    BY <2>1, <2>2, SameIsAsGood
  <2> QED BY <2>3, <1>2, DirectoryFacts
<1>3. CASE k \in 1..(Swaps + 4)
  <2>1. c.lock # Broken
    BY <1>3, DirectoryFacts DEF DeployedTo, Good, Broken
  <2>2. ~Safe(c)
    <3>1. 1 \in DOMAIN Directories /\ c["frontend"] = IF k >= 2 THEN u.version ELSE Broken
      BY <1>3, DirectoryFacts DEF DeployedTo
    <3>2. CASE k = 1
      BY <3>1, <3>2, PartFacts DEF Safe
    <3>3. CASE k \in 2..Swaps
      BY <3>1, <3>3, <1>1, DirectoryFacts DEF DeployedTo, Safe
    <3>4. CASE k \in (Swaps + 1)..(Swaps + 4)
      BY <3>4, <1>1, DirectoryFacts, PartFacts DEF DeployedTo, Safe, Broken
    <3> QED BY <3>2, <3>3, <3>4, <1>3, DirectoryFacts
  <2> QED BY <2>1, <2>2, <1>3, DirectoryFacts DEF Good, Sound
<1>4. CASE k \in (Swaps + 5)..(Swaps + 7)
  <2>1. c.manifest = u.version /\ c.web = u.version /\ c.lock = u.version
    BY <1>4, DirectoryFacts DEF DeployedTo
  <2>2. \A j \in DOMAIN Directories : c[Directories[j]] = u.version
    <3> TAKE j \in DOMAIN Directories
    <3>1. j \in Nat /\ 2 * j <= Swaps
      BY DirectoryFacts
    <3> QED BY <3>1, <1>4, DirectoryFacts DEF DeployedTo
  <2>3. OfVersion(c, u.version)
    BY <2>1, <2>2, PartFacts DEF OfVersion
  <2>4. Good(c)
    BY <2>1, <2>3, UpdateAssumption DEF Good, Sound, Whole, Broken
  <2>5. c.data = u.start.data /\ (k = Swaps + 7 => c["venv"] = u.version)
    BY DirectoryFacts DEF DeployedTo
  <2> QED BY <2>3, <2>4, <2>5
<1>5. k <= Swaps + 7
  BY DEF DeployedTo
<1> QED BY <1>1, <1>2, <1>3, <1>4, <1>5, DirectoryFacts

(* One step of _deploy_release, whichever directory or file it writes.     *)
LEMMA DeployPut ==
    ASSUME NEW u \in Updaters, NEW c \in Copies, DeployedTo(u, c),
           u.at = "deploy", u.done < Steps(u), u.version \in 1..MaxVersion,
           NEW w \in Updaters, w.done = u.done + 1, w.remove = u.remove,
           w.start = u.start, w.version = u.version
    PROVE  LET step == StepOf(u)
               d == [c EXCEPT ![step.part] = step.to]
           IN d \in Copies /\ DeployedTo(w, d)
<1> DEFINE k == w.done
           v == u.version
           step == StepOf(u)
           d == [c EXCEPT ![step.part] = step.to]
<1>1. /\ u.done \in Nat /\ k = u.done + 1 /\ k \in 1..(Swaps + 7)
      /\ step = DeployStep(v, k) /\ Swaps \in Nat /\ v \in Values /\ Broken \in Values
  BY DirectoryFacts, ValueFacts, UpdateAssumption DEF Updaters, Steps, StepOf, Values, Broken
<1>2. ASSUME NEW p \in Parts, NEW x \in Values, step = Set(p, x)
      PROVE  d \in Copies /\ d[p] = x /\ \A q \in Parts \ {p} : d[q] = c[q]
  BY <1>2, ValueFacts DEF Set
<1> HIDE DEF d, step, k
<1>3. CASE k <= Swaps
  <2> DEFINE j == (k + 1) \div 2
             x == IF k % 2 = 1 THEN Broken ELSE v
  <2>1. /\ j \in DOMAIN Directories /\ j \in Nat
        /\ (k = 2 * j - 1 /\ x = Broken) \/ (k = 2 * j /\ x = v)
    <3>1. k \in Nat /\ 1 <= k /\ k <= 2 * Len(Directories) /\ Len(Directories) \in Nat
      BY <1>1, <1>3, DirectoryFacts
    <3>2. j \in 1..Len(Directories) /\ ((k % 2 = 1 /\ k = 2 * j - 1) \/ (k % 2 # 1 /\ k = 2 * j))
      BY <3>1
    <3> HIDE DEF j
    <3> QED BY <3>2, DirectoryFacts
  <2>2. Directories[j] \in Parts /\ step = Set(Directories[j], x)
    BY <1>1, <1>3, <2>1, PartFacts DEF DeployStep
  <2> HIDE DEF j, x
  <2>3. /\ d \in Copies /\ d[Directories[j]] = x
        /\ \A q \in Parts \ {Directories[j]} : d[q] = c[q]
    BY <1>1, <1>2, <2>1, <2>2
  <2>4. ASSUME NEW i \in DOMAIN Directories
        PROVE  d[Directories[i]] = IF k >= 2 * i THEN v ELSE IF k = 2 * i - 1 THEN Broken
                                   ELSE u.start[Directories[i]]
    <3>1. CASE i = j
      BY <3>1, <2>1, <2>3
    <3>2. CASE i # j
      <4>1. Directories[i] # Directories[j] /\ Directories[i] \in Parts
        BY <3>2, <2>1, DirectoryFacts, PartFacts
      <4>2. d[Directories[i]] = c[Directories[i]]
        BY <4>1, <2>3
      <4>3. i \in Nat /\ (k >= 2 * i <=> u.done >= 2 * i) /\ (k = 2 * i - 1 <=> u.done = 2 * i - 1)
        <5>1. i \in Nat /\ j \in Nat /\ (k = 2 * j - 1 \/ k = 2 * j) /\ i # j /\ u.done \in Nat
              /\ k = u.done + 1
          BY <3>2, <2>1, <1>1, DirectoryFacts
        <5> QED BY <5>1
      <4> QED BY <4>2, <4>3 DEF DeployedTo
    <3> QED BY <3>1, <3>2
  <2>5. /\ d.manifest = c.manifest /\ d.web = c.web /\ d.lock = c.lock
        /\ d.data = c.data
    <3>1. {"manifest", "web", "lock", "data"} \subseteq Parts \ {Directories[j]}
      BY <2>1, DirectoryFacts, PartFacts
    <3> QED BY <3>1, <2>3
  <2> QED BY <2>3, <2>4, <2>5, <1>1, <1>3 DEF DeployedTo, d, step, k
<1>4. CASE k > Swaps
  <2> DEFINE p == <<"manifest", "web", "manifest", "lock", "web", "venv", "venv">>[k - Swaps]
             x == <<Broken, Broken, v, v, v, Broken, v>>[k - Swaps]
  <2>1. k - Swaps \in {1, 2, 3, 4, 5, 6, 7}
    BY <1>1, <1>4
  <2>2. step = Set(p, x) /\ p \in Parts /\ x \in Values
    BY <1>1, <1>4, <2>1, PartFacts DEF DeployStep
  <2>3. d \in Copies /\ d[p] = x /\ \A q \in Parts \ {p} : d[q] = c[q]
    <3> HIDE DEF p, x
    <3> QED BY <2>2, <1>2
  <2>4. p \in {"manifest", "web", "lock", "venv"}
    BY <2>1
  <2>5. ASSUME NEW i \in DOMAIN Directories
        PROVE  d[Directories[i]] = IF k >= 2 * i THEN v ELSE IF k = 2 * i - 1 THEN Broken
                                   ELSE u.start[Directories[i]]
    <3> HIDE DEF p, x
    <3>1. Directories[i] \in Parts \ {p} /\ i \in Nat /\ 2 * i <= Swaps
      BY <2>4, DirectoryFacts, PartFacts
    <3>2. d[Directories[i]] = v
      BY <3>1, <2>3, <1>1, <1>4 DEF DeployedTo
    <3> QED BY <3>1, <3>2, <1>1, <1>4
  <2>6. /\ {"manifest", "web", "lock", "data", "venv"} \subseteq Parts
        /\ d.data = c.data
    <3> HIDE DEF p, x
    <3> QED BY <2>3, <2>4, PartFacts
  <2>7. /\ d.manifest = IF k <= Swaps THEN u.start.manifest ELSE IF k <= Swaps + 2 THEN Broken ELSE v
        /\ d.web = IF k <= Swaps + 1 THEN u.start.web ELSE IF k <= Swaps + 4 THEN Broken ELSE v
        /\ d.lock = IF k <= Swaps + 3 THEN u.start.lock ELSE v
        /\ k = Swaps + 7 => d["venv"] = v
    <3>1. CASE k = Swaps + 1
      BY <3>1, <2>3, <2>6, <1>1 DEF DeployedTo
    <3>2. CASE k = Swaps + 2
      BY <3>2, <2>3, <2>6, <1>1 DEF DeployedTo
    <3>3. CASE k = Swaps + 3
      BY <3>3, <2>3, <2>6, <1>1 DEF DeployedTo
    <3>4. CASE k = Swaps + 4
      BY <3>4, <2>3, <2>6, <1>1 DEF DeployedTo
    <3>5. CASE k = Swaps + 5
      BY <3>5, <2>3, <2>6, <1>1 DEF DeployedTo
    <3>6. CASE k = Swaps + 6
      BY <3>6, <2>3, <2>6, <1>1 DEF DeployedTo
    <3>7. CASE k = Swaps + 7
      BY <3>7, <2>3, <2>6, <1>1 DEF DeployedTo
    <3> QED BY <3>1, <3>2, <3>3, <3>4, <3>5, <3>6, <3>7, <2>1, <1>1
  <2> QED BY <2>3, <2>5, <2>6, <2>7, <1>1, <1>4 DEF DeployedTo, d, step, k
<1> QED BY <1>1, <1>3, <1>4 DEF k

-----------------------------------------------------------------------------
(* _restore_snapshot starts: everything but the lock module is to be       *)
(* removed.                                                                *)
LEMMA RestoreBegins ==
    ASSUME NEW u \in Updaters, NEW at \in {"restore", "undo"}, NEW copy \in Copies
    PROVE  LET w == Restoring(u, at, copy)
           IN /\ w \in Updaters
              /\ w.at = at /\ w.from = copy /\ w.done = 0 /\ w.remove = Removed
              /\ w.kind = u.kind /\ w.version = u.version
              /\ w.start = u.start /\ w.latest = u.latest
              /\ \A c : RestoredTo(w, c)
<1> DEFINE w == Restoring(u, at, copy)
<1>1. w \in [kind : {u.kind}, version : {u.version}, at : {at}, remove : {Removed},
              from : {copy}, done : {0}, start : {u.start}, latest : {u.latest}]
  BY DEF Restoring, Updaters
<1>2. Removed \in SUBSET Parts /\ at \in Writes /\ "web" \in Removed
  BY PartFacts DEF Removed, Writes
<1>3. w \in Updaters
  BY <1>1, <1>2 DEF Updaters
<1> HIDE DEF w
<1>4. \A c : RestoredTo(w, c)
  <2>1. w.done = 0 /\ w.remove = Removed
    BY <1>1
  <2>2. Len(ByName) \in Nat
    BY ByNameFacts
  <2> QED BY <2>1, <2>2, <1>2 DEF RestoredTo
<1> QED BY <1>1, <1>3, <1>4 DEF w

(* Removing one of the parts that are to be removed is a step of the       *)
(* restoration.                                                            *)
LEMMA RestoreRemoves ==
    ASSUME NEW u \in Updaters, NEW c \in Copies, RestoredTo(u, c), NEW p \in u.remove,
           NEW w \in Updaters, w.done = u.done, w.remove = u.remove \ {p}, w.from = u.from
    PROVE  RestoredTo(w, [c EXCEPT ![p] = Broken])
<1>1. p \in Parts /\ u.done = 0 /\ u.remove \subseteq Removed
  BY DEF RestoredTo, Updaters
<1>2. p = "web" => [c EXCEPT ![p] = Broken]["web"] = Broken
  BY <1>1, ValueFacts
<1>3. p # "web" => [c EXCEPT ![p] = Broken]["web"] = c["web"]
  BY <1>1, ValueFacts, PartFacts
<1> QED BY <1>1, <1>2, <1>3 DEF RestoredTo

(* When every name has been written the project is the copy.               *)
LEMMA RestoreEnds ==
    ASSUME NEW u \in Updaters, NEW c \in Copies, RestoredTo(u, c), u.done = Len(ByName)
    PROVE  c = u.from
<1>1. u.from \in Copies
  BY DEF Updaters
<1>2. ASSUME NEW p \in Parts PROVE c[p] = u.from[p]
  <2>1. PICK i \in 1..Len(ByName) : ByName[i] = p
    BY ByNameFacts
  <2>2. \A n \in 1..u.done : c[ByName[n]] = u.from[ByName[n]]
    BY DEF RestoredTo
  <2> QED BY <2>1, <2>2
<1> QED BY <1>1, <1>2, ValueFacts

(* Writing the next name is a step of the restoration, and leaves the      *)
(* project good: without web.py, or with the last part of a good copy.     *)
LEMMA RestorePut ==
    ASSUME NEW u \in Updaters, NEW c \in Copies, RestoredTo(u, c), u.at # "deploy",
           u.remove = {}, u.done < Steps(u), Good(u.from), Good(c),
           NEW w \in Updaters, w.done = u.done + 1, w.remove = u.remove, w.from = u.from
    PROVE  LET step == StepOf(u)
               d == [c EXCEPT ![step.part] = step.to]
           IN d \in Copies /\ RestoredTo(w, d) /\ Good(d)
<1> DEFINE k == w.done
           q == ByName[k]
           d == [c EXCEPT ![StepOf(u).part] = StepOf(u).to]
<1>1. /\ k \in 1..Len(ByName) /\ k \in Nat /\ k <= Len(ByName) /\ Len(ByName) \in Nat
      /\ q \in Parts /\ u.from \in Copies /\ u.done = k - 1 /\ u.done \in Nat /\ w.done = k
  <2>1. u.done \in Nat /\ u.from \in Copies
    BY DEF Updaters
  <2>2. Len(ByName) \in Nat /\ u.done < Len(ByName)
    BY ByNameFacts DEF Steps
  <2>3. /\ k \in 1..Len(ByName) /\ u.done = k - 1
        /\ k \in Nat /\ k <= Len(ByName) /\ w.done = k
    BY <2>1, <2>2
  <2> HIDE DEF k
  <2> QED BY <2>1, <2>2, <2>3, ByNameFacts
<1>2. StepOf(u).part = q /\ StepOf(u).to = u.from[q]
  BY DEF StepOf, RestoreStep, Set
<1>3. d \in Copies /\ d[q] = u.from[q] /\ \A p \in Parts \ {q} : d[p] = c[p]
  BY <1>1, <1>2, ValueFacts
<1> HIDE DEF d, k
<1>4. c.web = Broken
  BY <1>1 DEF RestoredTo
<1>5. RestoredTo(w, d)
  <2>1. \A i \in 1..k : d[ByName[i]] = u.from[ByName[i]]
    <3> TAKE i \in 1..k
    <3>1. CASE ByName[i] = q
      BY <3>1, <1>3
    <3>2. CASE ByName[i] # q
      <4>1. i \in 1..u.done /\ ByName[i] \in Parts
        <5>1. i # k /\ k \in Nat /\ i \in 1..Len(ByName)
          BY <3>2, <1>1
        <5>2. i \in 1..u.done
          BY <5>1, <1>1
        <5> QED BY <5>1, <5>2, ByNameFacts
      <4> QED BY <4>1, <3>2, <1>3 DEF RestoredTo
    <3> QED BY <3>1, <3>2
  <2>2. k < Len(ByName) => d.web = Broken
    <3>1. k < Len(ByName) => q # "web"
      <4>1. q = "web" => k = Len(ByName)
        BY <1>1, ByNameFacts
      <4> HIDE DEF q
      <4> QED BY <4>1, <1>1
    <3> QED BY <3>1, <1>3, <1>4, PartFacts
  <2>3. k <= Len(ByName)
    BY <1>1
  <2>4. w.remove = {}
    OBVIOUS
  <2> QED
    <3> HIDE DEF q
    <3> QED BY <2>1, <2>2, <2>3, <2>4, <1>1 DEF RestoredTo
<1>6. Good(d)
  <2>1. CASE k = Len(ByName)
    <3>1. w.done = Len(ByName)
      BY <2>1, <1>1
    <3> QED BY <3>1, <1>3, <1>5, RestoreEnds
  <2>2. CASE k # Len(ByName)
    <3>1. d.web = Broken
      BY <2>2, <1>1, <1>5 DEF RestoredTo
    <3>2. d.lock # Broken
      BY <1>3, PartFacts DEF Good
    <3> QED BY <3>1, <3>2, PartFacts DEF Good, Sound, Safe
  <2> QED BY <2>1, <2>2
<1> QED BY <1>3, <1>5, <1>6 DEF d, k

-----------------------------------------------------------------------------
Ats == Writes \union Ends \union
       {"backup", "drop", "retire", "promote", "clean", "rotate", "sweep"}

(* An updater that only moves on keeps the rest of its state.              *)
LEMMA NowMoves ==
    ASSUME NEW u \in Updaters, NEW a \in Ats
    PROVE  LET w == [u EXCEPT !.at = a]
           IN /\ w \in Updaters /\ w.at = a
              /\ w.kind = u.kind /\ w.version = u.version /\ w.remove = u.remove
              /\ w.from = u.from /\ w.done = u.done
              /\ w.start = u.start /\ w.latest = u.latest
<1> DEFINE w == [u EXCEPT !.at = a]
<1>1. w \in [kind : {u.kind}, version : {u.version}, at : {a}, remove : {u.remove},
              from : {u.from}, done : {u.done}, start : {u.start}, latest : {u.latest}]
  BY DEF Updaters
<1> HIDE DEF w
<1> QED BY <1>1 DEF Updaters, Ats, w

(* What holds of an updater that is at a place.                            *)
LEMMA Running ==
    ASSUME IInv, NEW a, At(a)
    PROVE  /\ updater \in Updaters /\ updater # None /\ updater.at = a
           /\ ~service
           /\ cut \/ misled \/ Whole(updater.start)
           /\ updater.kind = "update" => OfUpdate(updater)
           /\ updater.kind = "rollback" => OfRollback(updater)
           /\ updater.kind \in {"update", "rollback"}
           /\ updater.start \in Copies /\ updater.latest \in {None} \union Copies
           /\ Good(updater.start) /\ GoodOrNone(updater.latest)
<1>1. updater \in Updaters /\ updater # None /\ updater.at = a
  BY DEF IInv, TypeOK, At
<1> QED BY <1>1 DEF IInv, UpdaterInv, AllGood, Updaters

(* What is left to prove of a step that only moves the updater on and      *)
(* changes the backups.                                                    *)
Kept(w) == /\ w.kind = updater.kind /\ w.version = updater.version
           /\ w.start = updater.start /\ w.latest = updater.latest

(* A step of the updater keeps the invariant when it leaves good copies    *)
(* behind and says at its next place what is true there.                   *)
LEMMA Moves ==
    ASSUME IInv, updater \in Updaters, updater' \in Updaters,
           Kept(updater'), backups' \in Backups, project' \in Copies, Good(project'),
           GoodOrNone(backups'.latest), GoodOrNone(backups'.previous),
           GoodOrNone(backups'.source), \A c \in backups'.pending : Good(c),
           updater'.at \in Waiting => project' = updater'.start,
           UNCHANGED <<service, history>>,
           updater.kind = "update" => OfUpdate(updater)',
           updater.kind = "rollback" => OfRollback(updater)'
    PROVE  IInv'
<1>1. updater # None /\ updater' # None
  BY NoneFacts
<1>2. ~service
  BY <1>1 DEF IInv
<1>3. TypeOK'
  BY DEF TypeOK, IInv, history, Good
<1>4. AllGood'
  BY <1>1 DEF AllGood, IInv, Kept
<1>5. UpdaterInv'
  BY <1>1 DEF UpdaterInv, IInv, Kept, history
<1> QED BY <1>1, <1>2, <1>3, <1>4, <1>5 DEF IInv, history

(* _create_pending_backup copies the project, which is as it was.          *)
LEMMA BackUpStep == IInv /\ BackUp => IInv'
<1> SUFFICES ASSUME IInv, BackUp PROVE IInv'
  OBVIOUS
<1>1. At("backup") /\ UNCHANGED <<project, service, history>>
  BY DEF BackUp
<1>2. updater' = [updater EXCEPT !.at = IF updater.kind = "update" THEN "drop" ELSE "clean"]
  BY DEF BackUp, Now
<1>3. /\ updater' \in Updaters /\ Kept(updater')
      /\ updater'.at = IF updater.kind = "update" THEN "drop" ELSE "clean"
      /\ updater'.done = updater.done /\ updater'.remove = updater.remove
  BY <1>1, <1>2, Running, NowMoves DEF Kept, Ats
<1>4. /\ backups \in Backups /\ project \in Copies /\ Good(project)
      /\ project = updater.start
  BY <1>1, Running DEF IInv, TypeOK, AllGood, Waiting
<1>5. /\ backups' \in Backups /\ backups'.latest = backups.latest
      /\ backups'.previous = backups.previous /\ backups'.source = backups.source
      /\ backups'.pending = backups.pending \union {project}
  <2>1. backups' \in [latest : {backups.latest}, previous : {backups.previous},
                      source : {backups.source}, pending : {backups.pending \union {project}}]
    BY <1>4 DEF BackUp, Backups
  <2> QED BY <2>1, <1>4 DEF Backups
<1>6. updater.kind = "update" => OfUpdate(updater)'
  BY <1>1, <1>3, <1>4, <1>5, Running DEF OfUpdate, Kept, history, Waiting, Ends
<1>7. updater.kind = "rollback" => OfRollback(updater)'
  BY <1>1, <1>3, <1>4, <1>5, Running DEF OfRollback, Kept, history, Ends
<1>8. project' = updater'.start
  BY <1>1, <1>3, <1>4 DEF Kept
<1> QED BY <1>1, <1>3, <1>4, <1>5, <1>6, <1>7, <1>8, Running, Moves DEF IInv, AllGood

(* _promote_latest_backup removes the previous backup; latest is still     *)
(* there.                                                                  *)
LEMMA DropStep == IInv /\ DropPrevious => IInv'
<1> SUFFICES ASSUME IInv, DropPrevious PROVE IInv'
  OBVIOUS
<1>1. At("drop") /\ UNCHANGED <<project, service, history>>
  BY DEF DropPrevious
<1>2. updater' = [updater EXCEPT !.at = "retire"]
  BY DEF DropPrevious, Now
<1>3. /\ updater' \in Updaters /\ Kept(updater') /\ updater'.at = "retire"
      /\ updater'.done = updater.done /\ updater'.remove = updater.remove
  BY <1>1, <1>2, Running, NowMoves DEF Kept, Ats
<1>4. backups \in Backups /\ project \in Copies /\ project = updater.start
  BY <1>1, Running DEF IInv, TypeOK, Waiting
<1>5. /\ backups' \in Backups /\ backups'.latest = backups.latest
      /\ backups'.previous = None /\ backups'.source = backups.source
      /\ backups'.pending = backups.pending
  <2>1. backups' \in [latest : {backups.latest}, previous : {None},
                      source : {backups.source}, pending : {backups.pending}]
    BY <1>4 DEF DropPrevious, Backups
  <2> QED BY <2>1, <1>4 DEF Backups
<1>6. updater.kind = "update" /\ OfUpdate(updater)'
  BY <1>1, <1>3, <1>4, <1>5, Running DEF OfUpdate, OfRollback, Kept, history, Waiting, Ends
<1> QED
  BY <1>1, <1>3, <1>4, <1>5, <1>6, Running, Moves DEF IInv, AllGood, GoodOrNone, Kept

(* _promote_latest_backup renames latest to previous.                      *)
LEMMA RetireStep == IInv /\ Retire => IInv'
<1> SUFFICES ASSUME IInv, Retire PROVE IInv'
  OBVIOUS
<1>1. At("retire") /\ UNCHANGED <<project, service, history>>
  BY DEF Retire
<1>2. updater' = [updater EXCEPT !.at = "promote"]
  BY DEF Retire, Now
<1>3. /\ updater' \in Updaters /\ Kept(updater') /\ updater'.at = "promote"
      /\ updater'.done = updater.done /\ updater'.remove = updater.remove
  BY <1>1, <1>2, Running, NowMoves DEF Kept, Ats
<1>4. /\ backups \in Backups /\ project \in Copies /\ project = updater.start
      /\ updater.kind = "update" /\ backups.previous = None
  BY <1>1, Running DEF IInv, TypeOK, Waiting, OfUpdate, OfRollback, Ends
<1>5. /\ backups' \in Backups /\ backups'.latest = None
      /\ backups'.previous = backups.latest /\ backups'.source = backups.source
      /\ backups'.pending = backups.pending
  <2>1. CASE backups.latest = None
    BY <2>1, <1>4 DEF Retire
  <2>2. CASE backups.latest # None
    <3>1. backups' \in [latest : {None}, previous : {backups.latest},
                        source : {backups.source}, pending : {backups.pending}]
      BY <2>2, <1>4 DEF Retire, Backups
    <3> QED BY <3>1, <1>4 DEF Backups
  <2> QED BY <2>1, <2>2
<1>6. OfUpdate(updater)'
  BY <1>1, <1>3, <1>4, <1>5, Running DEF OfUpdate, Kept, history, Waiting, Ends
<1> QED
  BY <1>1, <1>3, <1>4, <1>5, <1>6, Running, Moves DEF IInv, AllGood, GoodOrNone, Kept, Waiting

(* _promote_latest_backup renames the pending copy to latest.              *)
LEMMA PromoteStep == IInv /\ Promote => IInv'
<1> SUFFICES ASSUME IInv, Promote PROVE IInv'
  OBVIOUS
<1>1. At("promote") /\ UNCHANGED <<project, service, history>>
  BY DEF Promote
<1>2. updater' = [updater EXCEPT !.at = IF updater.kind = "update" THEN "clean" ELSE "sweep"]
  BY DEF Promote, Now
<1>3. /\ updater' \in Updaters /\ Kept(updater')
      /\ updater'.at = IF updater.kind = "update" THEN "clean" ELSE "sweep"
      /\ updater'.done = updater.done /\ updater'.remove = updater.remove
  BY <1>1, <1>2, Running, NowMoves DEF Kept, Ats
<1>4. backups \in Backups /\ project \in Copies /\ updater.start \in Copies
  BY <1>1, Running DEF IInv, TypeOK
<1>5. /\ backups' \in Backups /\ backups'.latest = updater.start
      /\ backups'.previous = backups.previous /\ backups'.source = backups.source
      /\ backups'.pending = backups.pending \ {updater.start}
  <2>1. backups' \in [latest : {updater.start}, previous : {backups.previous},
                      source : {backups.source}, pending : {backups.pending \ {updater.start}}]
    BY <1>4 DEF Promote, Backups
  <2> QED BY <2>1, <1>4 DEF Backups
<1>6. updater.kind = "update" => OfUpdate(updater)'
  BY <1>1, <1>3, <1>4, <1>5, Running DEF OfUpdate, Kept, history, Waiting, Ends
<1>7. updater.kind = "rollback" => OfRollback(updater)'
  BY <1>1, <1>3, <1>4, <1>5, Running DEF OfRollback, Kept, history, Ends
<1>8. updater'.at \in Waiting => project' = updater'.start
  BY <1>1, <1>3, Running DEF OfUpdate, Kept, Waiting
<1> QED
  BY <1>1, <1>3, <1>4, <1>5, <1>6, <1>7, <1>8, Running, Moves DEF IInv, AllGood, GoodOrNone

(* _remove_other_backups leaves latest, and for a rollback its safety      *)
(* copy, then the writing starts.                                          *)
LEMMA CleanStep == IInv /\ Clean => IInv'
<1> SUFFICES ASSUME IInv, Clean PROVE IInv'
  OBVIOUS
<1>1. At("clean") /\ UNCHANGED <<project, service, history>> /\ updater' = AfterClean(updater)
  BY DEF Clean
<1>2. backups \in Backups /\ project \in Copies /\ updater.start \in Copies /\ updater \in Updaters
  BY <1>1, Running DEF IInv, TypeOK
<1>3. /\ backups' \in Backups /\ backups'.latest = backups.latest
      /\ backups'.previous = None /\ backups'.source = None
      /\ backups'.pending = IF updater.kind = "update" THEN {} ELSE {updater.start}
  <2>1. backups' \in [latest : {backups.latest}, previous : {None}, source : {None},
                      pending : {IF updater.kind = "update" THEN {} ELSE {updater.start}}]
    BY <1>2 DEF Clean, Cleaned, Backups
  <2> QED BY <2>1, <1>2 DEF Backups
<1>4. CASE updater.kind = "update"
  <2>1. updater' = [updater EXCEPT !.at = "deploy"]
    BY <1>1, <1>4 DEF AfterClean
  <2>2. /\ updater' \in Updaters /\ Kept(updater') /\ updater'.at = "deploy"
        /\ updater'.done = updater.done /\ updater'.remove = updater.remove
    BY <2>1, <1>2, NowMoves DEF Kept, Ats, Writes
  <2>3. /\ OfUpdate(updater) /\ updater.done = 0 /\ updater.remove = {}
        /\ project = updater.start /\ backups.latest = updater.start
    BY <1>1, <1>4, Running DEF OfUpdate, Waiting
  <2>4. DeployedTo(updater', project')
    <3>1. /\ updater'.done = 0 /\ updater'.remove = {} /\ project' = updater'.start
      BY <1>1, <2>2, <2>3 DEF Kept
    <3>2. \A j \in DOMAIN Directories : j \in Nat /\ j >= 1
      BY DirectoryFacts
    <3> QED BY <3>1, <3>2, DirectoryFacts DEF DeployedTo
  <2>5. OfUpdate(updater)'
    BY <1>1, <1>3, <2>2, <2>3, <2>4, Running DEF OfUpdate, Kept, history, Waiting, Ends
  <2> QED
    BY <1>1, <1>2, <1>3, <1>4, <2>2, <2>5, Running, Moves DEF IInv, AllGood, GoodOrNone, Waiting
<1>5. CASE updater.kind = "rollback"
  <2>1. /\ updater' = Restoring(updater, "restore", backups.latest)
        /\ OfRollback(updater) /\ backups.latest = updater.latest /\ backups.latest \in Copies
    BY <1>1, <1>2, <1>5, Running DEF AfterClean, OfRollback, Backups
  <2>2. /\ updater' \in Updaters /\ Kept(updater') /\ updater'.at = "restore"
        /\ updater'.from = updater.latest /\ RestoredTo(updater', project')
    <3> DEFINE w == Restoring(updater, "restore", backups.latest)
    <3>1. /\ w \in Updaters /\ w.at = "restore" /\ w.from = backups.latest
          /\ w.kind = updater.kind /\ w.version = updater.version
          /\ w.start = updater.start /\ w.latest = updater.latest
          /\ \A c : RestoredTo(w, c)
      <4>1. updater \in Updaters /\ backups.latest \in Copies
        BY <2>1, <1>2
      <4> QED BY <4>1, RestoreBegins
    <3> HIDE DEF w
    <3>2. updater' = w
      BY <2>1 DEF w
    <3> QED BY <3>1, <3>2, <2>1 DEF Kept
  <2>3. OfRollback(updater)'
    BY <1>1, <1>3, <1>5, <2>1, <2>2 DEF OfRollback, Kept, history, Ends
  <2> QED
    BY <1>1, <1>2, <1>3, <1>5, <2>2, <2>3, Running, Moves DEF IInv, AllGood, GoodOrNone, Waiting
<1> QED BY <1>1, <1>4, <1>5, Running

(* rollback_latest keeps the backup it restored as the source of the       *)
(* rotation.                                                               *)
LEMMA RotateStep == IInv /\ Rotate => IInv'
<1> SUFFICES ASSUME IInv, Rotate PROVE IInv'
  OBVIOUS
<1>1. At("rotate") /\ UNCHANGED <<project, service, history>>
  BY DEF Rotate
<1>2. updater' = [updater EXCEPT !.at = "promote"]
  BY DEF Rotate, Now
<1>3. /\ updater' \in Updaters /\ Kept(updater') /\ updater'.at = "promote"
  BY <1>1, <1>2, Running, NowMoves DEF Kept, Ats
<1>4. /\ backups \in Backups /\ project \in Copies /\ updater.kind = "rollback"
      /\ OfRollback(updater)
  BY <1>1, Running DEF IInv, TypeOK, OfUpdate, Ends
<1>5. /\ backups' \in Backups /\ backups'.latest = None
      /\ backups'.previous = backups.previous /\ backups'.source = backups.latest
      /\ backups'.pending = backups.pending
  <2>1. backups' \in [latest : {None}, previous : {backups.previous},
                      source : {backups.latest}, pending : {backups.pending}]
    BY <1>4 DEF Rotate, Backups
  <2> QED BY <2>1, <1>4 DEF Backups
<1>6. OfRollback(updater)'
  BY <1>1, <1>3, <1>4, <1>5, Running DEF OfRollback, Kept, history, Ends
<1> QED
  BY <1>1, <1>3, <1>4, <1>5, <1>6, Running, Moves DEF IInv, AllGood, GoodOrNone, Waiting

(* After the commit of a rollback the other backups go.                    *)
LEMMA SweepStep == IInv /\ Sweep => IInv'
<1> SUFFICES ASSUME IInv, Sweep PROVE IInv'
  OBVIOUS
<1>1. At("sweep") /\ UNCHANGED <<project, service, history>>
  BY DEF Sweep
<1>2. updater' = [updater EXCEPT !.at = "succeeded"]
  BY DEF Sweep, Now
<1>3. /\ updater' \in Updaters /\ Kept(updater') /\ updater'.at = "succeeded"
  BY <1>1, <1>2, Running, NowMoves DEF Kept, Ats, Ends
<1>4. /\ backups \in Backups /\ project \in Copies /\ updater.kind = "rollback"
      /\ OfRollback(updater)
  BY <1>1, Running DEF IInv, TypeOK, OfUpdate, Ends
<1>5. /\ backups' \in Backups /\ backups'.latest = backups.latest
      /\ backups'.previous = backups.previous /\ backups'.source \in {None, backups.source}
      /\ backups'.pending = backups.pending
  <2>1. [backups EXCEPT !.source = None] \in
            [latest : {backups.latest}, previous : {backups.previous},
             source : {None}, pending : {backups.pending}]
    BY <1>4 DEF Backups
  <2>2. CASE backups' = backups
    BY <2>2, <1>4
  <2>3. CASE backups' = [backups EXCEPT !.source = None]
    BY <2>1, <2>3, <1>4 DEF Backups
  <2> QED BY <2>2, <2>3 DEF Sweep
<1>6. OfRollback(updater)'
  BY <1>1, <1>3, <1>4, <1>5, Running DEF OfRollback, Kept, history, Ends
<1> QED
  BY <1>1, <1>3, <1>4, <1>5, <1>6, Running, Moves DEF IInv, AllGood, GoodOrNone, Waiting

-----------------------------------------------------------------------------
(* _remove_path of one entry of the project.                               *)
LEMMA RemovePartStep == ASSUME IInv, NEW p \in Parts, RemovePart(p) PROVE IInv'
<1>1. /\ Writing /\ p \in updater.remove /\ UNCHANGED <<backups, service, history>>
      /\ project' = [project EXCEPT ![p] = Broken]
      /\ updater' = [updater EXCEPT !.remove = @ \ {p}]
  BY DEF RemovePart
<1>2. PICK at \in Writes : At(at)
  BY <1>1 DEF Writing, Writes
<1>3. updater \in Updaters /\ project \in Copies /\ Good(project) /\ backups \in Backups
  BY <1>2, Running DEF IInv, TypeOK, AllGood
<1>4. /\ updater' \in Updaters /\ Kept(updater') /\ updater'.at = updater.at
      /\ updater'.done = updater.done /\ updater'.remove = updater.remove \ {p}
      /\ updater'.from = updater.from
  <2>1. updater' \in [kind : {updater.kind}, version : {updater.version}, at : {updater.at},
                      remove : {updater.remove \ {p}}, from : {updater.from},
                      done : {updater.done}, start : {updater.start}, latest : {updater.latest}]
    BY <1>1, <1>3 DEF Updaters
  <2> QED BY <2>1, <1>3 DEF Updaters, Kept
<1>5. updater.at \in {"restore", "undo"} /\ RestoredTo(updater, project)
  BY <1>1, <1>2, Running DEF OfUpdate, OfRollback, DeployedTo, Writes, Ends
<1>6. p # "lock"
  BY <1>1, <1>5 DEF RestoredTo, Removed
<1>7. project' \in Copies /\ Good(project')
  BY <1>1, <1>3, <1>6, RemovingKeepsGood
<1>8. RestoredTo(updater', project')
  BY <1>1, <1>3, <1>4, <1>5, RestoreRemoves
<1>9. updater.kind = "update" => OfUpdate(updater)'
  BY <1>1, <1>2, <1>4, <1>5, <1>8, Running DEF OfUpdate, Kept, history, Waiting, Ends
<1>10. updater.kind = "rollback" => OfRollback(updater)'
  BY <1>1, <1>2, <1>4, <1>5, <1>8, Running DEF OfRollback, Kept, history, Ends
<1> QED
  BY <1>1, <1>3, <1>4, <1>5, <1>7, <1>9, <1>10, Moves DEF IInv, AllGood, Waiting

(* One file or directory is written.                                       *)
LEMMA PutStep == IInv /\ Put => IInv'
<1> SUFFICES ASSUME IInv, Put PROVE IInv'
  OBVIOUS
<1> DEFINE step == StepOf(updater)
<1>1. /\ Writing /\ updater.remove = {} /\ updater.done < Steps(updater)
      /\ UNCHANGED <<backups, service, history>>
      /\ project' = [project EXCEPT ![step.part] = step.to]
      /\ updater' = [updater EXCEPT !.done = @ + 1]
  BY DEF Put
<1>2. PICK at \in Writes : At(at)
  BY <1>1 DEF Writing, Writes
<1>3. updater \in Updaters /\ project \in Copies /\ Good(project) /\ backups \in Backups
  BY <1>2, Running DEF IInv, TypeOK, AllGood
<1>4. /\ updater' \in Updaters /\ Kept(updater') /\ updater'.at = updater.at
      /\ updater'.done = updater.done + 1 /\ updater'.remove = updater.remove
      /\ updater'.from = updater.from
  <2>1. updater' \in [kind : {updater.kind}, version : {updater.version}, at : {updater.at},
                      remove : {updater.remove}, from : {updater.from},
                      done : {updater.done + 1}, start : {updater.start}, latest : {updater.latest}]
    BY <1>1, <1>3 DEF Updaters
  <2>2. updater.done + 1 \in Nat
    BY <1>3 DEF Updaters
  <2> QED BY <2>1, <2>2, <1>3 DEF Updaters, Kept
<1> HIDE DEF step
<1>5. CASE updater.at = "deploy"
  <2>1. /\ updater.kind = "update" /\ OfUpdate(updater) /\ DeployedTo(updater, project)
        /\ updater.version \in 1..MaxVersion /\ Safe(updater.start)
        /\ updater.start.manifest < updater.version /\ Good(updater.start)
    BY <1>2, <1>5, Running DEF OfUpdate, OfRollback, Ends
  <2>2. project' \in Copies /\ DeployedTo(updater', project')
    BY <1>1, <1>3, <1>4, <1>5, <2>1, DeployPut DEF Kept, step
  <2>3. Good(project')
    BY <1>4, <2>1, <2>2, DeployGood DEF Kept
  <2>4. OfUpdate(updater)'
    BY <1>1, <1>4, <1>5, <2>1, <2>2 DEF OfUpdate, Kept, history, Waiting, Ends
  <2> QED
    BY <1>1, <1>3, <1>4, <1>5, <2>1, <2>2, <2>3, <2>4, Moves DEF IInv, AllGood, Waiting
<1>6. CASE updater.at # "deploy"
  <2>1. /\ updater.at \in {"restore", "undo"} /\ RestoredTo(updater, project)
        /\ updater.from \in {updater.start, updater.latest} /\ Good(updater.from)
    <3>1. updater.from \in Copies
      BY <1>3 DEF Updaters
    <3> QED
      BY <3>1, <1>1, <1>2, <1>6, Running, NoneFacts
      DEF OfUpdate, OfRollback, Writes, Ends, GoodOrNone
  <2>2. project' \in Copies /\ RestoredTo(updater', project') /\ Good(project')
    BY <1>1, <1>3, <1>4, <1>6, <2>1, RestorePut DEF step
  <2>3. updater.kind = "update" => OfUpdate(updater)'
    BY <1>1, <1>2, <1>4, <2>1, <2>2, Running DEF OfUpdate, Kept, history, Waiting, Ends
  <2>4. updater.kind = "rollback" => OfRollback(updater)'
    BY <1>1, <1>2, <1>4, <2>1, <2>2, Running DEF OfRollback, Kept, history, Ends
  <2> QED
    BY <1>1, <1>3, <1>4, <2>1, <2>2, <2>3, <2>4, Moves DEF IInv, AllGood, Waiting
<1> QED BY <1>5, <1>6

(* What holds when the last write has been done.                           *)
LEMMA Writings ==
    ASSUME IInv, Written
    PROVE  /\ updater \in Updaters /\ ~service /\ updater.at \in Writes
           /\ project \in Copies /\ backups \in Backups /\ Good(project)
           /\ updater.at = "deploy" =>
                 /\ updater.kind = "update" /\ OfUpdate(updater)
                 /\ OfVersion(project, updater.version)
                 /\ project["venv"] = updater.version /\ project.data = updater.start.data
           /\ updater.at # "deploy" => project = updater.from
<1>1. PICK at \in Writes : At(at)
  BY DEF Written, Writing, Writes
<1>2. /\ updater \in Updaters /\ ~service /\ updater.at \in Writes
      /\ project \in Copies /\ backups \in Backups /\ Good(project)
  BY <1>1, Running DEF IInv, TypeOK, AllGood
<1>3. CASE updater.at = "deploy"
  <2>1. /\ updater.kind = "update" /\ OfUpdate(updater) /\ DeployedTo(updater, project)
        /\ updater.version \in 1..MaxVersion /\ Safe(updater.start)
        /\ updater.start.manifest < updater.version /\ Good(updater.start)
    BY <1>1, <1>3, Running DEF OfUpdate, OfRollback, Ends
  <2>2. updater.done = Swaps + 7
    BY <1>3 DEF Written, Steps
  <2> QED BY <1>2, <1>3, <2>1, <2>2, DeployGood
<1>4. CASE updater.at # "deploy"
  <2>1. RestoredTo(updater, project)
    BY <1>1, <1>4, Running DEF OfUpdate, OfRollback, Ends, Writes
  <2>2. updater.done = Len(ByName)
    BY <1>4 DEF Written, Steps
  <2> QED BY <1>2, <1>4, <2>1, <2>2, RestoreEnds
<1> QED BY <1>2, <1>3, <1>4

(* The update has written everything.                                      *)
LEMMA DeployedStep == IInv /\ Deployed => IInv'
<1> SUFFICES ASSUME IInv, Deployed PROVE IInv'
  OBVIOUS
<1>1. At("deploy") /\ Written /\ UNCHANGED <<project, backups, service, history>>
  BY DEF Deployed
<1>2. updater' = [updater EXCEPT !.at = "succeeded"]
  BY DEF Deployed, Now
<1>3. updater' \in Updaters /\ Kept(updater') /\ updater'.at = "succeeded"
  BY <1>1, <1>2, Running, NowMoves DEF Kept, Ats, Ends
<1>4. OfUpdate(updater)'
  BY <1>1, <1>3, Running, Writings DEF OfUpdate, Kept, history, Waiting, Ends
<1> QED
  BY <1>1, <1>3, <1>4, Running, Writings, Moves DEF IInv, AllGood, Waiting

(* The restoration of an update ends in failure, that of a rollback in the *)
(* rotation.                                                               *)
LEMMA RestoredStep == IInv /\ Restored => IInv'
<1> SUFFICES ASSUME IInv, Restored PROVE IInv'
  OBVIOUS
<1>1. At("restore") /\ Written /\ UNCHANGED <<project, backups, service, history>>
  BY DEF Restored
<1>2. updater' = [updater EXCEPT !.at = IF updater.kind = "update" THEN "failed" ELSE "rotate"]
  BY DEF Restored, Now
<1>3. /\ updater' \in Updaters /\ Kept(updater')
      /\ updater'.at = IF updater.kind = "update" THEN "failed" ELSE "rotate"
  BY <1>1, <1>2, Running, NowMoves DEF Kept, Ats, Ends
<1>4. updater.kind = "update" => OfUpdate(updater)'
  BY <1>1, <1>3, Running, Writings DEF OfUpdate, Kept, history, Waiting, Ends
<1>5. updater.kind = "rollback" => OfRollback(updater)'
  BY <1>1, <1>3, Running, Writings DEF OfRollback, Kept, history, Waiting, Ends
<1> QED
  BY <1>1, <1>3, <1>4, <1>5, Running, Writings, Moves DEF IInv, AllGood, Waiting

(* A rollback that undid its work has failed, its project as before.       *)
LEMMA UndoneStep == IInv /\ Undone => IInv'
<1> SUFFICES ASSUME IInv, Undone PROVE IInv'
  OBVIOUS
<1>1. At("undo") /\ Written /\ UNCHANGED <<project, service, history>>
  BY DEF Undone
<1>2. updater' = [updater EXCEPT !.at = "failed"]
  BY DEF Undone, Now
<1>3. updater' \in Updaters /\ Kept(updater') /\ updater'.at = "failed"
  BY <1>1, <1>2, Running, NowMoves DEF Kept, Ats, Ends
<1>4. /\ updater.kind = "rollback" /\ OfRollback(updater) /\ project = updater.start
      /\ updater.start \in Copies /\ backups \in Backups
  BY <1>1, Running, Writings DEF OfUpdate, OfRollback, Ends
<1>5. /\ backups' \in Backups /\ backups'.latest = backups.latest
      /\ backups'.previous = backups.previous /\ backups'.source = backups.source
      /\ backups'.pending \subseteq backups.pending
  <2>1. [backups EXCEPT !.pending = @ \ {updater.start}] \in
            [latest : {backups.latest}, previous : {backups.previous},
             source : {backups.source}, pending : {backups.pending \ {updater.start}}]
    BY <1>4 DEF Backups
  <2>2. CASE backups' = backups
    BY <2>2, <1>4
  <2>3. CASE backups' = [backups EXCEPT !.pending = @ \ {updater.start}]
    BY <2>1, <2>3, <1>4 DEF Backups
  <2> QED BY <2>2, <2>3 DEF Undone
<1>6. OfRollback(updater)'
  BY <1>1, <1>3, <1>4, <1>5, Running DEF OfRollback, Kept, history, Ends
<1> QED
  BY <1>1, <1>3, <1>4, <1>5, <1>6, Running, Writings, Moves DEF IInv, AllGood, Waiting

-----------------------------------------------------------------------------
(* The backup fails before anything is written.                            *)
LEMMA BackUpFailsStep == IInv /\ BackUpFails => IInv'
<1> SUFFICES ASSUME IInv, BackUpFails PROVE IInv'
  OBVIOUS
<1>1. At("backup") /\ UNCHANGED <<project, backups, service, history>>
  BY DEF BackUpFails
<1>2. updater' = [updater EXCEPT !.at = "failed"]
  BY DEF BackUpFails, Now
<1>3. updater' \in Updaters /\ Kept(updater') /\ updater'.at = "failed"
  BY <1>1, <1>2, Running, NowMoves DEF Kept, Ats, Ends
<1>4. project \in Copies /\ backups \in Backups
  BY DEF IInv, TypeOK
<1>5. updater.kind = "update" => OfUpdate(updater)'
  BY <1>1, <1>3, Running DEF OfUpdate, Kept, history, Waiting, Ends
<1>6. updater.kind = "rollback" => OfRollback(updater)'
  BY <1>1, <1>3, Running DEF OfRollback, Kept, history, Waiting, Ends
<1> QED
  BY <1>1, <1>3, <1>4, <1>5, <1>6, Running, Moves DEF IInv, AllGood, Waiting

(* What a renaming back may leave: the same, or the place's copy as the    *)
(* latest.                                                                 *)
LEMMA PuttingBack ==
    ASSUME NEW place \in {"previous", "source"}, backups \in Backups,
           NEW b \in PutBack(place)
    PROVE  /\ b \in Backups /\ b.pending = backups.pending
           /\ \/ b = backups
              \/ /\ backups.latest = None /\ backups[place] # None
                 /\ b.latest = backups[place]
                 /\ b.previous = IF place = "previous" THEN None ELSE backups.previous
                 /\ b.source = IF place = "source" THEN None ELSE backups.source
<1>1. CASE b = backups
  BY <1>1
<1>2. CASE b # backups
  <2>1. /\ backups.latest = None /\ backups[place] # None
        /\ b = [backups EXCEPT !.latest = backups[place], ![place] = None]
    BY <1>2 DEF PutBack
  <2>2. b \in [latest : {backups[place]},
               previous : {IF place = "previous" THEN None ELSE backups.previous},
               source : {IF place = "source" THEN None ELSE backups.source},
               pending : {backups.pending}]
    BY <2>1 DEF Backups
  <2>3. backups[place] \in {None} \union Copies
    BY DEF Backups
  <2> QED BY <2>1, <2>2, <2>3 DEF Backups
<1> QED BY <1>1, <1>2

(* The pending copy of a failed backup may be removed or left.             *)
LEMMA LessPending ==
    ASSUME NEW b \in Backups, NEW d \in {b, WithoutPending(b)}
    PROVE  /\ d \in Backups /\ d.latest = b.latest /\ d.previous = b.previous
           /\ d.source = b.source /\ d.pending \subseteq b.pending
<1>1. WithoutPending(b) \in
          [latest : {b.latest}, previous : {b.previous}, source : {b.source},
           pending : {b.pending \ {updater.start}}]
  BY DEF WithoutPending, Backups
<1>2. CASE d = WithoutPending(b)
  BY <1>1, <1>2 DEF Backups
<1> QED BY <1>2

(* A promotion fails; the backup it had renamed is put back, or stays      *)
(* where it is.                                                            *)
LEMMA PromotionFailsStep == IInv /\ PromotionFails => IInv'
<1> SUFFICES ASSUME IInv, PromotionFails PROVE IInv'
  OBVIOUS
<1>1. /\ updater.kind = "update" /\ UNCHANGED <<project, service, history>>
      /\ updater' = [updater EXCEPT !.at = "failed"]
  BY DEF PromotionFails, Now
<1>2. PICK at \in {"drop", "retire", "promote"} : At(at)
  BY DEF PromotionFails
<1>3. updater' \in Updaters /\ Kept(updater') /\ updater'.at = "failed"
  BY <1>1, <1>2, Running, NowMoves DEF Kept, Ats, Ends
<1>4. project \in Copies /\ backups \in Backups /\ OfUpdate(updater) /\ updater.at = at
  BY <1>1, <1>2, Running DEF IInv, TypeOK
<1>5. PICK b \in IF At("promote") THEN PutBack("previous")
                 ELSE IF At("drop") THEN {backups, [backups EXCEPT !.previous = None]}
                 ELSE {backups} : backups' \in {b, WithoutPending(b)}
  BY DEF PromotionFails
<1>6. /\ b \in Backups /\ b.pending = backups.pending
      /\ b.latest \in {backups.latest, backups.previous}
      /\ b.previous \in {None, backups.previous} /\ b.source = backups.source
      /\ b.latest = updater.latest \/ b.previous = updater.latest
  <2>1. CASE at = "promote"
    <3>1. b \in PutBack("previous") /\ backups.latest = None /\ backups.previous = updater.latest
      BY <1>2, <1>4, <1>5, <2>1 DEF OfUpdate
    <3> QED BY <3>1, <1>4, PuttingBack
  <2>2. CASE at = "drop"
    <3>1. /\ b \in {backups, [backups EXCEPT !.previous = None]}
          /\ backups.latest = updater.latest
      BY <1>2, <1>4, <1>5, <2>2 DEF OfUpdate, At
    <3>2. [backups EXCEPT !.previous = None] \in
              [latest : {backups.latest}, previous : {None}, source : {backups.source},
               pending : {backups.pending}]
      BY <1>4 DEF Backups
    <3>3. CASE b = [backups EXCEPT !.previous = None]
      BY <3>1, <3>2, <3>3, <1>4 DEF Backups
    <3> QED BY <3>1, <3>3, <1>4
  <2>3. CASE at = "retire"
    BY <1>2, <1>4, <1>5, <2>3 DEF OfUpdate, At
  <2> QED BY <2>1, <2>2, <2>3
<1>7. /\ backups' \in Backups /\ backups'.latest = b.latest /\ backups'.previous = b.previous
      /\ backups'.source = b.source /\ backups'.pending \subseteq b.pending
  BY <1>5, <1>6, LessPending
<1>8. OfUpdate(updater)'
  BY <1>1, <1>2, <1>3, <1>4, <1>6, <1>7, Running DEF OfUpdate, Kept, history, Waiting, Ends
<1> QED
  BY <1>1, <1>2, <1>3, <1>4, <1>6, <1>7, <1>8, Running, Moves
  DEF IInv, AllGood, GoodOrNone, Waiting

(* The removal of other backups fails and the updater returns its error.   *)
LEMMA CleanFailsStep == IInv /\ CleanFails => IInv'
<1> SUFFICES ASSUME IInv, CleanFails PROVE IInv'
  OBVIOUS
<1>1. At("clean") /\ UNCHANGED <<project, service, history>>
  BY DEF CleanFails
<1>2. updater' = [updater EXCEPT !.at = "failed"]
  BY DEF CleanFails, Now
<1>3. updater' \in Updaters /\ Kept(updater') /\ updater'.at = "failed"
  BY <1>1, <1>2, Running, NowMoves DEF Kept, Ats, Ends
<1>4. project \in Copies /\ backups \in Backups
  BY DEF IInv, TypeOK
<1>5. /\ backups' \in Backups /\ backups'.latest = backups.latest
      /\ backups'.previous \in {None, backups.previous}
      /\ backups'.source \in {None, backups.source}
      /\ backups'.pending \subseteq backups.pending
  <2>1. PICK kept \in SUBSET (backups.pending \ {updater.start}),
             previous \in {None, backups.previous}, source \in {None, backups.source},
             own \in SUBSET (backups.pending \intersect {updater.start}) :
                backups' = [backups EXCEPT !.previous = previous, !.source = source,
                                           !.pending = kept \union own]
    BY DEF CleanFails
  <2>2. backups' \in [latest : {backups.latest}, previous : {previous}, source : {source},
                      pending : {kept \union own}]
    BY <2>1, <1>4 DEF Backups
  <2> QED BY <2>1, <2>2, <1>4 DEF Backups
<1>6. updater.kind = "update" => OfUpdate(updater)'
  BY <1>1, <1>3, <1>5, Running DEF OfUpdate, Kept, history, Waiting, Ends
<1>7. updater.kind = "rollback" => OfRollback(updater)'
  BY <1>1, <1>3, <1>5, Running DEF OfRollback, Kept, history, Waiting, Ends
<1> QED
  BY <1>1, <1>3, <1>4, <1>5, <1>6, <1>7, Running, Moves DEF IInv, AllGood, GoodOrNone, Waiting

(* A rollback that undoes: its project is to be as it was. *)
LEMMA Undoes ==
    ASSUME IInv, updater \in Updaters, updater.kind = "rollback", OfRollback(updater),
           ~service, Good(updater.start), updater' = Restoring(updater, "undo", updater.start),
           UNCHANGED <<project, service, history>>, backups' \in Backups,
           backups'.latest = updater.latest, updater.start \in backups'.pending,
           GoodOrNone(backups'.previous), GoodOrNone(backups'.source),
           \A c \in backups'.pending : Good(c)
    PROVE  IInv'
<1>1. updater.start \in Copies /\ project \in Copies /\ Good(project)
      /\ GoodOrNone(updater.latest)
  BY NoneFacts DEF IInv, TypeOK, AllGood, Updaters
<1> DEFINE w == Restoring(updater, "undo", updater.start)
<1>2. /\ w \in Updaters /\ w.at = "undo" /\ w.from = updater.start
      /\ w.kind = updater.kind /\ w.version = updater.version
      /\ w.start = updater.start /\ w.latest = updater.latest
      /\ \A c : RestoredTo(w, c)
  <2>1. "undo" \in {"restore", "undo"} /\ updater \in Updaters /\ updater.start \in Copies
    BY <1>1
  <2> QED BY ONLY <2>1, RestoreBegins
<1> HIDE DEF w
<1>3. updater' = w
  BY DEF w
<1>4. Kept(updater') /\ updater'.at = "undo" /\ updater' \in Updaters
  BY <1>2, <1>3 DEF Kept
<1>5. OfRollback(updater)'
  BY <1>2, <1>3 DEF OfRollback, history, Ends
<1> QED
  BY <1>1, <1>4, <1>5, Moves DEF Waiting

(* The rotation fails: the rollback undoes what it restored, or is stuck.  *)
LEMMA RotationFailsStep == IInv /\ RotationFails => IInv'
<1> SUFFICES ASSUME IInv, RotationFails PROVE IInv'
  OBVIOUS
<1>1. /\ updater.kind = "rollback" /\ UNCHANGED <<project, service, history>>
  BY DEF RotationFails
<1>2. PICK at \in {"rotate", "promote"} : At(at)
  BY DEF RotationFails
<1>3. project \in Copies /\ backups \in Backups /\ OfRollback(updater) /\ updater.at = at
      /\ updater \in Updaters /\ ~service /\ Good(updater.start)
  BY <1>1, <1>2, Running DEF IInv, TypeOK
<1>4. CASE at = "rotate"
  <2>1. backups' = backups /\ updater' = Restoring(updater, "undo", updater.start)
    BY <1>3, <1>4 DEF RotationFails, AfterFailedRotation, At
  <2>2. backups.latest = updater.latest /\ updater.start \in backups.pending
    BY <1>3, <1>4 DEF OfRollback
  <2> QED BY <1>1, <1>3, <2>1, <2>2, Undoes DEF IInv, AllGood
<1>5. CASE at = "promote"
  <2>1. PICK b \in PutBack("source") :
           /\ backups' = b
           /\ updater' = IF b.latest = None THEN [updater EXCEPT !.at = "stuck"]
                         ELSE Restoring(updater, "undo", updater.start)
    BY <1>3, <1>5 DEF RotationFails, AfterFailedRotation, At
  <2>2. /\ backups.latest = None /\ backups.source = updater.latest
        /\ updater.start \in backups.pending
    BY <1>3, <1>5 DEF OfRollback
  <2>3. /\ backups' \in Backups /\ backups'.pending = backups.pending
        /\ \/ backups' = backups
           \/ /\ backups'.latest = updater.latest /\ backups'.latest # None
              /\ backups'.previous = backups.previous /\ backups'.source = None
    BY <1>3, <2>1, <2>2, PuttingBack
  <2>4. CASE backups'.latest = None
    <3>1. updater' = [updater EXCEPT !.at = "stuck"] /\ backups' = backups
      BY <2>1, <2>3, <2>4
    <3>2. updater' \in Updaters /\ Kept(updater') /\ updater'.at = "stuck"
      BY <1>3, <3>1, NowMoves DEF Kept, Ats, Ends
    <3>3. OfRollback(updater)'
      BY <1>1, <1>3, <1>5, <2>2, <3>1, <3>2 DEF OfRollback, Kept, history, Ends
    <3> QED
      BY <1>1, <1>3, <3>1, <3>2, <3>3, Moves DEF IInv, AllGood, Waiting
  <2>5. CASE backups'.latest # None
    <3>1. /\ updater' = Restoring(updater, "undo", updater.start)
          /\ backups'.latest = updater.latest
      BY <2>1, <2>2, <2>3, <2>5
    <3> QED
      BY <1>1, <1>3, <2>2, <2>3, <3>1, Undoes DEF IInv, AllGood, GoodOrNone
  <2> QED BY <2>4, <2>5
<1> QED BY <1>4, <1>5

(* A write fails: the updater restores, undoes or is stuck.                *)
LEMMA WriteFailsStep == IInv /\ WriteFails => IInv'
<1> SUFFICES ASSUME IInv, WriteFails PROVE IInv'
  OBVIOUS
<1>1. /\ Writing /\ updater' = AfterFailedWrite(updater)
      /\ UNCHANGED <<project, backups, service, history>>
  BY DEF WriteFails
<1>2. PICK at \in Writes : At(at)
  BY <1>1 DEF Writing, Writes
<1>3. /\ project \in Copies /\ backups \in Backups /\ updater.at = at
      /\ updater \in Updaters /\ ~service /\ Good(updater.start) /\ updater.start \in Copies
  BY <1>2, Running DEF IInv, TypeOK
<1>4. CASE at = "deploy"
  <2> DEFINE w == Restoring(updater, "restore", updater.start)
  <2>1. /\ w \in Updaters /\ w.at = "restore" /\ w.from = updater.start
        /\ w.kind = updater.kind /\ w.version = updater.version
        /\ w.start = updater.start /\ w.latest = updater.latest
        /\ \A c : RestoredTo(w, c)
    <3>1. updater \in Updaters /\ updater.start \in Copies
      BY <1>3
    <3> QED BY ONLY <3>1, RestoreBegins
  <2> HIDE DEF w
  <2>2. updater' = w
    BY <1>1, <1>3, <1>4 DEF w, AfterFailedWrite
  <2>3. Kept(updater') /\ updater'.at = "restore" /\ updater' \in Updaters
    BY <2>1, <2>2 DEF Kept
  <2>4. updater.kind = "update" /\ OfUpdate(updater)
    BY <1>2, <1>4, Running DEF OfRollback, Ends
  <2>5. OfUpdate(updater)'
    BY <1>1, <1>3, <1>4, <2>1, <2>2, <2>3, <2>4 DEF OfUpdate, history, Waiting, Ends
  <2> QED
    BY <1>1, <1>3, <2>3, <2>4, <2>5, Moves DEF IInv, AllGood, Waiting
<1>5. CASE at = "restore" /\ updater.kind = "rollback"
  <2>1. updater' = Restoring(updater, "undo", updater.start) /\ OfRollback(updater)
    BY <1>1, <1>2, <1>3, <1>5, Running DEF AfterFailedWrite
  <2>2. backups.latest = updater.latest /\ updater.start \in backups.pending
    BY <1>3, <1>5, <2>1 DEF OfRollback
  <2> QED BY <1>1, <1>3, <1>5, <2>1, <2>2, Undoes DEF IInv, AllGood
<1>6. CASE at # "deploy" /\ ~(at = "restore" /\ updater.kind = "rollback")
  <2>1. updater' = [updater EXCEPT !.at = "stuck"]
    BY <1>1, <1>3, <1>6 DEF AfterFailedWrite
  <2>2. updater' \in Updaters /\ Kept(updater') /\ updater'.at = "stuck"
    BY <1>3, <2>1, NowMoves DEF Kept, Ats, Ends
  <2>3. updater.kind = "update" => OfUpdate(updater)'
    BY <1>1, <1>2, <1>3, <1>6, <2>2, Running DEF OfUpdate, Kept, history, Waiting, Ends, Writes
  <2>4. updater.kind = "rollback" => OfRollback(updater)'
    BY <1>1, <1>2, <1>3, <1>6, <2>2, Running DEF OfRollback, Kept, history, Ends, Writes
  <2> QED
    BY <1>1, <1>3, <2>2, <2>3, <2>4, Moves DEF IInv, AllGood, Waiting
<1> QED BY <1>4, <1>5, <1>6

-----------------------------------------------------------------------------
(* An update starts from a whole release, unless its data was lost before. *)
LEMMA StartsWhole ==
    ASSUME NEW u, OfUpdate(u), Good(u.start), ~misled
    PROVE  Whole(u.start)
BY DEF OfUpdate, Good, Sound

(* Whatever the updater is at, the project, latest, previous or source is  *)
(* whole.                                                                  *)
LEMMA KeepsOneWhole == IInv => OneWhole
<1> SUFFICES ASSUME IInv, ~misled, updater # None PROVE OneWhole
  BY DEF IInv, OneWhole
<1>1. updater \in Updaters /\ At(updater.at)
  BY DEF IInv, TypeOK, At
<1>2. CASE updater.kind = "update"
  <2>1. Whole(updater.start) /\ OfUpdate(updater) /\ updater.start # None
    BY <1>1, <1>2, StartsWhole, Running, NoneFacts
  <2>2. project = updater.start \/ backups.latest = updater.start
    BY <2>1 DEF OfUpdate, Ends
  <2>3. CASE backups["latest"] = updater.start
    BY <2>1, <2>3 DEF OneWhole
  <2> QED BY <2>1, <2>2, <2>3 DEF OneWhole
<1>3. CASE updater.kind = "rollback"
  <2>1. Whole(updater.latest) /\ OfRollback(updater) /\ updater.latest # None
    BY <1>1, <1>3, Running DEF OfRollback
  <2>2. \/ project = updater.latest
        \/ \E place \in {"latest", "source"} : backups[place] = updater.latest
    BY <2>1 DEF OfRollback, Ends
  <2> QED BY <2>1, <2>2 DEF OneWhole
<1> QED BY <1>1, <1>2, <1>3 DEF Updaters

(* What is known at the end of an updater is all or nothing.               *)
LEMMA EndsAllOrNothing == IInv => AllOrNothing
<1> SUFFICES ASSUME IInv, NEW a \in Ends, At(a) PROVE AllOrNothing
  BY DEF AllOrNothing, Ends, At
<1>1. CASE updater.kind = "update"
  BY <1>1, Running DEF AllOrNothing, OfUpdate, At
<1>2. CASE updater.kind = "rollback"
  BY <1>2, Running DEF AllOrNothing, OfRollback, At
<1> QED BY <1>1, <1>2, Running

-----------------------------------------------------------------------------
(* The first installation is whole.                                        *)
LEMMA InitInv == Init => IInv
<1> SUFFICES ASSUME Init PROVE IInv
  OBVIOUS
<1>1. project \in Copies /\ \A p \in Parts : project[p] = 1
  <2>1. 1 \in Values
    BY UpdateAssumption DEF Values
  <2> QED BY <2>1, ValueFacts DEF Init
<1>2. Whole(project) /\ project.lock # Broken
  BY <1>1, PartFacts, UpdateAssumption DEF Whole, OfVersion, Broken
<1>3. Good(project)
  BY <1>2 DEF Good, Sound
<1>4. TypeOK
  BY <1>1, <1>2 DEF Init, TypeOK, Backups
<1> QED
  BY <1>2, <1>3, <1>4 DEF Init, IInv, AllGood, GoodOrNone, UpdaterInv, OneWhole

(* A new updater remembers the project and latest as they are.             *)
LEMMA BegunFacts ==
    ASSUME IInv, updater = None, NEW kind \in {"update", "rollback"},
           NEW version \in 0..MaxVersion
    PROVE  LET w == Begun(kind, version)
           IN /\ w \in Updaters /\ w.kind = kind /\ w.at = "backup" /\ w.version = version
              /\ w.remove = {} /\ w.done = 0
              /\ w.start = project /\ w.latest = backups.latest
<1>1. project \in Copies /\ backups.latest \in {None} \union Copies
  BY DEF IInv, TypeOK, Backups
<1> QED BY <1>1 DEF Begun, Updaters

(* update_project starts from an installation that passed its checks.      *)
LEMMA BeginUpdateStep == ASSUME IInv, NEW v \in 1..MaxVersion, BeginUpdate(v) PROVE IInv'
<1>1. /\ updater = None /\ Safe(project) /\ project.manifest < v
      /\ updater' = Begun("update", v) /\ runs' = runs + 1
      /\ misled' = (misled \/ project.data = Broken)
      /\ UNCHANGED <<project, backups, service, cut>> /\ ~service
  BY DEF BeginUpdate, MayRun, SafeInstallation, Safe
<1> DEFINE w == Begun("update", v)
<1>2. v \in 0..MaxVersion
  BY UpdateAssumption
<1>3. /\ w \in Updaters /\ w.kind = "update" /\ w.at = "backup" /\ w.version = v
      /\ w.remove = {} /\ w.done = 0
      /\ w.start = project /\ w.latest = backups.latest
  BY <1>1, <1>2, BegunFacts
<1> HIDE DEF w
<1>4. updater' = w /\ w # None
  BY <1>1, <1>3, NoneFacts DEF w
<1>5. TypeOK'
  BY <1>1, <1>3, <1>4 DEF IInv, TypeOK
<1>6. AllGood'
  BY <1>1, <1>3, <1>4 DEF IInv, AllGood
<1>7. OfUpdate(updater)'
  BY <1>1, <1>3, <1>4 DEF OfUpdate, Waiting, Ends
<1>8. UpdaterInv'
  BY <1>1, <1>3, <1>4, <1>7 DEF UpdaterInv, IInv
<1> QED BY <1>1, <1>4, <1>5, <1>6, <1>8 DEF IInv

(* rollback_latest starts from a latest backup, whole or the run is        *)
(* misled.                                                                 *)
LEMMA BeginRollbackStep == IInv /\ BeginRollback => IInv'
<1> SUFFICES ASSUME IInv, BeginRollback PROVE IInv'
  OBVIOUS
<1>1. /\ updater = None /\ backups.latest # None
      /\ updater' = Begun("rollback", 0) /\ runs' = runs + 1
      /\ misled' = (misled \/ ~Whole(backups.latest))
      /\ UNCHANGED <<project, backups, service, cut>> /\ ~service
  BY DEF BeginRollback, MayRun
<1> DEFINE w == Begun("rollback", 0)
<1>2. 0 \in 0..MaxVersion
  BY UpdateAssumption
<1>3. /\ w \in Updaters /\ w.kind = "rollback" /\ w.at = "backup"
      /\ w.start = project /\ w.latest = backups.latest
  BY <1>1, <1>2, BegunFacts
<1> HIDE DEF w
<1>4. updater' = w /\ w # None
  BY <1>1, <1>3, NoneFacts DEF w
<1>5. TypeOK'
  BY <1>1, <1>3, <1>4 DEF IInv, TypeOK
<1>6. AllGood'
  BY <1>1, <1>3, <1>4 DEF IInv, AllGood
<1>7. OfRollback(updater)'
  BY <1>1, <1>3, <1>4 DEF OfRollback, Ends
<1>8. UpdaterInv'
  BY <1>1, <1>3, <1>4, <1>7 DEF UpdaterInv, IInv
<1> QED BY <1>1, <1>4, <1>5, <1>6, <1>8 DEF IInv

(* The updater has gone; what it leaves is whole, or known to be cut.      *)
LEMMA Gone ==
    ASSUME IInv, updater # None, updater' = None, UNCHANGED <<project, backups, service, runs, misled>>,
           cut' \in BOOLEAN, cut' \/ misled \/ Whole(project)
    PROVE  IInv'
<1>1. ~service
  BY DEF IInv
<1>2. TypeOK'
  BY DEF IInv, TypeOK
<1>3. AllGood'
  BY DEF IInv, AllGood
<1>4. OneWhole'
  BY KeepsOneWhole DEF OneWhole
<1> QED BY <1>1, <1>2, <1>3, <1>4 DEF IInv, UpdaterInv

(* The updater returns.                                                    *)
LEMMA ExitStep == IInv /\ Exit => IInv'
<1> SUFFICES ASSUME IInv, Exit PROVE IInv'
  OBVIOUS
<1>1. /\ Ended /\ updater' = None /\ cut' = (~Whole(project) /\ (cut \/ At("stuck")))
      /\ UNCHANGED <<project, backups, service, runs, misled>>
  BY DEF Exit
<1>2. PICK a \in Ends : At(a)
  BY <1>1 DEF Ended, Ends
<1>3. updater # None /\ cut \in BOOLEAN
  BY <1>2, Running DEF IInv, TypeOK
<1>4. cut' \in BOOLEAN
  BY <1>1, <1>3
<1>5. ASSUME ~misled, ~cut, a # "stuck" PROVE Whole(project)
  <2>1. CASE a = "failed"
    <3>1. project = updater.start
      BY <1>2, <2>1, Running DEF OfUpdate, OfRollback
    <3> QED BY <1>2, <1>5, <3>1, Running
  <2>2. CASE a = "succeeded"
    <3>1. CASE updater.kind = "update"
      <4>1. /\ OfVersion(project, updater.version) /\ updater.version \in 1..MaxVersion
            /\ project.data # Broken
        BY <1>2, <1>5, <2>2, <3>1, Running DEF OfUpdate
      <4> QED BY <4>1 DEF Whole
    <3>2. CASE updater.kind = "rollback"
      BY <1>2, <1>5, <2>2, <3>2, Running DEF OfRollback
    <3> QED BY <1>2, <3>1, <3>2, Running
  <2> QED BY <1>5, <2>1, <2>2 DEF Ends
<1>6. a = "stuck" => At("stuck")
  BY <1>2
<1>7. cut' \/ misled \/ Whole(project)
  BY <1>1, <1>5, <1>6
<1> QED BY <1>1, <1>3, <1>4, <1>7, Gone

(* The updater is killed anywhere.                                         *)
LEMMA KillStep == IInv /\ Kill => IInv'
BY Gone DEF Kill

(* web.py takes the runtime lock, or the service stops.                    *)
LEMMA ServiceStep == IInv /\ (StartService \/ StopService) => IInv'
<1> SUFFICES ASSUME IInv, StartService \/ StopService PROVE IInv'
  OBVIOUS
<1>1. /\ UNCHANGED <<project, backups, updater, runs, cut, misled>> /\ service' \in BOOLEAN
      /\ service' => updater = None
  BY DEF StartService, StopService, history
<1>2. TypeOK'
  BY <1>1 DEF IInv, TypeOK
<1>3. AllGood'
  BY <1>1 DEF IInv, AllGood
<1>4. OneWhole' <=> OneWhole
  BY <1>1 DEF OneWhole
<1>5. UpdaterInv'
  BY <1>1 DEF IInv, UpdaterInv, OfUpdate, OfRollback
<1> QED BY <1>1, <1>2, <1>3, <1>4, <1>5 DEF IInv

(* The service writes the data of the project.                             *)
LEMMA WriteDataStep == IInv /\ WriteData => IInv'
<1> SUFFICES ASSUME IInv, WriteData PROVE IInv'
  OBVIOUS
<1>1. /\ service /\ project.data \in 1..(MaxData - 1)
      /\ project' = [project EXCEPT !["data"] = project["data"] + 1]
      /\ UNCHANGED <<backups, updater, service, runs, cut, misled>>
      /\ project \in Copies /\ updater = None /\ Good(project)
  BY DEF WriteData, history, IInv, TypeOK, AllGood
<1>2. project["data"] + 1 \in Values /\ project["data"] + 1 # Broken
  BY <1>1, UpdateAssumption DEF Values, Broken
<1>3. /\ project' \in Copies /\ project'["data"] = project["data"] + 1
      /\ \A p \in Managed : project'[p] = project[p]
  BY <1>1, <1>2, ValueFacts, PartFacts
<1>4. Safe(project') <=> Safe(project)
  BY <1>3, PartFacts DEF Safe
<1>5. Whole(project) => Whole(project')
  BY <1>2, <1>3 DEF Whole, OfVersion
<1>6. project.data # Broken
  BY <1>1 DEF Broken
<1>7. Good(project')
  BY <1>1, <1>3, <1>4, <1>5, <1>6, PartFacts DEF Good, Sound
<1>8. TypeOK'
  BY <1>1, <1>3, <1>7 DEF IInv, TypeOK, Good
<1>9. AllGood'
  BY <1>1, <1>7 DEF IInv, AllGood
<1>10. OneWhole'
  BY <1>1, <1>5, KeepsOneWhole DEF OneWhole
<1> QED BY <1>1, <1>5, <1>8, <1>9, <1>10 DEF IInv, UpdaterInv

(* Every step keeps the invariant.                                         *)
LEMMA IInvStep == IInv /\ [Next]_vars => IInv'
<1> SUFFICES ASSUME IInv, [Next]_vars PROVE IInv'
  OBVIOUS
<1>1. CASE UNCHANGED vars
  <2>1. TypeOK' /\ AllGood'
    BY <1>1 DEF vars, IInv, TypeOK, AllGood
  <2>2. OneWhole' <=> OneWhole
    BY <1>1 DEF vars, OneWhole
  <2>3. UpdaterInv'
    BY <1>1 DEF vars, IInv, UpdaterInv, OfUpdate, OfRollback
  <2> QED BY <1>1, <2>1, <2>2, <2>3 DEF vars, IInv
<1>2. ASSUME NEW v \in 1..MaxVersion, BeginUpdate(v) PROVE IInv'
  BY <1>2, BeginUpdateStep
<1>3. ASSUME NEW p \in Parts, RemovePart(p) PROVE IInv'
  BY <1>3, RemovePartStep
<1>4. CASE BackUp \/ DropPrevious \/ Retire \/ Promote \/ Clean \/ Rotate \/ Sweep
  BY <1>4, BackUpStep, DropStep, RetireStep, PromoteStep, CleanStep, RotateStep, SweepStep
<1>5. CASE Put \/ Deployed \/ Restored \/ Undone
  BY <1>5, PutStep, DeployedStep, RestoredStep, UndoneStep
<1>6. CASE BackUpFails \/ PromotionFails \/ CleanFails \/ RotationFails \/ WriteFails
  BY <1>6, BackUpFailsStep, PromotionFailsStep, CleanFailsStep, RotationFailsStep,
     WriteFailsStep
<1>7. CASE BeginRollback \/ Exit \/ Kill \/ StartService \/ WriteData \/ StopService
  BY <1>7, BeginRollbackStep, ExitStep, KillStep, ServiceStep, WriteDataStep
<1> QED BY <1>1, <1>2, <1>3, <1>4, <1>5, <1>6, <1>7 DEF Next

-----------------------------------------------------------------------------
(* The invariant holds of every behaviour.                                 *)
LEMMA Invariance == Spec => []IInv
<1>1. IInv /\ [Next]_vars => IInv'
  BY IInvStep
<1> QED BY InitInv, <1>1, PTL DEF Spec

(* Types; the project stays as it is until its backup is in place, and the *)
(* module of the runtime lock is never missing, whatever the directories,  *)
(* versions and number of runs (_promote_latest_backup, _restore_snapshot).*)
THEOREM UpdateTypes == Spec => []TypeOK
<1>1. IInv => TypeOK
  BY DEF IInv
<1> QED BY <1>1, Invariance, PTL

(* A whole release with its data is left wherever an updater fails or is   *)
(* killed (create_latest_backup, rollback_latest).                         *)
THEOREM KeepsAWhole == Spec => []OneWhole
BY KeepsOneWhole, Invariance, PTL

(* An updater that returns has done all or nothing (update_project,        *)
(* rollback_latest).                                                       *)
THEOREM ReturnsAllOrNothing == Spec => []AllOrNothing
BY EndsAllOrNothing, Invariance, PTL

(* The service runs on a whole release, but after a cut or misled updater  *)
(* (acquire_runtime_lock, web.py).                                         *)
THEOREM ServesWhole == Spec => []ServiceWhole
<1>1. IInv => ServiceWhole
  BY DEF IInv, ServiceWhole
<1> QED BY <1>1, Invariance, PTL
====
