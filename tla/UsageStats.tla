----------------------------- MODULE UsageStats -----------------------------
(* The statistics of one user: UsageStatsStore over SQLite, the retention  *)
(* manager that deletes old details, and the reports that read while both  *)
(* write.  db is the committed database, so that a transaction is one      *)
(* step, a crash keeps db, and the snapshot of a reading transaction is a  *)
(* copy of it.  Every event adds to all counters of its hourly row at      *)
(* once: a row is its number of requests and of latency samples.           *)
EXTENDS Integers, FiniteSets, SequencesExt

CONSTANTS None,
          Models, OldModels, \* the names of models, now and before the upgrade
          Other,           \* the bucket of the rest
          Hour, Retention, \* DETAIL_RETENTION_DAYS, in units of the clock
          Midnights,       \* the midnights of the viewer's time zone
          Ranges,          \* the ranges of time asked for
          BatchSize, PageSize, Readers,
          Histories,       \* what a database of version 3 has recorded
          MaxTime, MaxDuration, MaxEvents

ASSUME UsageAssumption ==
    /\ Models \subseteq Nat /\ OldModels \subseteq Nat
    /\ IsFiniteSet(Models) /\ IsFiniteSet(OldModels)
    /\ Other \in Nat \ (Models \union OldModels)
    /\ Hour \in Nat \ {0} /\ Retention \in Nat \ {0}
    /\ Midnights \subseteq Nat
    /\ \A range \in Ranges : range \in [from : Nat, to : Nat]
    /\ BatchSize \in Nat \ {0} /\ PageSize \in Nat \ {0}
    /\ MaxTime \in Nat /\ MaxDuration \in Nat
    /\ MaxEvents \in Nat
    /\ 2 * MaxDuration <= Retention
    /\ None \notin Int

VARIABLES now,               \* the clock; it is not set back
          db,                \* what is committed
          recorded,          \* history: every event ever committed
          retention,         \* the retention manager
          reader             \* the pages of one snapshot fetched so far

vars == <<now, db, recorded, retention, reader>>

Outcomes == {"success", "failure"}
Buckets == Models \union OldModels \union {Other}
HourOf(t) == (t \div Hour) * Hour
Hours == {HourOf(t) : t \in 0..MaxTime}
Keys == [hour : Hours, bucket : Buckets, outcome : Outcomes]
KeyOf(e) == [hour |-> HourOf(e.at), bucket |-> e.bucket, outcome |-> e.outcome]

(* A version 3 database: the bucket of each of its events is a model, and  *)
(* SQLite has numbered them.                                               *)
ASSUME HistoriesAreOld ==
    \A history \in Histories :
        /\ IsFiniteSet(history)
        /\ {e.id : e \in history} = 1..Cardinality(history)
        /\ history \subseteq [id : Nat, at : 0..MaxTime, bucket : OldModels,
                              outcome : Outcomes]

Sum(f, S) == FoldFunctionOnSet(LAMBDA n, m : n + m, 0, f, S)
Successes(E) == {e \in E : e.outcome = "success"}
Upto(id, E) == {e \in E : e.id <= id}
Counts(E) == [k \in Keys |-> Cardinality({e \in E : KeyOf(e) = k})]

-----------------------------------------------------------------------------
(* The tables.  Before version 4 the bucket of a row is the model's name.  *)
Empty == [version |-> 4, details |-> {}, hourly |-> Counts({}),
          latency |-> Counts({}), known |-> {}, cutoff |-> None, sequence |-> 0]

VersionThree(history, kept, cutoff) ==
    [version |-> 3, details |-> kept, hourly |-> Counts(history),
     latency |-> Counts(Successes(history)), known |-> {}, cutoff |-> cutoff,
     sequence |-> Cardinality(history)]

KnownAtUpgrade(d) ==
    {k.bucket : k \in {k \in Keys : d.hourly[k] > 0 /\ k.outcome = "success"}}

UpgradedBucket(known, row) ==
    IF row.outcome = "success" \/ row.bucket \in known THEN row.bucket ELSE Other

UpgradedNotSummed(known, rows) ==
    [k \in Keys |->
        LET old == {row \in Keys : /\ row.hour = k.hour
                                   /\ row.outcome = k.outcome
                                   /\ UpgradedBucket(known, row) = k.bucket}
        IN IF old = {} THEN 0 ELSE Max({rows[row] : row \in old})]

UpgradedRows(known, rows) ==
    [k \in Keys |->
        Sum(rows, {old \in Keys : /\ old.hour = k.hour
                                  /\ old.outcome = k.outcome
                                  /\ UpgradedBucket(known, old) = k.bucket})]

Upgraded(d) ==
    LET known == KnownAtUpgrade(d) IN
    [d EXCEPT !.version = 4, !.known = known,
              !.details = {[e EXCEPT !.bucket = UpgradedBucket(known, e)] : e \in @},
              !.hourly = UpgradedRows(known, @),
              !.latency = UpgradedRows(known, @)]

ResolvedBuckets(d, model, listed) ==
    IF listed THEN {model} ELSE ({model} \intersect d.known) \union {Other}

Registers(e, listed) ==
    e.bucket # Other /\ (listed \/ e.outcome = "success")

WithEvent(d, e, listed) ==
    [d EXCEPT !.details = @ \union {e}, !.sequence = e.id,
              !.hourly[KeyOf(e)] = @ + 1,
              !.latency[KeyOf(e)] = IF e.outcome = "success" THEN @ + 1 ELSE @,
              !.known = IF Registers(e, listed) THEN @ \union {e.bucket} ELSE @]

Older(e, f) == e.at < f.at \/ (e.at = f.at /\ e.id < f.id)

Batch(d, cutoff) ==
    LET old == {e \in d.details : e.at < cutoff} IN
    {e \in old : Cardinality({f \in old : Older(f, e)}) < BatchSize}

Later(cutoff, other) == IF cutoff = None \/ cutoff < other THEN other ELSE cutoff

CutoffWithLastBatch(d, cutoff) ==
    [d EXCEPT !.details = @ \ Batch(d, cutoff),
              !.cutoff = IF Cardinality(Batch(d, cutoff)) < BatchSize
                         THEN Later(@, cutoff) ELSE @]

CleanedUp(d, cutoff) ==
    [d EXCEPT !.details = @ \ Batch(d, cutoff), !.cutoff = Later(@, cutoff)]

-----------------------------------------------------------------------------
(* What a report counts: whole hours from the hourly rows, but the hours a *)
(* boundary cuts from the details, as long as these are kept.              *)
InHours(h, range) == HourOf(range.from) <= h /\ h < range.to
InRange(t, range) == range.from <= t /\ t < range.to
Fractional(t) == t % Hour # 0
Larger(a, b) == IF a < b THEN b ELSE a
Smaller(a, b) == IF a < b THEN a ELSE b

Whole(h, range) == [hour |-> h, from |-> Larger(h, range.from),
                    to |-> Smaller(h + Hour, range.to)]

EndSegments(range) ==
    {Whole(HourOf(t), range) : t \in {t \in {range.from, range.to} : Fractional(t)}}

MidnightSegments(range, clock, midnights) ==
    LET first == Larger(range.from, clock - Retention)
        end == Smaller(range.to, clock + 1) IN
    {Whole(HourOf(b), range) :
        b \in {b \in midnights : Fractional(b) /\ first < b /\ b < end}}

OldMidnight(range, clock, midnights) ==
    \E b \in midnights :
        Fractional(b) /\ range.from < b
                      /\ b < Smaller(range.to, clock - Retention)

Merged(S) ==
    {[hour |-> h, from |-> Min({s.from : s \in {s \in S : s.hour = h}}),
                  to |-> Max({s.to : s \in {s \in S : s.hour = h}})] :
        h \in {s.hour : s \in S}}

ExpiredKept(range, clock, midnights) ==
    LET all == Merged(EndSegments(range)
                      \union MidnightSegments(range, clock, midnights)) IN
    [segments |-> all, replaced |-> {s.hour : s \in all},
     exact |-> ~OldMidnight(range, clock, midnights)]

BoundaryDetailPlan(range, clock, midnights) ==
    LET all == Merged(EndSegments(range)
                      \union MidnightSegments(range, clock, midnights))
        kept == {s \in all : s.from >= clock - Retention} IN
    [segments |-> kept, replaced |-> {s.hour : s \in kept},
     exact |-> kept = all /\ ~OldMidnight(range, clock, midnights)]

(* Events recorded since the snapshot that the hourly rows already count.  *)
PostSnapshotEvents(d, range, plan, sequence) ==
    {e \in d.details : /\ e.id > sequence
                       /\ InHours(HourOf(e.at), range)
                       /\ HourOf(e.at) \notin plan.replaced}

DetailRows(d, range, plan, sequence) ==
    {e \in Upto(sequence, d.details) :
        InRange(e.at, range) /\ \E s \in plan.segments : InRange(e.at, s)}

(* stats_base, restricted to some times and buckets of its rows; sequence  *)
(* is the last event counted.                                              *)
Tally(d, range, plan, sequence, times, buckets) ==
    LET rows == {k \in Keys :
                    /\ InHours(k.hour, range) /\ k.hour \notin plan.replaced
                    /\ k.hour \in times /\ k.bucket \in buckets}
        after == {e \in PostSnapshotEvents(d, range, plan, sequence) :
                     HourOf(e.at) \in times /\ e.bucket \in buckets}
        cut == {e \in DetailRows(d, range, plan, sequence) :
                   e.at \in times /\ e.bucket \in buckets}
    IN [requests |-> Sum(d.hourly, rows) - Cardinality(after) + Cardinality(cut),
        samples |-> Sum(d.latency, rows) - Cardinality(Successes(after))
                                         + Cardinality(Successes(cut))]

Higher(a, b) == a.requests > b.requests \/ (a.requests = b.requests /\ a.id < b.id)

(* The order of a list: events, or the values of a ranking.                *)
Before(list, a, b) == IF list = "events" THEN a.id > b.id ELSE Higher(a, b)

Ordered(list, S) ==
    [n \in 1..Cardinality(S) |->
        CHOOSE e \in S : Cardinality({f \in S : Before(list, f, e)}) = n - 1]

Groups(d, range, plan, sequence) ==
    LET Value(b) == Tally(d, range, plan, sequence, 0..MaxTime, {b})
        items == {[id |-> b, requests |-> Value(b).requests,
                   samples |-> Value(b).samples] : b \in Buckets}
    IN {i \in items : i.requests > 0}

DimensionValues(d, range, clock, sequence) ==
    Groups(d, range, BoundaryDetailPlan(range, clock, {}), sequence)

Events(d, range, clock, sequence) ==
    {e \in Upto(sequence, d.details) :
        InRange(e.at, range) /\ e.at >= clock - Retention}

Periods == Midnights \union {0}
PeriodOf(t) == Max({p \in Periods : p <= t})
TimesIn(p) == {t \in 0..MaxTime : PeriodOf(t) = p}

-----------------------------------------------------------------------------
Recorded(history) ==
    {[e EXCEPT !.bucket =
        IF e.outcome = "success"
             \/ \E f \in Successes(history) : f.bucket = e.bucket
        THEN @ ELSE Other] : e \in history}

(* What the clean-ups of an older program have kept of the details; they   *)
(* left the same cutoff on record (usage_retention_state of version 2).    *)
Remains(history, cutoff) ==
    {kept \in SUBSET history :
        \A e \in history \ kept : /\ cutoff # None /\ e.at < cutoff
                                  /\ \A f \in kept : Older(e, f)}

NoReader == [r \in Readers |-> None]
Off == [at |-> "off"]

Init ==
    /\ now \in 0..MaxTime
    /\ \/ db = Empty /\ recorded = {} /\ now = 0
       \/ \E history \in Histories,
             cutoff \in {None} \union {t - Retention : t \in 0..now} :
             /\ \A e \in history : e.at <= now
             /\ \E kept \in Remains(history, cutoff) :
                   db = VersionThree(history, kept, cutoff)
             /\ recorded = Recorded(history)
    /\ retention = Off
    /\ reader = NoReader

Up == retention.at \in {"waiting", "cleaning"} /\ ~retention.stopping

(* The first connection finds an older database and upgrades it in one     *)
(* transaction; when that fails the next one tries again.                  *)
Upgrade ==
    /\ db.version = 3
    /\ db' = Upgraded(db)
    /\ UNCHANGED <<now, recorded, retention, reader>>

Tick ==
    /\ now < MaxTime
    /\ now' = now + 1
    /\ UNCHANGED <<db, recorded, retention, reader>>

-----------------------------------------------------------------------------
(* Time-outs keep requests and reports far shorter than the retention:     *)
(* neither takes longer than MaxDuration.                                  *)
Recent == {t \in 0..MaxTime : now - MaxDuration <= t /\ t <= now}
Soon == {t \in 0..MaxTime : now <= t /\ t <= now + MaxDuration}

(* record_event, when a request that began at most MaxDuration ago ends.   *)
(* The lookup of the bucket runs before the transaction begins, so that a  *)
(* registration that commits between the two is missed.  A write that      *)
(* fails is counted as dropped and changes nothing here.                   *)
RecordEvent(at, model, outcome, listed) ==
    /\ Up /\ db.version = 4 /\ Cardinality(recorded) < MaxEvents
    /\ outcome = "success" => listed
    /\ \E bucket \in ResolvedBuckets(db, model, listed) :
          LET e == [id |-> db.sequence + 1, at |-> at,
                    bucket |-> bucket, outcome |-> outcome] IN
          /\ db' = WithEvent(db, e, listed)
          /\ recorded' = recorded \union {e}
    /\ UNCHANGED <<now, retention, reader>>

-----------------------------------------------------------------------------
(* UsageStatsRetentionManager.  A clean-up reads the clock once and goes   *)
(* on, a transaction for each batch, until one is not full.                *)
Cleaning == retention.at \in {"startup", "cleaning"}

Startup ==
    /\ retention = Off /\ db.version = 4
    /\ retention' = [at |-> "startup", now |-> now, stopping |-> FALSE]
    /\ UNCHANGED <<now, db, recorded, reader>>

CleanUpBatch ==
    LET cutoff == retention.now - Retention IN
    /\ Cleaning
    /\ db' = CleanedUp(db, cutoff)
    /\ retention' = IF Cardinality(Batch(db, cutoff)) < BatchSize
                    THEN [retention EXCEPT !.at = "waiting", !.now = 0]
                    ELSE retention
    /\ UNCHANGED <<now, recorded, reader>>

FailureEndsTask ==
    /\ Cleaning
    /\ retention' = IF retention.at = "startup" THEN Off
                    ELSE [retention EXCEPT !.at = "ended", !.now = 0]
    /\ UNCHANGED <<now, db, recorded, reader>>

CleanUpFails ==
    /\ Cleaning
    /\ retention' = IF retention.at = "startup" THEN Off
                    ELSE [retention EXCEPT !.at = "waiting", !.now = 0]
    /\ UNCHANGED <<now, db, recorded, reader>>

WaitElapses ==
    /\ retention.at = "waiting" /\ ~retention.stopping
    /\ retention' = [retention EXCEPT !.at = "cleaning", !.now = now]
    /\ UNCHANGED <<now, db, recorded, reader>>

(* The pages already fetched are the client's, who may go on after a        *)
(* restart.                                                                *)
Shutdown ==
    /\ Up
    /\ retention' = [retention EXCEPT !.stopping = TRUE]
    /\ UNCHANGED <<now, db, recorded, reader>>

TaskReturns ==
    /\ retention.at = "waiting" /\ retention.stopping
    /\ retention' = Off
    /\ UNCHANGED <<now, db, recorded, reader>>

Crash ==
    /\ retention # Off
    /\ retention' = Off
    /\ UNCHANGED <<now, db, recorded, reader>>

-----------------------------------------------------------------------------
(* get_overview changes nothing: what it answers when its transaction sees *)
(* the present database.  It has read the clock before, up to MaxDuration. *)
ReadOverview(range, plan) ==
    [models |-> Ordered("values", Groups(db, range, plan, db.sequence)),
     rows |-> [p \in Periods |->
                 Tally(db, range, plan, db.sequence, TimesIn(p), Buckets)]]

Overview(range, clock) ==
    LET plan == BoundaryDetailPlan(range, clock, Midnights) IN
    [exact |-> plan.exact, told |-> ReadOverview(range, plan)]

(* The first page of a ranking or of the list of events: the first read    *)
(* fixes what the transaction sees, then the clock is read.                *)
Listed(list, d, range, clock, sequence) ==
    IF list = "events" THEN Events(d, range, clock, sequence)
    ELSE DimensionValues(d, range, clock, sequence)

(* Details a report at that clock may need are deleted.                    *)
Overtaken(cutoff, clock) == cutoff # None /\ cutoff > clock - Retention

(* get_event of an event on a page, under the snapshot of the page.         *)
GetEvent(id, o) ==
    {e \in Upto(o.sequence, db.details) : e.id = id /\ e.at >= o.clock - Retention}

(* A page of events goes on at an offset, a page of a ranking has the      *)
(* values below the cursor: the last value shown.                          *)
Following(list, shown, items) ==
    IF list = "events"
    THEN SubSeq(Ordered(list, items), Len(shown) + 1, Cardinality(items))
    ELSE Ordered(list, {i \in items : shown = << >> \/ Higher(Last(shown), i)})

Page(rest) == SubSeq(rest, 1, Smaller(PageSize, Len(rest)))

FirstPage(r, list, range, clock) ==
    /\ Up /\ reader[r] = None
    /\ reader' = [reader EXCEPT ![r] =
            [list |-> list, range |-> range, clock |-> clock,
             sequence |-> db.sequence,
             shown |-> Page(Ordered(list, Listed(list, db, range, clock,
                                                db.sequence)))]]
    /\ UNCHANGED <<now, db, recorded, retention>>

AlwaysAvailable(o) == o.sequence <= db.sequence

SnapshotAvailable(o) ==
    o.sequence <= db.sequence /\ ~Overtaken(db.cutoff, o.clock)

NextPage(r) ==
    LET o == reader[r]
        items == Listed(o.list, db, o.range, o.clock, o.sequence)
        page == Page(Following(o.list, o.shown, items)) IN
    /\ Up /\ o # None /\ o.clock <= now
    /\ SnapshotAvailable(o)
    /\ reader' = [reader EXCEPT ![r].shown = @ \o page]
    /\ UNCHANGED <<now, db, recorded, retention>>

PageRefused(r) ==
    /\ Up /\ reader[r] # None
    /\ ~SnapshotAvailable(reader[r])
    /\ reader' = [reader EXCEPT ![r] = None]
    /\ UNCHANGED <<now, db, recorded, retention>>

LeavePages(r) ==
    /\ reader[r] # None
    /\ reader' = [reader EXCEPT ![r] = None]
    /\ UNCHANGED <<now, db, recorded, retention>>

Next ==
    \/ Upgrade \/ Tick
    \/ \E at \in Recent, model \in Models, outcome \in Outcomes, listed \in BOOLEAN :
          RecordEvent(at, model, outcome, listed)
    \/ Startup \/ CleanUpBatch \/ CleanUpFails \/ WaitElapses
    \/ Shutdown \/ TaskReturns \/ Crash
    \/ \E r \in Readers :
          \/ \E list \in {"values", "events"}, range \in Ranges, clock \in Soon :
                FirstPage(r, list, range, clock)
          \/ NextPage(r) \/ PageRefused(r)
          \/ LeavePages(r)

(* The event loop runs the retention task, its waits end, and a database   *)
(* that can be reached again and again lets a batch through in the end.    *)
Fairness == /\ WF_vars(WaitElapses) /\ WF_vars(TaskReturns)
            /\ WF_vars(CleanUpBatch \/ CleanUpFails)
            /\ SF_vars(CleanUpBatch)

Spec == Init /\ [][Next]_vars /\ Fairness

-----------------------------------------------------------------------------
Rows == [id : Nat, at : 0..MaxTime, bucket : Buckets, outcome : Outcomes]

(* Types; the details are events that were recorded, under other ids each, *)
(* and none has an id beyond the sequence.                                 *)
TypeOK ==
    /\ now \in 0..MaxTime
    /\ recorded \subseteq Rows
    /\ db.version \in {3, 4}
    /\ db.hourly \in [Keys -> Nat] /\ db.latency \in [Keys -> Nat]
    /\ db.known \subseteq Models \union OldModels
    /\ db.cutoff \in Int \union {None}
    /\ \A e \in recorded : e.id \in 1..db.sequence
    /\ Cardinality(recorded) = db.sequence

(* "UTC hourly totals are kept for ever" (README.md:461): after the        *)
(* upgrade, failed writes, crashes and clean-ups every hourly row counts   *)
(* the events ever recorded in it, and its histogram the successful ones.  *)
HourlyTellsAll ==
    /\ TypeOK
    /\ db.version = 4 => /\ db.hourly = Counts(recorded)
                         /\ db.latency = Counts(Successes(recorded))

(* The details are what was recorded, in the bucket of their hourly row,   *)
(* but for what is older than the cutoff that is on record: a crash after  *)
(* any batch leaves no gap a later page could take for a quiet hour.       *)
DeletedBelowCutoff ==
    db.version = 4 =>
        /\ db.details \subseteq recorded
        /\ \A e \in recorded \ db.details :
              db.cutoff # None /\ e.at < db.cutoff

(* A report that calls itself exact counts in each period of its range the *)
(* events of that period, each once, from hourly rows and details          *)
(* together, and ranks the models by them.  It does not see that, since it *)
(* read its clock, a clean-up has gone further or a midnight has passed,   *)
(* nor that the oldest detail it may read begins at a midnight within an   *)
(* hour.  Open pages are nothing to it, so that the states without any are *)
(* enough.                                                                 *)
MidnightPassed(clock) ==
    \E e \in recorded, b \in Midnights : Fractional(b) /\ clock < b /\ b <= e.at
MidnightAtCutoff(range, clock) ==
    clock - Retention \in {b \in Midnights : Fractional(b) /\ range.from < b}

TrulyGrouped(In) ==
    {[id |-> b, requests |-> Cardinality(In[b]),
      samples |-> Cardinality(Successes(In[b]))] : b \in {b \in Buckets : In[b] # {}}}

TrulyIn(range, p) == {e \in recorded : InRange(e.at, range) /\ PeriodOf(e.at) = p}

OverviewExact ==
    reader = NoReader => \A range \in Ranges, clock \in Recent :
        LET answer == Overview(range, clock) IN
        db.version = 4 /\ answer.exact
            /\ ~Overtaken(db.cutoff, clock)
            /\ ~MidnightPassed(clock) /\ ~MidnightAtCutoff(range, clock)
        => /\ \A p \in Periods :
                 answer.told.rows[p] =
                     [requests |-> Cardinality(TrulyIn(range, p)),
                      samples |-> Cardinality(Successes(TrulyIn(range, p)))]
           /\ answer.told.models = Ordered("values", TrulyGrouped(
                 [b \in Buckets |-> {e \in recorded : InRange(e.at, range)
                                                       /\ e.bucket = b}]))

(* The pages fetched so far are the beginning of what the snapshot of the  *)
(* first page held, whatever was recorded or deleted since and across       *)
(* restarts: no value or event is left out or shown twice, and an event    *)
(* on a page can be opened as long as the snapshot is not refused.         *)
CountedAt(o, b) ==
    LET plan == BoundaryDetailPlan(o.range, o.clock, {}) IN
    {e \in Upto(o.sequence, recorded) :
        /\ e.bucket = b
        /\ IF HourOf(e.at) \in plan.replaced THEN InRange(e.at, o.range)
           ELSE InHours(HourOf(e.at), o.range)}

HeldAt(o) ==
    IF o.list = "events"
    THEN {e \in Upto(o.sequence, recorded) :
             InRange(e.at, o.range) /\ e.at >= o.clock - Retention}
    ELSE TrulyGrouped([b \in Buckets |-> CountedAt(o, b)])

AtSnapshot(o) == Ordered(o.list, HeldAt(o))

PagesTellSnapshot ==
    \A r \in Readers :
        LET o == reader[r] IN
        o # None =>
            /\ IsPrefix(o.shown, AtSnapshot(o))
            /\ o.list = "events" /\ SnapshotAvailable(o) =>
                  \A i \in 1..Len(o.shown) : GetEvent(o.shown[i].id, o) = {o.shown[i]}

(* The service is not behind for ever, whatever clean-ups fail or are cut  *)
(* short: expired details are deleted, and a shutdown ends.                *)
Behind ==
    /\ retention # Off
    /\ retention.stopping \/ \E e \in db.details : e.at < now - Retention

RetentionGoesOn == []<>~Behind
=============================================================================
