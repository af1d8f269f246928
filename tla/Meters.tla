------------------------------- MODULE Meters -------------------------------
(***************************************************************************)
(* The readings of one utility meter: UtilitiesService.  A reading carries *)
(* the value before it and the consumption in between, so every change in  *)
(* the past has to be carried along the chain of later readings.           *)
(*                                                                         *)
(* Three handlers (syncEvnReadings, voidReading, updateReading) do that in *)
(* a transaction that first locks the row of the meter; an INSERT of a     *)
(* reading waits for that lock too, through its foreign key.  They are one *)
(* action each, after the reading that void and update look at before they *)
(* lock.  The other handlers use no transaction: each of their writes is a *)
(* step, and what they read before it may be out of date.                  *)
(***************************************************************************)
EXTENDS Integers, FiniteSets

CONSTANTS
  Ids,        \* identifiers of readings
  Values,     \* what the meter may show
  LastTime,   \* the last instant at which something is read
  Window,     \* two minutes: readings this close count as one
  Handlers,   \* the calls that clients make in this instance
  MaxCalls,   \* how many calls clients make
  MaxBatch,   \* how many values a synchronisation brings
  None        \* no value

VARIABLES
  readings,   \* the readings stored, a function on their identifiers
  last,       \* lastReadingValue of the meter
  now,        \* the clock
  open,       \* the calls under way
  mended,     \* from when on the last synchronisation has the chain right
  calls

vars == <<readings, last, now, open, mended, calls>>

Times == 0..LastTime

\* A table with one row written.
Put(rows, id, row) ==
  [i \in DOMAIN rows \cup {id} |-> IF i = id THEN row ELSE rows[i]]

Live(rows) == {i \in DOMAIN rows : ~rows[i].voided}

\* The order of the chain: by time, and then by identifier.
Precedes(rows, i, j) ==
  \/ rows[i].at < rows[j].at
  \/ rows[i].at = rows[j].at /\ i < j

Before(rows, i) == {j \in Live(rows) : Precedes(rows, j, i)}

\* The last of some readings.
LastOf(rows, ids) == CHOOSE i \in ids : \A j \in ids \ {i} : Precedes(rows, j, i)

FaultConsumed(from, to) == to - from

\* The consumption is None while it is not calculated, and where the meter went
\* backwards.
Consumed(from, to) == IF to >= from THEN to - from ELSE 0
-----------------------------------------------------------------------------
\* A reading after recalculatePointTimeline: the first of the history keeps
\* the value it started from, unless it is a baseline.
Chained(rows, i) ==
  LET row == rows[i]
      start == IF row.baseline \/ row.prev = None THEN row.value ELSE row.prev
      from == rows[LastOf(rows, Before(rows, i))].value
  IN  IF Before(rows, i) = {}
      THEN [row EXCEPT !.prev = start, !.used = Consumed(start, row.value)]
      ELSE [row EXCEPT !.prev = from,
                       !.used = IF row.value < from THEN None
                                ELSE row.value - from]

\* recalculatePointTimeline: every reading from a date on, in order.
Recalculated(rows, from) ==
  [i \in DOMAIN rows |->
     IF i \in Live(rows) /\ rows[i].at >= from THEN Chained(rows, i)
     ELSE rows[i]]

\* Without a reading from that date on it returns early and leaves the meter
\* alone; otherwise the meter shows the latest reading.
ShownAfter(rows, from) ==
  IF \E i \in Live(rows) : rows[i].at >= from
  THEN rows[LastOf(rows, Live(rows))].value
  ELSE last

\* The end of a transaction that locked the meter.
Recalculate(rows, from) ==
  /\ readings' = Recalculated(rows, from)
  /\ last' = ShownAfter(rows, from)
-----------------------------------------------------------------------------
NewReading(at, value, prev, used, cycle, baseline) ==
  [at |-> at, value |-> value, prev |-> prev, used |-> used, cycle |-> cycle,
   baseline |-> baseline, voided |-> FALSE]

Free == Ids \ DOMAIN readings

\* A meter that people and synchronisations have read so far, or nobody.  A
\* value that comes shortly after a reading is not a reading of its own.
Init ==
  /\ \E times \in SUBSET {t \in Ids : t < LastTime} :
     \E values \in [times -> Values], synced \in SUBSET times :
       /\ \A t \in synced : times \cap (t - Window)..(t - 1) = {}
       /\ readings = Recalculated([t \in times |->
                        IF t \in synced
                        THEN NewReading(t, values[t], None, None, t, FALSE)
                        ELSE NewReading(t, values[t], 0, None, None, FALSE)], 0)
       /\ last = IF times = {} THEN 0
                 ELSE readings[LastOf(readings, times)].value
  /\ now = LastTime - 1
  /\ open = {}
  /\ mended = 0
  /\ calls = 0

Call(handler) ==
  /\ handler \in Handlers
  /\ calls < MaxCalls
  /\ calls' = calls + 1

Begin(call) == open' = open \cup {call}
Continue(t, next) == open' = (open \ {t}) \cup {next}
End(t) == open' = open \ {t}
-----------------------------------------------------------------------------
(* Handlers under the lock of the meter.                                   *)

\* syncEvnReadings: a batch of values by time, some of them 'timed' with the
\* cycle they were read for.  A reading of that cycle, or at its time, takes the
\* new value, and else one within two minutes, whichever the database finds
\* first; where there is none it is added, with nothing calculated.
OfCycle(rows, at) ==
  {i \in Live(rows) : rows[i].cycle = at \/ rows[i].at = at}

Nearby(rows, at) ==
  {i \in Live(rows) : rows[i].at \in (at - Window)..(at + Window)}

Matches(rows, at, timed) ==
  IF at \in timed /\ OfCycle(rows, at) # {} THEN OfCycle(rows, at)
  ELSE Nearby(rows, at)

\* What a value without a cycle meets keeps the cycle it has.
Upserted(rows, id, at, value, timed) ==
  IF id \in DOMAIN rows
  THEN Put(rows, id, [rows[id] EXCEPT !.value = value,
                                      !.cycle = IF at \in timed THEN at ELSE @])
  ELSE Put(rows, id, NewReading(at, value, None, None,
                                IF at \in timed THEN at ELSE None, FALSE))

\* The values are taken in order of time; the id of each is that of the
\* reading it meets, or a new one.
Synced(rows, ids, items, timed) ==
  LET upTo[n \in 0..LastTime + 1] ==
        IF n = 0 THEN rows
        ELSE IF n - 1 \in DOMAIN items
             THEN Upserted(upTo[n - 1], ids[n - 1], n - 1, items[n - 1], timed)
             ELSE upTo[n - 1]
  IN  upTo

Fits(rows, ids, items, timed) ==
  LET upTo == Synced(rows, ids, items, timed) IN
  \A at \in DOMAIN items :
    LET found == Matches(upTo[at], at, timed) IN
    IF found = {} THEN ids[at] \notin DOMAIN upTo[at] ELSE ids[at] \in found

\* The chain is mended from the first value of the batch on, and not from the
\* reading that value went to, which may have been read before it.
syncEvnReadings(items, timed) ==
  LET from == CHOOSE a \in DOMAIN items : \A b \in DOMAIN items : a <= b IN
  /\ Call("syncEvnReadings")
  /\ \E ids \in [DOMAIN items -> Ids] :
       LET synced == Synced(readings, ids, items, timed)[LastTime + 1] IN
       /\ Fits(readings, ids, items, timed)
       /\ Recalculate(synced, from)
       /\ mended' = IF \E at \in DOMAIN items : synced[ids[at]].at < from
                    THEN from ELSE 0
  /\ UNCHANGED <<now, open>>

\* voidReading and updateReading read the reading, and lock the meter then.
voidReading(i) ==
  /\ Call("voidReading")
  /\ ~readings[i].voided
  /\ Begin([do |-> "void", id |-> i, row |-> readings[i]])
  /\ UNCHANGED <<readings, last, now, mended>>

Void(t) ==
  /\ t.do = "void"
  /\ Recalculate([readings EXCEPT ![t.id].voided = TRUE], t.row.at)
  /\ End(t)
  /\ UNCHANGED <<now, calls, mended>>

\* What the caller does not name is written back as it was read.
updateReading(i) ==
  /\ Call("updateReading")
  /\ \E value \in Values, at \in {a \in Times : a <= now} :
       Begin([do |-> "update", id |-> i, row |-> readings[i],
              value |-> value, at |-> at])
  /\ UNCHANGED <<readings, last, now, mended>>

Earlier(a, b) == IF a < b THEN a ELSE b

FaultAffected(t) == t.at

Affected(t) == Earlier(t.at, t.row.at)

Update(t) ==
  /\ t.do = "update"
  /\ Recalculate([readings EXCEPT ![t.id].value = t.value, ![t.id].at = t.at],
                 Affected(t))
  /\ End(t)
  /\ UNCHANGED <<now, calls, mended>>
-----------------------------------------------------------------------------
(* Handlers without a transaction.                                         *)

\* The readings at the latest time: which of them comes first is open.
Newest(ids) == {i \in ids : \A j \in ids : readings[j].at <= readings[i].at}

\* recordReading refuses a value below the one it read.
Refused(prev, value) == prev > 0 /\ value < prev

recordReading(value) ==
  LET live == Newest(Live(readings)) IN
  /\ Call("recordReading")
  /\ \E prev \in IF live = {} THEN {last} ELSE {readings[i].value : i \in live} :
       /\ ~Refused(prev, value)
       /\ Begin([do |-> "record", value |-> value, prev |-> prev])
  /\ UNCHANGED <<readings, last, now, mended>>

Show(t, value) ==
  [do |-> "show", value |-> value, then |-> t]

Record(t) ==
  /\ t.do = "record"
  /\ \E id \in Free : readings' =
       Put(readings, id, NewReading(now, t.value, t.prev,
                                    Consumed(t.prev, t.value), None, FALSE))
  /\ Continue(t, Show(None, t.value))
  /\ UNCHANGED <<last, now, calls, mended>>

\* Every handler writes lastReadingValue in a statement of its own.
SetShown(t) ==
  /\ t.do = "show"
  /\ last' = t.value
  /\ IF t.then = None THEN End(t) ELSE Continue(t, t.then)
  /\ UNCHANGED <<readings, now, calls, mended>>

\* setBaselineReading looks at the latest reading, voided ones included: one
\* without consumption takes the new value, whatever came before it.
setBaselineReading(value) ==
  LET newest == Newest(DOMAIN readings) IN
  /\ Call("setBaselineReading")
  /\ \E i \in IF newest = {} THEN {None} ELSE newest :
       Begin(Show([do |-> "baseline", value |-> value, id |-> i,
                   fresh |-> i = None,
                   idle |-> i # None /\ readings[i].used = 0],
                  value))
  /\ UNCHANGED <<readings, last, now, mended>>

Baseline(t) ==
  /\ t.do = "baseline"
  /\ IF t.idle
     THEN readings' = [readings EXCEPT ![t.id].value = t.value,
                         ![t.id].prev = t.value, ![t.id].baseline = TRUE]
     ELSE \E id \in Free : readings' =
            Put(readings, id, NewReading(now, t.value, t.value, 0, None, t.fresh))
  /\ End(t)
  /\ UNCHANGED <<last, now, calls, mended>>

\* setPeriodBaseline for the period that starts at 0 and has not ended: the
\* reading at the start, then the latest one after it, then the meter.
setPeriodBaseline(value) ==
  /\ Call("setPeriodBaseline")
  /\ \E current \in Values \cup {None} :
       Begin([do |-> "period", value |-> value,
              current |-> IF current # None THEN current
                          ELSE IF last > value THEN last ELSE value,
              starts |-> {i \in DOMAIN readings : readings[i].at = 0}])
  /\ UNCHANGED <<readings, last, now, mended>>

\* A current value below the baseline is refused after the baseline was
\* written.
PeriodStart(t) ==
  LET later == {i \in DOMAIN readings : readings[i].at > 0} IN
  /\ t.do = "period"
  /\ IF t.starts # {}
     THEN \E i \in t.starts : readings' =
            [readings EXCEPT ![i].value = t.value, ![i].prev = t.value,
                             ![i].used = 0, ![i].baseline = TRUE]
     ELSE \E id \in Free : readings' =
            Put(readings, id, NewReading(0, t.value, t.value, 0, None, TRUE))
  /\ IF t.current < t.value THEN End(t)
     ELSE IF t.current = t.value THEN Continue(t, Show(None, t.value))
     ELSE Continue(t, [do |-> "current", value |-> t.value,
                       current |-> t.current, ids |-> Newest(later)])
  /\ UNCHANGED <<last, now, calls, mended>>

PeriodCurrent(t) ==
  /\ t.do = "current"
  /\ IF t.ids # {}
     THEN \E i \in t.ids : readings' =
            [readings EXCEPT ![i].value = t.current, ![i].prev = t.value,
                 ![i].used = Consumed(t.value, t.current), ![i].baseline = FALSE]
     ELSE \E id \in Free : readings' =
            Put(readings, id, NewReading(now, t.current, t.value,
                                Consumed(t.value, t.current), None, FALSE))
  /\ Continue(t, Show(None, t.current))
  /\ UNCHANGED <<last, now, calls, mended>>

\* recalculateReadings: the whole history, as read and without the lock.  A
\* decrease counts as no consumption here.  The meter is written when what it
\* shows, or since when, was not that of the latest reading.
Normalised(rows, i) ==
  LET row == Chained(rows, i) IN
  [row EXCEPT !.used = IF @ = None THEN 0 ELSE @]

Figure(used) == IF used = None THEN 0 ELSE used

Differs(row, new) == row.prev # new.prev \/ Figure(row.used) # new.used

recalculateReadings ==
  /\ Call("recalculateReadings")
  /\ Live(readings) # {}
  /\ Begin([do |-> "recalculate", rows |-> readings, shown |-> last])
  /\ UNCHANGED <<readings, last, now, mended>>

WriteBack(t) ==
  LET changed == {i \in Live(t.rows) :
                    Differs(t.rows[i], Normalised(t.rows, i))}
      latest == t.rows[LastOf(t.rows, Live(t.rows))].value
  IN  /\ t.do = "recalculate"
      /\ readings' = [i \in DOMAIN readings |->
           IF i \in changed
           THEN [readings[i] EXCEPT !.prev = Normalised(t.rows, i).prev,
                                    !.used = Normalised(t.rows, i).used]
           ELSE readings[i]]
      /\ \/ Continue(t, Show(None, latest))
         \/ t.shown = latest /\ End(t)
      /\ UNCHANGED <<last, now, calls, mended>>

Tick ==
  /\ now < LastTime
  /\ now' = now + 1
  /\ UNCHANGED <<readings, last, open, calls, mended>>

Batches == UNION {[times -> Values] :
                    times \in {s \in SUBSET (0..now) :
                                 s # {} /\ Cardinality(s) <= MaxBatch}}

Step(t) ==
  \/ Void(t) \/ Update(t) \/ Record(t) \/ SetShown(t) \/ Baseline(t)
  \/ PeriodStart(t) \/ PeriodCurrent(t) \/ WriteBack(t)

Next ==
  \/ \E items \in Batches : \E timed \in SUBSET DOMAIN items :
       syncEvnReadings(items, timed)
  \/ \E i \in DOMAIN readings : voidReading(i) \/ updateReading(i)
  \/ \E value \in Values :
       recordReading(value) \/ setBaselineReading(value)
         \/ setPeriodBaseline(value)
  \/ recalculateReadings
  \/ \E t \in open : Step(t)
  \/ Tick

Spec == Init /\ [][Next]_vars
-----------------------------------------------------------------------------
(* Properties.                                                             *)

Amount == Nat \cup {None}

Reading == [at : Times, value : Nat, prev : Amount, used : Amount,
            cycle : Times \cup {None}, baseline : BOOLEAN, voided : BOOLEAN]

\* Every reading and what the meter shows keep their types.
TypeOK ==
  /\ DOMAIN readings \subseteq Ids
  /\ readings \in [DOMAIN readings -> Reading]
  /\ last \in Nat
  /\ now \in Times /\ mended \in Times
  /\ calls \in 0..MaxCalls

\* Every live reading from a time on continues the live reading before it.
ChainFrom(rows, time) ==
  \A i \in Live(rows) : rows[i].at >= time /\ Before(rows, i) # {} =>
    LET from == rows[LastOf(rows, Before(rows, i))].value IN
    /\ rows[i].prev = from
    /\ rows[i].used = IF rows[i].value < from THEN None ELSE rows[i].value - from

ChainIntact(rows) == ChainFrom(rows, 0)

\* What a call under way read is still what it will work on.
Current(t) ==
  \/ t.do \in {"void", "update"} /\ readings[t.id].at = t.row.at
  \/ /\ t.do = "record"
     /\ Live(readings) # {}
     /\ t.prev = readings[LastOf(readings, Live(readings))].value
     /\ t.value >= t.prev
     /\ \A i \in Live(readings) : readings[i].at < now

\* The chain stays whole, however the calls overlap: a call breaks it only when
\* the reading it works on was moved since it looked, or when it is one of
\* those that never mend it (baselines and the unlocked recalculation).  A
\* synchronisation leaves it whole from its first value on, and altogether
\* unless a value went to a reading of before that.
KeepsChain ==
  ChainIntact(readings) =>
    /\ open' = open => ChainFrom(readings', mended')
    /\ (\E t \in open \ open' : Current(t)) => ChainIntact(readings')

\* The meter shows the latest reading that is not voided.
ShowsLatest ==
  Live(readings) # {} => last = readings[LastOf(readings, Live(readings))].value

\* A locked call keeps what the meter shows up to date, unless it voids the
\* latest reading, or gives a new value to no reading but one of before that
\* value.
KeepsShown ==
  /\ ShowsLatest
  /\ \/ open' = open /\ \E i \in Live(readings') : readings'[i].at >= mended'
     \/ \E t \in open \ open' :
          \/ t.do = "update"
          \/ t.do = "void" /\ \E i \in Live(readings) \ {t.id} :
               readings[i].at >= t.row.at
  => ShowsLatest'
=============================================================================
