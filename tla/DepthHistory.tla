---------------------------- MODULE DepthHistory ----------------------------
(***************************************************************************)
(* What a heatmap chart remembers of an order book: per price level the    *)
(* runs of time over which an amount rested there (HistoricalDepth of      *)
(* src/data/src/chart/heatmap.rs), and the chart around it, which holds    *)
(* snapshots back while the user looks at the past and drops the oldest    *)
(* runs (HeatmapChart of src/src/chart/heatmap.rs).                        *)
(*                                                                         *)
(* Levels are prices already rounded to the chart's step.  A venue's book  *)
(* is not crossed and bids are rounded down and asks up, so no level has   *)
(* orders of both sides at once.                                           *)
(***************************************************************************)
EXTENDS Integers, Sequences, SequencesExt, FiniteSetsExt, Selection

CONSTANTS
  Levels,
  Quantities,
  Intervals,         \* aggr_time of the bases the user may choose
  CleanupThreshold,  \* CLEANUP_THRESHOLD: buckets of trades
  CleanupBatch,      \* CLEANUP_THRESHOLD / 10
  Similarity,        \* threshold of a CoalesceKind, in percent
  MaxMoment,         \* bound: time of the venue
  MaxSnapshots       \* bound: snapshots of the book

ASSUME DepthHistoryAssumption ==
  /\ Levels \subseteq Int /\ Quantities \subseteq Nat \ {0}
  /\ Intervals \subseteq Nat \ {0} /\ \E longest \in Intervals : \A i \in Intervals : i <= longest
  /\ CleanupThreshold \in Nat /\ CleanupBatch \in Nat
  /\ Similarity \in Nat /\ MaxMoment \in Nat /\ MaxSnapshots \in Nat

VARIABLES
  runs,          \* price_levels
  lastSnapshot,  \* last_snapshot_time, or Never
  interval,      \* aggr_time
  tradeBuckets,  \* the keys of the chart's trades
  paused,        \* the current book is out of sight
  pauseBuffer,   \* pause_buffer
  moment,        \* time of the venue's last snapshot
  snapshots,     \* how many there were
  sights,        \* history: what each bucket last saw of each level
  oldest         \* history: the runs that ended before it may be gone

historyVars == <<runs, lastSnapshot, interval, tradeBuckets, paused, pauseBuffer,
                 moment, snapshots, sights, oldest>>

Never    == -1
Nothing  == [qty |-> 0, isBid |-> FALSE]
Resting  == [qty : Quantities, isBid : BOOLEAN]
Moments  == 0 .. MaxMoment
Run      == [start : Moments, until : 0 .. MaxMoment + Max(Intervals), order : Resting]

Books == {b \in [Levels -> Resting \cup {Nothing}] :
            \A l, h \in Levels : l < h /\ b[h] # Nothing /\ b[h].isBid /\ b[l] # Nothing => b[l].isBid}

Bucket(t) == (t \div interval) * interval

TypeOKHistory ==
  /\ runs \in [Levels -> Seq(Run)]
  /\ lastSnapshot \in Moments \cup {Never}
  /\ interval \in Intervals
  /\ tradeBuckets \subseteq Moments
  /\ paused \in BOOLEAN
  /\ \A i \in DOMAIN pauseBuffer : pauseBuffer[i].time \in Moments /\ pauseBuffer[i].book \in Books
  /\ moment \in Moments /\ snapshots \in 0 .. MaxSnapshots
  /\ DOMAIN sights \subseteq Moments
  /\ \A t \in DOMAIN sights : sights[t] \in [Levels -> Resting \cup {Nothing}]
  /\ oldest \in Moments

-----------------------------------------------------------------------------
(* One level of a snapshot.                                                *)
NewRun(t, o)         == [start |-> t, until |-> t + interval, order |-> o]
EndLast(level, t)    == [level EXCEPT ![Len(level)].until = t]
CutLast(level, t)    == IF Last(level).until > t THEN EndLast(level, t) ELSE level
ExtendLast(level, t) == [level EXCEPT ![Len(level)].until = Max({@, t + interval})]

SameAmount(level, o) == Last(level).order.qty = o.qty
SameSide(level, o)   == Last(level).order.isBid = o.isBid

(* The level's last run ended before: it was not in the snapshots since,   *)
(* or there were none.                                                     *)
Reappears(level, t, o, gap) ==
  CASE ~gap                         -> Append(level, NewRun(t, o))
    [] gap /\ SameAmount(level, o)  -> ExtendLast(level, t)
    [] gap /\ ~SameAmount(level, o) -> Append(EndLast(level, t), NewRun(t, o))

UpdatePriceLevel(level, t, o, gap) ==
  CASE level = <<>>                                       -> <<NewRun(t, o)>>
    [] level # <<>> /\ SameSide(level, o) /\ t > Last(level).until -> Reappears(level, t, o, gap)
    [] level # <<>> /\ SameSide(level, o) /\ t <= Last(level).until /\ SameAmount(level, o)
         -> ExtendLast(level, t)
    [] OTHER -> Append(CutLast(level, t), NewRun(t, o))

(* A snapshot older than the last one is ignored; a level that is not in   *)
(* it is left as it is.                                                    *)
InsertLatestDepth(h, s) ==
  LET gap == h.last # Never /\ s.time > h.last + interval
  IN IF h.last # Never /\ s.time < h.last THEN h
     ELSE [last |-> s.time,
           runs |-> [l \in Levels |-> IF s.book[l] = Nothing THEN h.runs[l]
                                      ELSE UpdatePriceLevel(h.runs[l], s.time, s.book[l], gap)]]

InsertAll(h, ss) ==
  LET upTo[k \in 0 .. Len(ss)] == IF k = 0 THEN h ELSE InsertLatestDepth(upTo[k - 1], ss[k])
  IN upTo[Len(ss)]

CleanupOldPriceLevels(since) ==
  [l \in Levels |-> Only(runs[l], {r \in ToSet(runs[l]) : r.until >= since})]

-----------------------------------------------------------------------------
(* What the chart shows of a level at a time: the first run that covers it.*)
Covers(r, t) == r.start <= t /\ r.until > t

ShownIn(rs, t) ==
  LET covering == {i \in DOMAIN rs : Covers(rs[i], t)}
  IN IF covering = {} THEN Nothing ELSE rs[Min(covering)].order

Shown(l, t) == ShownIn(runs[l], t)

(* Runs next to each other and of a like size are drawn as one: merged is  *)
(* the list so far, whose last element still grows.                        *)
CoalesceKinds == {"first", "average", "max"}

NewCoalescing(r) ==
  [start |-> r.start, until |-> r.until, isBid |-> r.order.isBid, sum |-> r.order.qty, count |-> 1,
   first |-> r.order.qty, max |-> r.order.qty, least |-> r.order.qty]

AverageQty(c) == (c.sum + (c.count \div 2)) \div c.count

ComparisonQty(c, kind) == IF kind = "average" THEN AverageQty(c) ELSE c.first

WithinLotSimilarity(base, qty) == Max({base - qty, qty - base}) * 100 <= base * Similarity

MergeRun(c, r) ==
  [c EXCEPT !.until = Max({@, r.until}), !.sum = @ + r.order.qty, !.count = @ + 1,
            !.max = Max({@, r.order.qty}), !.least = Min({@, r.order.qty})]

OnAnySide(c, r, kind) ==                                        \* mutant of Joins
  r.start <= c.until /\ WithinLotSimilarity(ComparisonQty(c, kind), r.order.qty)

Joins(c, r, kind) ==
  /\ r.start <= c.until /\ r.order.isBid = c.isBid
  /\ WithinLotSimilarity(ComparisonQty(c, kind), r.order.qty)

Coalesce(rs, kind) ==
  LET with(merged, r) ==
        IF merged # <<>> /\ Joins(Last(merged), r, kind)
        THEN [merged EXCEPT ![Len(merged)] = MergeRun(@, r)]
        ELSE Append(merged, NewCoalescing(r))
      upTo[k \in 0 .. Len(rs)] == IF k = 0 THEN <<>> ELSE with(upTo[k - 1], rs[k])
  IN upTo[Len(rs)]

FinalQty(c, kind) ==
  CASE kind = "average" -> AverageQty(c) [] kind = "first" -> c.first [] kind = "max" -> c.max

CoalescedRuns(l, kind) ==
  LET merged == Coalesce(runs[l], kind)
  IN [i \in DOMAIN merged |->
        [start |-> merged[i].start, until |-> merged[i].until,
         order |-> [qty |-> FinalQty(merged[i], kind), isBid |-> merged[i].isBid]]]

-----------------------------------------------------------------------------
HistoryInit ==
  /\ runs = [l \in Levels |-> <<>>] /\ lastSnapshot = Never
  /\ interval \in Intervals
  /\ tradeBuckets = {} /\ paused = FALSE /\ pauseBuffer = <<>>
  /\ moment = 0 /\ snapshots = 0
  /\ sights = <<>> /\ oldest = 0

(* The history variable: a snapshot counts when it will not be ignored.    *)
Accepted(t) ==
  /\ lastSnapshot # Never => t >= lastSnapshot
  /\ paused \/ \A i \in DOMAIN pauseBuffer : t >= pauseBuffer[i].time

Seen(past, s) ==
  [t \in DOMAIN past \cup {s.time} |->
     IF t # s.time THEN past[t]
     ELSE [l \in Levels |-> IF s.book[l] = Nothing /\ t \in DOMAIN past THEN past[t][l] ELSE s.book[l]]]

SeenAll(ss) ==
  LET upTo[k \in 0 .. Len(ss)] == IF k = 0 THEN <<>> ELSE Seen(upTo[k - 1], ss[k])
  IN upTo[Len(ss)]

AsTheyCame == pauseBuffer                                       \* mutant of SortedBuffer

(* sort_by_key is stable: a snapshot comes after those of its own time.    *)
Before(ss, s) == {u \in ToSet(ss) : u.time <= s.time}
SortedIn(ss, s) == Only(ss, Before(ss, s)) \o <<s>> \o Only(ss, ToSet(ss) \ Before(ss, s))

ByTime(ss) ==
  LET upTo[k \in 0 .. Len(ss)] == IF k = 0 THEN <<>> ELSE SortedIn(upTo[k - 1], ss[k])
  IN upTo[Len(ss)]

SortedBuffer == ByTime(pauseBuffer)

(* The oldest buckets of trades go when there are too many, and with them  *)
(* the runs that ended before the ones that stay.                          *)
CleansUp == Cardinality(tradeBuckets) > CleanupThreshold
Dropped  == {t \in tradeBuckets : Cardinality({u \in tradeBuckets : u < t}) < CleanupBatch}
Kept     == tradeBuckets \ Dropped

Process(s) ==
  LET cleans   == pauseBuffer = <<>> /\ CleansUp
      cleaned  == IF cleans /\ Kept # {} THEN CleanupOldPriceLevels(Min(Kept)) ELSE runs
      inserted == InsertAll([last |-> lastSnapshot, runs |-> cleaned], Append(SortedBuffer, s))
  IN /\ runs' = inserted.runs /\ lastSnapshot' = inserted.last
     /\ pauseBuffer' = <<>>
     /\ tradeBuckets' = IF cleans THEN Kept ELSE tradeBuckets
     /\ oldest' = IF cleans /\ Kept # {} THEN Max({oldest, Min(Kept)}) ELSE oldest

(* A snapshot of the venue, no more than a moment late.                    *)
InsertDepth(book, t) ==
  LET s == [time |-> Bucket(t), book |-> book]
  IN /\ snapshots < MaxSnapshots /\ snapshots' = snapshots + 1
     /\ t >= moment - 1 /\ moment' = Max({moment, t})
     /\ sights' = IF Accepted(s.time) THEN Seen(sights, s) ELSE sights
     /\ IF paused
        THEN pauseBuffer' = Append(pauseBuffer, s) /\ UNCHANGED <<runs, lastSnapshot, tradeBuckets, oldest>>
        ELSE Process(s)
     /\ UNCHANGED <<interval, paused>>

HeatmapTrades ==
  /\ tradeBuckets' = tradeBuckets \cup {Bucket(moment)}
  /\ UNCHANGED <<runs, lastSnapshot, interval, paused, pauseBuffer, moment, snapshots, sights, oldest>>

Pan ==
  /\ paused' = ~paused
  /\ UNCHANGED <<runs, lastSnapshot, interval, tradeBuckets, pauseBuffer, moment, snapshots, sights, oldest>>

(* A new basis or price step starts a new history.  What was held back is  *)
(* not dropped: it goes into the new history, with the times it had.       *)
StartOver ==
  /\ runs' = [l \in Levels |-> <<>>] /\ lastSnapshot' = Never /\ tradeBuckets' = {}
  /\ oldest' = 0
  /\ sights' = SeenAll(SortedBuffer)
  /\ UNCHANGED <<pauseBuffer, moment, snapshots>>

HeatmapBasis(i) == i # interval /\ interval' = i /\ paused' = FALSE /\ StartOver

HeatmapTickSize == StartOver /\ UNCHANGED <<interval, paused>>

HistoryNext ==
  \/ \E book \in Books, t \in Moments : InsertDepth(book, t)
  \/ HeatmapTrades
  \/ Pan
  \/ \E i \in Intervals : HeatmapBasis(i)
  \/ HeatmapTickSize

-----------------------------------------------------------------------------
(* The runs of a level follow each other in time and do not overlap, also  *)
(* where held back snapshots, late ones and gaps come together: the chart  *)
(* draws each of them as a box of its own (update_price_level).            *)
InOrder(rs) ==
  /\ \A i \in DOMAIN rs : rs[i].start <= rs[i].until
  /\ \A i \in 1 .. Len(rs) - 1 : rs[i].until <= rs[i + 1].start

RunsInOrder == \A l \in Levels : InOrder(runs[l])

(* With nothing held back, the chart shows of every bucket what the bucket *)
(* last saw of each level, whatever came after it: later changes, gaps, a  *)
(* pause, a clean-up.                                                      *)
Settled == pauseBuffer = <<>>

SightsAreShown ==
  Settled =>
    \A t \in DOMAIN sights, l \in Levels :
      t >= oldest /\ sights[t][l] # Nothing => Shown(l, t) = sights[t][l]

(* An order that was not in the book of a bucket is not shown there, with  *)
(* one exception: when it is seen again right after a gap, its last run is *)
(* drawn over everything since.  Snapshots held back over a change of the  *)
(* basis are left out, as their times are not buckets of the new one.      *)
AfterGap(t) == \A u \in DOMAIN sights : u < t => u + interval < t

SeenAgainAfterGap(l, t) ==
  LET later == {u \in DOMAIN sights : u > t /\ sights[u][l] # Nothing}
  IN later # {} /\ AfterGap(Min(later))

NothingIsInvented ==
  Settled /\ (\A t \in DOMAIN sights : t % interval = 0) =>
    \A t \in DOMAIN sights, l \in Levels :
      t >= oldest /\ sights[t][l] = Nothing => Shown(l, t) = Nothing \/ SeenAgainAfterGap(l, t)

(* Joining runs of a like size changes no box's place: the joined runs are *)
(* in order, cover the times the runs covered, on the same side, and have  *)
(* a size between the smallest and the largest they were made of.          *)
Between(l, kind) ==
  LET merged == Coalesce(runs[l], kind)
  IN \A i \in DOMAIN merged : FinalQty(merged[i], kind) \in merged[i].least .. merged[i].max

CoalescingKeepsThePlaces ==
  \A l \in {m \in Levels : runs[m] # <<>>}, kind \in CoalesceKinds :
    LET joined == CoalescedRuns(l, kind)
    IN /\ InOrder(joined) /\ Between(l, kind)
       /\ \A t \in Moments :
            /\ (ShownIn(joined, t) = Nothing) = (Shown(l, t) = Nothing)
            /\ ShownIn(joined, t).isBid = Shown(l, t).isBid

(* The heatmap is the history of the book: what was seen, in order, and    *)
(* nothing else, whether runs are drawn alone or joined.                   *)
HistoryIsTrue == RunsInOrder /\ SightsAreShown /\ NothingIsInvented /\ CoalescingKeepsThePlaces

HistorySpec == HistoryInit /\ [][HistoryNext]_historyVars
=============================================================================
