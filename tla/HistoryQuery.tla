---------------------------- MODULE HistoryQuery ----------------------------
(***************************************************************************)
(* server/history.js over the store: a range of readings as the charts     *)
(* want it, each of them or, if they are too many, the means of equal      *)
(* stretches of the range.  Asked for through routes/api/history and by    *)
(* the first render of the page.                                           *)
(*                                                                         *)
(* A reading stands for one charted field, which it carries within its     *)
(* limits or not; the value is its timestamp.  The width of a bucket is    *)
(* exact here and a floating-point number in the code, where a reading at  *)
(* the edge of two buckets may fall into either.                           *)
(***************************************************************************)
EXTENDS Store

CONSTANTS Carrying,   \* timestamps of the readings that carry the field
          MaxPoints,  \* MAX_POINTS
          Asked       \* values of points a request may have

ASSUME HistoryQueryAssumption ==
  /\ Carrying \subseteq Time
  /\ MaxPoints \in Nat \ {0} /\ Asked \subseteq Int

\* A request the route does not refuse.
Requests ==
  {r \in [from : 0 .. MaxTime + 1, to : 0 .. MaxTime + 1, points : Asked] :
     r.from < r.to}

Sum(ts) ==
  LET n == Len(ts)
      upTo[i \in 0 .. n] == IF i = 0 THEN 0 ELSE upTo[i - 1] + ts[i]
  IN  upTo[n]

\* What a reading adds to the count and to the total of the charted field.
Counted == [t \in Time |-> IF t \in Carrying THEN 1 ELSE 0]
Valued == [t \in Time |-> IF t \in Carrying THEN t ELSE 0]

(***************************************************************************)
(* A point: when, over how many readings that carry the field, and their   *)
(* sum; over none the point has no such field.  Math.round rounds up.      *)
(***************************************************************************)
Point(t, readings) ==
  [t |-> t, count |-> Sum([i \in DOMAIN readings |-> Counted[readings[i]]]),
            total |-> Sum([i \in DOMAIN readings |-> Valued[readings[i]]])]

project(t) == Point(t, <<t>>)

average(bucket) ==
  Point((2 * Sum(bucket) + Len(bucket)) \div (2 * Len(bucket)), bucket)

\* Mutant of BucketOf: the end of the range has a bucket of its own.
BucketOfUnclamped(t, from, to, points) == ((t - from) * points) \div (to - from)

BucketOf(t, from, to, points) ==
  LET index == ((t - from) * points) \div (to - from)
  IN  IF index < points THEN index ELSE points - 1

flush(state) ==
  IF state.bucket = << >> THEN state
  ELSE [state EXCEPT !.output = Append(@, average(state.bucket)), !.bucket = << >>]

\* The next reading goes into the bucket, or into the one after it, once it is averaged.
Entered(state, t, index) ==
  [(IF index # state.index THEN flush(state) ELSE state)
     EXCEPT !.index = index, !.bucket = Append(@, t)]

Buckets(readings, from, to, points) ==
  LET after[i \in 0 .. Len(readings)] ==
        IF i = 0 THEN [output |-> << >>, bucket |-> << >>, index |-> 0]
        ELSE Entered(after[i - 1], readings[i], BucketOf(readings[i], from, to, points))
  IN  flush(after[Len(readings)]).output

downsample(readings, from, to, points) ==
  IF Len(readings) <= points THEN [i \in DOMAIN readings |-> project(readings[i])]
  ELSE Buckets(readings, from, to, points)

BucketCount(r) ==
  IF r.points < 1 THEN 1 ELSE IF r.points <= MaxPoints THEN r.points ELSE MaxPoints

historyRange(s, r) ==
  downsample(readRange(s, r.from, r.to), r.from, r.to, BucketCount(r))

-----------------------------------------------------------------------------
(***************************************************************************)
(* Every reading of the range that carries the field counts in exactly one *)
(* point, whatever became of the files: no spike is dropped, none counted  *)
(* twice.                                                                  *)
(***************************************************************************)
EveryReadingCounts(readings, points) ==
  LET all == Point(0, readings)
  IN  /\ points = << >> <=> readings = << >>
      /\ Sum([i \in DOMAIN points |-> points[i].count]) = all.count
      /\ Sum([i \in DOMAIN points |-> points[i].total]) = all.total

(***************************************************************************)
(* An answer has no more points than were asked for; they are in order,    *)
(* no two at one time, within the range, and none lies in a gap: a reading *)
(* is at most the width of a bucket away.                                  *)
(***************************************************************************)
PointsInOrder(r, readings, points) ==
  LET near(p, t) == (IF p < t THEN t - p ELSE p - t) * BucketCount(r) <= r.to - r.from
  IN  /\ Len(points) <= BucketCount(r)
      /\ \A i \in DOMAIN points :
           /\ points[i].t \in r.from .. r.to
           /\ i > 1 => points[i - 1].t < points[i].t
           /\ \E t \in ToSet(readings) : near(points[i].t, t)

(***************************************************************************)
(* What a chart is given shows the whole range and nothing but the range,  *)
(* at a bounded size.  A sensor a cut write has put at risk may have       *)
(* readings out of order, and then more points than were asked for.        *)
(***************************************************************************)
ChartShowsRange ==
  \A s \in Sensor, r \in Requests :
    LET readings == readRange(s, r.from, r.to)
        points == historyRange(s, r)
    IN  /\ EveryReadingCounts(readings, points)
        /\ s \notin injured => PointsInOrder(r, readings, points)
=============================================================================
