------------------------------ MODULE TxChart ------------------------------
(***************************************************************************)
(* Transactions over time (transactions-over-time.ts): one chart put       *)
(* together from the store's recorded per-minute counts, up to where the   *)
(* newest of them ends, and from counts of the log after that - or from    *)
(* the log alone on a store without the ruler.                             *)
(*                                                                         *)
(* The state is one chart, as it counts one line of the log: counts add    *)
(* up, so a chart is right when every line is counted once.  Times are     *)
(* whole numbers of some unit of the clock, which the real seconds are.    *)
(***************************************************************************)
EXTENDS Integers, FiniteSets, FiniteSetsExt

CONSTANTS
  Minute,         \* the ruler's interval, and the minute one sample counts
  Shift,          \* SAMPLE_SHIFT_SEC: a sample counts lines up to this before it
  Lag,            \* RECORDED_LAG_SEC
  Lookback,       \* how far back the store's instant reads see a sample
  BarStep,        \* the step of a bar (errorBuckets)
  Ranges,         \* the lengths a window may have
  ChartTimes      \* bound: when a chart is read

ASSUME ChartAssumption ==
  /\ {Minute, Shift, Lag, Lookback, BarStep} \subseteq Nat \ {0}
  /\ Shift < Minute /\ Lag = 2 * Minute /\ Lookback > Minute
  /\ BarStep % Minute = 0 /\ BarStep > Lag
  /\ Ranges \subseteq Nat \ {0} /\ ChartTimes \subseteq Nat

VARIABLE chart    \* the request, one line of the log, and where that is counted

Unread == [now |-> 0, range |-> 0, line |-> 0, first |-> 0,
           whole |-> TRUE, from |-> 0, at |-> {}]
ChartInit == chart = Unread

FloorTo(t, n) == (t \div n) * n
CeilTo(t, n) == FloorTo(t + n - 1, n)

\* bucketGrid(): bars are named by their ends; the last may be filling.
FirstBar(now, range) == FloorTo(now - range, BarStep) + BarStep
LastFull(now) == FloorTo(now, BarStep)
Bars(now, range) == {t \in FirstBar(now, range)..CeilTo(now, BarStep) : t % BarStep = 0}

\* add(): the bar a count up to t is put in, if the chart has it.
Added(S, now, range) ==
  {c \in {[read |-> c.read, bar |-> CeilTo(c.to, BarStep)] : c \in S} : c.bar \in Bars(now, range)}

\* A count read by name `read`, over (to - long, to].
Counts(read, to, long) == [read |-> <<read, to>>, to |-> to, long |-> long]
Seen(S, t) == {c \in S : c.to - c.long < t /\ t <= c.to}

-----------------------------------------------------------------------------
(* What the store's ruler recorded: evaluated each minute at a second of    *)
(* its own, a sample only where there was a line to count.  External.       *)

SampleOf(line, phase) ==
  CHOOSE e \in (line + Shift)..(line + Shift + Minute - 1) : e % Minute = phase

Evaluations(from, to, phase) == {e \in (from + 1)..to : e % Minute = phase}

-----------------------------------------------------------------------------
(* readRecorded() *)

LagFrom(now) == FloorTo(now - Lag, Minute)
ReadAt(now) == LagFrom(now) + Shift
LastWhole(now) == FloorTo(LagFrom(now), BarStep)
PartFrom(now, range) == Max({LastWhole(now), FirstBar(now, range) - BarStep})

\* Mutant: the rule's offset is forgotten.
CoveredToSample(now, written) ==
  IF written = {} THEN LagFrom(now) - Minute
  ELSE LET e == Max(written) IN e + FloorTo(ReadAt(now) - e, Minute)

\* Where the recorded counts end, from the newest sample the store answers with
\* (written, if any).
CoveredTo(now, written) ==
  IF written = {} THEN LagFrom(now) - Minute
  ELSE LET e == Max(written) IN e + FloorTo(ReadAt(now) - e, Minute) - Shift

\* Reads of samples, over the lines' own times: a whole bar, and the part of
\* the running one.
WholeReads(now, range) ==
  {Counts("whole", t + Shift, BarStep) :
     t \in {b \in Bars(now, range) : b <= LastWhole(now)}}
PartRead(now, range) ==
  IF LagFrom(now) > PartFrom(now, range)
  THEN {Counts("part", ReadAt(now), LagFrom(now) - PartFrom(now, range))} ELSE {}

Recorded(now, range, sample, covered) ==
  {[c EXCEPT !.to = @ - Shift] : c \in Seen(WholeReads(now, range), sample)}
  \cup {[c EXCEPT !.to = Max({covered, PartFrom(now, range) + 1})] :
          c \in Seen(PartRead(now, range), sample)}

\* readTail(): a minute at a time, and the rest.
LastMinute(from, now) == from + FloorTo(now - from, Minute)
TailReads(from, now) ==
  {Counts("minute", t, Minute) :
     t \in {t \in (from + Minute)..LastMinute(from, now) : (t - from) % Minute = 0}}
  \cup (IF now > LastMinute(from, now)
        THEN {Counts("running", now, now - LastMinute(from, now))} ELSE {})

\* read(), on a store with the ruler.  written: the newest evaluation within
\* Lookback that wrote a sample, this line's or a later one if that is within
\* it; tail: whether Loki answers.
ReadFromStore(now, range, line, phase, written, tail) ==
  LET sample == SampleOf(line, phase)
      covered == CoveredTo(now, written)
      fromLogs == IF tail THEN Seen(TailReads(covered, now), line) ELSE {}
  IN  /\ sample \in Evaluations(ReadAt(now) - Lookback, ReadAt(now), phase) 
           => \E e \in written : e >= sample
      /\ chart' = [now |-> now, range |-> range, line |-> line, first |-> FirstBar(now, range),
                   whole |-> tail, from |-> covered,
                   at |-> Added(Recorded(now, range, sample, covered) \cup fromLogs, now, range)]

\* readLogs(): no ruler on the store.
LogReads(now, range) ==
  {Counts("bar", t, BarStep) : t \in {b \in Bars(now, range) : b <= LastFull(now)}}
  \cup (IF now > LastFull(now) THEN {Counts("filling", now, now - LastFull(now))} ELSE {})

ReadFromLogs(now, range, line) ==
  chart' = [now |-> now, range |-> range, line |-> line, first |-> FirstBar(now, range),
            whole |-> TRUE, from |-> 0,
            at |-> Added(Seen(LogReads(now, range), line), now, range)]

ChartNext ==
  /\ chart = Unread
  /\ \E now \in ChartTimes, range \in Ranges :
     \E line \in (now - range - BarStep)..now :
       \/ \E phase \in 0..(Minute - 1), tail \in BOOLEAN :
          \E written \in {{}} \cup {{e} : e \in Evaluations(ReadAt(now) - Lookback, ReadAt(now), phase)} :
            ReadFromStore(now, range, line, phase, written, tail)
       \/ ReadFromLogs(now, range, line)

ChartSpec == ChartInit /\ [][ChartNext]_chart

\* A line in the chart's window is counted once: in its own bar, or in the next
\* one when it is of the last minute before that begins.  Nothing is counted
\* twice or lost where one read ends and the next begins - the whole bars, the
\* running part, the newest minutes - whatever second the ruler evaluates at
\* and whether or not it has written a sample lately; without an answer from
\* the logs the same holds of the lines up to partialFrom, and no later line is
\* counted (readRecorded, readTail, readLogs).
CountedOnce ==
  LET inWindow == chart.line > chart.first - BarStep
      told == chart.whole \/ chart.line <= chart.from
  IN  chart # Unread =>
        /\ Cardinality(chart.at) <= 1
        /\ inWindow => (chart.at # {} <=> told)
        /\ \A c \in chart.at :
             chart.line <= c.bar /\ chart.line > c.bar - BarStep - Minute
=============================================================================
