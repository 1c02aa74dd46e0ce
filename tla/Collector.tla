----------------------------- MODULE Collector -----------------------------
(* playdate/diagnostics: a game hands in a sample a frame, and the         *)
(* collector keeps sums, extremes and a histogram of bounded size, from    *)
(* which it reports (diagnostics.go).                                      *)
EXTENDS Integers, Sequences, FiniteSets

CONSTANTS
  Limits,         \* what a game may ask New for
  MaximumFrames,  \* the largest limit (36000)
  FrameBuckets,   \* cells of the histogram (256)
  Word,           \* half the values of a word (2^63): heap sizes are below 2 * Word
  Samples,        \* [frame, heap, resources]
  Rejections      \* bound: samples that come too late

VARIABLES
  limit, frames, dropped, frameTotal, frameMax, buckets,
  heap,       \* [start, end, max]
  resources,  \* [start, end, min, max]
  observed    \* history: the samples that were accepted

collector == <<limit, frames, dropped, frameTotal, frameMax, buckets, heap, resources, observed>>

Larger(a, b) == IF a > b THEN a ELSE b
Smaller(a, b) == IF a < b THEN a ELSE b

(* A collector that New refused to make has no limit and records nothing. *)
Init ==
  /\ limit = 0 /\ frames = 0 /\ dropped = 0 /\ frameTotal = 0 /\ frameMax = 0
  /\ buckets = [b \in 0 .. FrameBuckets - 1 |-> 0]
  /\ heap = [start |-> 0, end |-> 0, max |-> 0]
  /\ resources = [start |-> 0, end |-> 0, min |-> 0, max |-> 0]
  /\ observed = <<>>

New ==
  /\ limit = 0
  /\ \E asked \in Limits : asked \in 1 .. MaximumFrames /\ limit' = asked
  /\ UNCHANGED <<frames, dropped, frameTotal, frameMax, buckets, heap, resources, observed>>

Bucket(sample) == Smaller(sample.frame, FrameBuckets - 1)

KeepExtremes(sample, first) ==
  /\ heap' = [start |-> IF first THEN sample.heap ELSE heap.start,
              end |-> sample.heap, max |-> Larger(heap.max, sample.heap)]
  /\ resources' =
       [start |-> IF first THEN sample.resources ELSE resources.start,
        end |-> sample.resources,
        min |-> IF first THEN sample.resources ELSE Smaller(resources.min, sample.resources),
        max |-> Larger(resources.max, sample.resources)]

Record(sample) ==
  /\ limit # 0 /\ frames # limit
  /\ KeepExtremes(sample, frames = 0)
  /\ frames' = frames + 1
  /\ frameTotal' = frameTotal + sample.frame
  /\ frameMax' = Larger(frameMax, sample.frame)
  /\ buckets' = [buckets EXCEPT ![Bucket(sample)] = @ + 1]
  /\ observed' = Append(observed, sample)
  /\ UNCHANGED <<limit, dropped>>

Reject ==
  /\ limit # 0 /\ frames = limit /\ dropped < Rejections
  /\ dropped' = dropped + 1
  /\ UNCHANGED <<limit, frames, frameTotal, frameMax, buckets, heap, resources, observed>>

Next == New \/ Reject \/ \E sample \in Samples : Record(sample)
Spec == Init /\ [][Next]_collector

-----------------------------------------------------------------------------
(* The report.                                                             *)
Complete == limit # 0 /\ frames = limit

RECURSIVE Seen(_)
Seen(b) == IF b < 0 THEN 0 ELSE buckets[b] + Seen(b - 1)
Rank(percent) == (frames * percent + 99) \div 100
Percentile(percent) ==
  LET bucket == CHOOSE b \in DOMAIN buckets :
                  Seen(b) >= Rank(percent) /\ \A c \in 0 .. b - 1 : Seen(c) < Rank(percent)
  IN IF bucket = FrameBuckets - 1 /\ frameMax > FrameBuckets - 1 THEN frameMax ELSE bucket

SignedGrowth(start, end) ==
  IF end >= start THEN Smaller(end - start, Word - 1)
  ELSE IF start - end >= Word THEN -(Word - 1) - 1 ELSE -(start - end)

-----------------------------------------------------------------------------
TypeOK ==
  /\ limit \in 0 .. MaximumFrames /\ frames \in 0 .. limit /\ dropped \in 0 .. Rejections
  /\ buckets \in [0 .. FrameBuckets - 1 -> 0 .. frames]

Of(field) == [i \in DOMAIN observed |-> observed[i][field]]
Least(s) == CHOOSE v \in {s[i] : i \in DOMAIN s} : \A i \in DOMAIN s : v <= s[i]
Greatest(s) == CHOOSE v \in {s[i] : i \in DOMAIN s} : \A i \in DOMAIN s : v >= s[i]
AtMost(s, v) == Cardinality({i \in DOMAIN s : s[i] <= v})

(* The sample of the nearest rank: the least that is no smaller than so    *)
(* many per cent of the samples.                                           *)
Nearest(s, percent) ==
  CHOOSE v \in {s[i] : i \in DOMAIN s} :
    /\ 100 * AtMost(s, v) >= percent * Len(s)
    /\ \A i \in DOMAIN s : 100 * AtMost(s, s[i]) >= percent * Len(s) => v <= s[i]

RECURSIVE Total(_)
Total(s) == IF s = <<>> THEN 0 ELSE Head(s) + Total(Tail(s))

(* API.md, "Bounded diagnostics": whatever the order of the samples, the   *)
(* report has the statistics of exactly those that were accepted; only     *)
(* percentiles in the tail bucket are given as the observed maximum.       *)
ReportsObserved ==
  /\ Complete <=> Len(observed) = limit /\ limit # 0
  /\ dropped > 0 => Complete
  /\ observed # <<>> =>
       LET times == Of("frame") heaps == Of("heap") owned == Of("resources") IN
         /\ frames = Len(times) /\ frameTotal = Total(times) /\ frameMax = Greatest(times)
         /\ \A percent \in {50, 95, 99} :
              Percentile(percent) = IF Nearest(times, percent) < FrameBuckets - 1
                                    THEN Nearest(times, percent) ELSE Greatest(times)
         /\ heap = [start |-> Head(heaps), end |-> heaps[Len(heaps)], max |-> Greatest(heaps)]
         /\ LET growth == heaps[Len(heaps)] - Head(heaps) IN
              SignedGrowth(heap.start, heap.end) =
                CHOOSE g \in -Word .. Word - 1 :
                  \A other \in -Word .. Word - 1 :
                    (IF growth > g THEN growth - g ELSE g - growth)
                      <= (IF growth > other THEN growth - other ELSE other - growth)
         /\ resources = [start |-> Head(owned), end |-> owned[Len(owned)],
                         min |-> Least(owned), max |-> Greatest(owned)]
=============================================================================
