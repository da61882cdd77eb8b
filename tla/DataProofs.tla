------------------------------ MODULE DataProofs ------------------------------
(***************************************************************************)
(* What the scripts that keep the data promise, for any number of symbols, *)
(* days and runs; and what models learn from it, for any expressions,      *)
(* frames and stocks: what the frames of a dataset have gone through and   *)
(* seen, that enough days are read for the windows of an expression, and   *)
(* that samples are of the right days and stock.                           *)
(***************************************************************************)
EXTENDS DumpBin, YahooUpdate, PersonalPool, PitStore, Features, SequenceTheorems,
        SetLemmas, TLAPS

-----------------------------------------------------------------------------
(* DumpBin: bins in step with the calendar.                                 *)

Length == Len(calendarTxt)

DumpShape ==
    /\ dumping \in {"no", "all", "update"}
    /\ csv \in [Code -> SUBSET AllDays] /\ twice \in [Code -> SUBSET AllDays]
    /\ todo \subseteq Code
    /\ ends \in [Code -> Nat] /\ newEnds \in [Code -> Nat]
    /\ torn \in BOOLEAN /\ gapped \in BOOLEAN /\ doubled \in BOOLEAN

\* No download leaves out a day of all, so that the calendar has all days in order.
CalendarPlain ==
    /\ calendarTxt \in Seq(Nat)
    /\ \A i \in 1..Length : calendarTxt[i] = i

\* The values of a bin that starts at first are at their days, and the last is of day e.
Fits(bin, first, e) ==
    /\ Len(bin) # 0 /\ first + Len(bin) = e
    /\ \A i \in 1..Len(bin) : bin[i] \in {NaN, first + i}
    /\ bin[Len(bin)] = e

EndsAt(s, e) ==
    /\ e = 0 => features[s] = <<>>
    /\ e # 0 => Fits(features[s], starts[s], e) /\ e <= Length

\* What is still to be written of s in a run of dump_all, or of dump_update.
ToWrite(s) == features[s] = <<>> /\ csv[s] # {} /\ ends[s] = LastOf(csv[s]) /\ ends[s] <= Length

ToAppend(s) ==
    /\ EndsAt(s, ends[s])
    /\ NewBars(csv, s) # {}
    /\ newEnds[s] = LastOf(csv[s]) /\ newEnds[s] <= Length
    /\ NoGap(csv, s, calendarTxt)

InPlace ==
    /\ features \in [Code -> Seq(Nat)] /\ starts \in [Code -> Nat]
    /\ \A s \in Code : twice[s] = {}
    /\ dumping = "no" => todo = {} /\ \A s \in Code : EndsAt(s, ends[s])
    /\ dumping = "all" =>
          \A s \in Code : /\ s \in todo => ToWrite(s)
                          /\ s \notin todo => EndsAt(s, ends[s])
    /\ dumping = "update" =>
          \A s \in Code : /\ s \in todo => ToAppend(s)
                          /\ s \notin todo => EndsAt(s, newEnds[s])
                          /\ NewBars(csv, s) = {} => newEnds[s] = ends[s]

DumpInv == DumpShape /\ CalendarPlain /\ (~torn /\ ~gapped /\ ~doubled => InPlace)

-----------------------------------------------------------------------------
(* Days and sorted days.                                                   *)

LEMMA Extremes ==
    ASSUME NEW D, NEW n \in Nat, D \subseteq 1..n, D # {}
    PROVE  /\ Max(D) \in D /\ Min(D) \in D
           /\ \A d \in D : Min(D) <= d /\ d <= Max(D)
<1>1. D \subseteq 0..n /\ D \in SUBSET Nat
  OBVIOUS
<1> QED BY <1>1, MaxIsGreatest, MinIsLeast

LEMMA LastOfIs ==
    ASSUME NEW D, D \subseteq AllDays
    PROVE  /\ LastOf(D) \in Nat
           /\ D = {} => LastOf(D) = 0
           /\ D # {} => LastOf(D) \in D
           /\ \A d \in D : d <= LastOf(D)
<1>1. CASE D = {}
  BY <1>1 DEF LastOf
<1>2. CASE D # {}
  <2>1. DumpDays \in Nat /\ D \subseteq 1..DumpDays
    BY DumpAssumption DEF DumpAssumption, AllDays
  <2>2. LastOf(D) = Max(D)
    BY <1>2 DEF LastOf
  <2>3. Max(D) \in D /\ \A d \in D : d <= Max(D)
    BY <1>2, <2>1, Extremes
  <2>4. Max(D) \in Nat
    <3>1. \A d \in D : d \in Nat
      BY <2>1
    <3> QED BY <2>3, <3>1
  <2> QED BY <1>2, <2>2, <2>3, <2>4
<1> QED BY <1>1, <1>2

LEMMA DownloadedDays ==
    ASSUME NEW files \in [Code -> SUBSET AllDays]
    PROVE  /\ Downloaded(files) \subseteq AllDays
           /\ \A s \in Code : files[s] \subseteq Downloaded(files)
<1>1. \A s \in Code : files[s] \subseteq AllDays
  OBVIOUS
<1> QED BY <1>1 DEF Downloaded

LEMMA PlainRange ==
    ASSUME CalendarPlain
    PROVE  Range(calendarTxt) = 1..Length /\ DOMAIN calendarTxt = 1..Length /\ Length \in Nat
<1>1. DOMAIN calendarTxt = 1..Length /\ Length \in Nat
  BY LenProperties DEF CalendarPlain, Length
<1> QED BY <1>1 DEF CalendarPlain, Range

\* An interval, sorted.
LEMMA SortedDays ==
    ASSUME NEW a \in Nat, NEW b \in Nat, a <= b + 1
    PROVE  /\ Sorted(a..b) \in Seq(Nat) /\ Len(Sorted(a..b)) = b + 1 - a
           /\ DOMAIN Sorted(a..b) = 1..(b + 1 - a)
           /\ \A k \in 1..(b + 1 - a) : Sorted(a..b)[k] = a + k - 1
           /\ Range(Sorted(a..b)) = a..b
<1> DEFINE n == b + 1 - a
           f == [k \in 1..n |-> a + k - 1]
<1>1. Sorted(a..b) = f /\ n \in Nat
  BY SortedInterval
<1>2. f \in [1..n -> Nat]
  OBVIOUS
<1>3. f \in Seq(Nat) /\ DOMAIN f = 1..n /\ Len(f) = n
  <2>1. n \in Nat
    BY <1>1
  <2> HIDE DEF n, f
  <2>2. f \in Seq(Nat)
    BY <1>2, <2>1
  <2> QED BY <1>2, <2>1, <2>2, LenProperties
<1>4. \A k \in 1..n : f[k] = a + k - 1
  OBVIOUS
<1>5. Range(f) = a..b
  <2>1. \A d \in a..b : d - a + 1 \in 1..n /\ f[d - a + 1] = d
    BY <1>1
  <2>2. \A k \in 1..n : f[k] \in a..b
    BY <1>1, <1>4
  <2> HIDE DEF f, n
  <2> QED BY <1>3, <2>1, <2>2 DEF Range
<1> HIDE DEF f
<1> QED BY <1>1, <1>3, <1>4, <1>5

\* Bars merged with a calendar that has all days from the first of them to the last.
LEMMA MergeIs ==
    ASSUME NEW D, NEW n \in Nat, D \subseteq 1..n, D # {}, NEW cal,
           {d \in Range(cal) : Min(D) <= d /\ d <= Max(D)} = Min(D)..Max(D)
    PROVE  /\ Merge(D, CoveredDays(D, cal)) \in Seq(Nat)
           /\ Len(Merge(D, CoveredDays(D, cal))) = Max(D) + 1 - Min(D)
           /\ \A k \in 1..(Max(D) + 1 - Min(D)) :
                 Merge(D, CoveredDays(D, cal))[k] =
                     IF Min(D) + k - 1 \in D THEN Min(D) + k - 1 ELSE NaN
<1> DEFINE a == Min(D)
           b == Max(D)
           m == b + 1 - a
           f == [i \in 1..m |-> IF a + i - 1 \in D THEN a + i - 1 ELSE NaN]
<1>1. a \in D /\ b \in D /\ a <= b
  BY Extremes
<1>2. a \in Nat /\ b \in Nat
  <2>1. \A d \in D : d \in Nat
    OBVIOUS
  <2> HIDE DEF a, b
  <2> QED BY <1>1, <2>1
<1>3. m \in Nat /\ a <= b + 1
  BY <1>1, <1>2
<1>4. {d \in Range(cal) : Min(D) <= d /\ d <= Max(D)} = a..b
  OBVIOUS
<1> HIDE DEF a, b
<1>5. /\ DOMAIN Sorted(a..b) = 1..m
      /\ \A k \in 1..m : Sorted(a..b)[k] = a + k - 1
  BY <1>2, <1>3, SortedDays
<1>6. Merge(D, CoveredDays(D, cal)) = [i \in DOMAIN Sorted(a..b) |->
                          IF Sorted(a..b)[i] \in D THEN Sorted(a..b)[i] ELSE NaN]
  <2>1. CoveredDays(D, cal) = Sorted(a..b)
    BY <1>4 DEF CoveredDays, a, b
  <2> QED BY <2>1 DEF Merge
<1>7. Merge(D, CoveredDays(D, cal)) = f
  BY <1>5, <1>6
<1>8. f \in [1..m -> Nat]
  BY <1>2 DEF NaN
<1>9. f \in Seq(Nat) /\ Len(f) = m
  <2> HIDE DEF m, f
  <2>1. f \in Seq(Nat)
    BY <1>3, <1>8
  <2> QED BY <1>3, <1>8, <2>1, LenProperties
<1>10. \A k \in 1..m : f[k] = IF a + k - 1 \in D THEN a + k - 1 ELSE NaN
  OBVIOUS
<1> HIDE DEF f
<1> QED BY <1>7, <1>9, <1>10 DEF a, b

\* A bin that is written anew fits.
LEMMA NewBin ==
    ASSUME CalendarPlain, NEW D, D \subseteq 1..Length, D # {}
    PROVE  /\ Merge(D, CoveredDays(D, calendarTxt)) \in Seq(Nat)
           /\ IndexIn(calendarTxt, Min(D)) \in Nat
           /\ Fits(Merge(D, CoveredDays(D, calendarTxt)), IndexIn(calendarTxt, Min(D)),
                   Max(D))
<1> DEFINE a == Min(D)
           b == Max(D)
           f == Merge(D, CoveredDays(D, calendarTxt))
           m == b + 1 - a
<1>1. Length \in Nat /\ Range(calendarTxt) = 1..Length /\ DOMAIN calendarTxt = 1..Length
  BY PlainRange
<1>2. a \in D /\ b \in D /\ a <= b
  BY <1>1, Extremes
<1>3. a \in 1..Length /\ b \in 1..Length
  BY <1>2
<1> HIDE DEF a, b
<1>4. {d \in Range(calendarTxt) : a <= d /\ d <= b} = a..b
  BY <1>1, <1>3
<1>5. /\ f \in Seq(Nat) /\ Len(f) = m
      /\ \A k \in 1..m : f[k] = IF a + k - 1 \in D THEN a + k - 1 ELSE NaN
  BY <1>1, <1>4, MergeIs DEF a, b
<1>6. IndexIn(calendarTxt, a) = a - 1
  <2>1. \A i \in 1..Length : calendarTxt[i] = i
    BY DEF CalendarPlain
  <2>2. (CHOOSE i \in 1..Length : calendarTxt[i] = a) = a
    BY <1>3, <2>1
  <2> QED BY <1>1, <2>2 DEF IndexIn
<1> HIDE DEF f
<1>7. m \in 1..m /\ a + m - 1 = b /\ m # 0 /\ (a - 1) + m = b /\ a - 1 \in Nat
  BY <1>1, <1>2, <1>3
<1>8. f[m] = b
  BY <1>2, <1>5, <1>7
<1>9. \A k \in 1..m : a + k - 1 = (a - 1) + k
  BY <1>3
<1>10. \A k \in 1..m : f[k] \in {NaN, (a - 1) + k}
  BY <1>5, <1>9
<1> HIDE DEF m
<1>11. Fits(f, a - 1, b)
  BY <1>5, <1>7, <1>8, <1>10 DEF Fits
<1> QED BY <1>5, <1>6, <1>7, <1>11 DEF a, b, f

\* Rows that are one for each day.
LEMMA OwnDays ==
    ASSUME NEW s \in Code, NEW e \in Nat, NEW n \in Nat, e < n,
           Bars(s) = (e + 1)..n, twice[s] = {}
    PROVE  UpdateCalendar(s) = [k \in 1..(n - e) |-> e + k]
<1> DEFINE D == Bars(s)
<1>1. ASSUME NEW d \in (e + 1)..n PROVE RowCount(s, d) = d - e
  <2>1. UpTo(Bars(s), d) = (e + 1)..d /\ UpTo(twice[s], d) = {}
    BY DEF UpTo
  <2>2. Cardinality((e + 1)..d) = d - e
    <3>1. e + 1 \in Int /\ d \in Int /\ e + 1 <= d + 1 /\ d + 1 - (e + 1) = d - e
      OBVIOUS
    <3> QED BY <3>1, SortedInterval
  <2>3. Cardinality({}) = 0 /\ d - e \in Nat
    BY FS_EmptySet
  <2>4. RowCount(s, d) = Cardinality((e + 1)..d) + Cardinality({})
    BY <2>1 DEF RowCount
  <2> QED BY <2>2, <2>3, <2>4
<1>2. D \in SUBSET Nat /\ n \in D /\ \A d \in D : d <= n
  OBVIOUS
<1> HIDE DEF D
<1>3. Max(D) = n
  BY <1>2, MaxIs
<1>4. RowCount(s, Max(Bars(s))) = n - e
  BY <1>1, <1>2, <1>3 DEF D
<1>5. ASSUME NEW k \in 1..(n - e)
      PROVE  Min({d \in Bars(s) : RowCount(s, d) >= k}) = e + k
  <2> DEFINE C == {d \in Bars(s) : RowCount(s, d) >= k}
  <2>1. C \in SUBSET Nat /\ e + k \in C /\ \A d \in C : e + k <= d
    <3>1. e + k \in (e + 1)..n /\ (e + k) - e >= k
      OBVIOUS
    <3>2. ASSUME NEW d \in C PROVE d \in Nat /\ e + k <= d
      <4>1. d \in (e + 1)..n /\ d - e >= k
        BY <1>1, <3>2
      <4> QED BY <4>1
    <3>3. e + k \in C
      BY <1>1, <3>1
    <3> HIDE DEF C
    <3> QED BY <3>2, <3>3
  <2> HIDE DEF C
  <2>2. Min(C) \in C /\ \A d \in C : Min(C) <= d
    BY <2>1, MinIsLeast
  <2> DEFINE x == Min(C)
  <2>3. x \in Nat /\ e + k <= x /\ x <= e + k
    BY <2>1, <2>2
  <2> HIDE DEF x
  <2>4. x = e + k
    BY <2>3
  <2> QED BY <2>4 DEF x, C
<1> QED BY <1>4, <1>5 DEF UpdateCalendar

\* All days since its end, appended, keep a bin fitting.
LEMMA MoreBars ==
    ASSUME NEW f \in Seq(Nat), NEW first \in Nat, NEW e \in Nat, Fits(f, first, e),
           NEW n \in Nat, e < n, NEW cal, cal = [k \in 1..(n - e) |-> e + k]
    PROVE  /\ f \o Merge((e + 1)..n, cal) \in Seq(Nat)
           /\ Fits(f \o Merge((e + 1)..n, cal), first, n)
<1> DEFINE D == (e + 1)..n
           g == Merge(D, cal)
           h == f \o g
           l == Len(f)
<1>5. /\ g \in Seq(Nat) /\ Len(g) = n - e
      /\ \A k \in 1..(n - e) : g[k] = e + k
  <2>1. \A k \in 1..(n - e) : e + k \in D
    OBVIOUS
  <2> HIDE DEF D
  <2>2. DOMAIN g = 1..(n - e) /\ \A k \in 1..(n - e) : g[k] = e + k
    BY <2>1 DEF Merge
  <2>3. g = [k \in 1..(n - e) |-> e + k]
    <3>1. g = [k \in DOMAIN cal |-> IF cal[k] \in D THEN cal[k] ELSE NaN]
      BY DEF Merge
    <3> QED BY <2>1, <3>1
  <2> HIDE DEF g
  <2>4. g \in [1..(n - e) -> Nat] /\ n - e \in Nat
    BY <2>3
  <2>5. g \in Seq(Nat)
    BY <2>4
  <2> QED BY <2>2, <2>4, <2>5, LenProperties
<1>6. l \in Nat /\ l # 0 /\ first + l = e /\ \A i \in 1..l : f[i] \in {NaN, first + i}
  BY LenProperties DEF Fits
<1> HIDE DEF g
<1>7. /\ h \in Seq(Nat) /\ Len(h) = l + Len(g)
      /\ \A i \in 1..(l + Len(g)) : h[i] = IF i <= l THEN f[i] ELSE g[i - l]
  BY <1>5, ConcatProperties
<1> HIDE DEF h, l, D
<1>8. Len(h) = l + (n - e) /\ first + Len(h) = n /\ Len(h) # 0
  BY <1>5, <1>6, <1>7
<1>9. ASSUME NEW i \in 1..Len(h) PROVE h[i] \in {NaN, first + i} /\ (i > l => h[i] = first + i)
  <2>1. CASE i <= l
    <3>1. i \in 1..l /\ h[i] = f[i]
      BY <1>6, <1>7, <1>8, <2>1
    <3>2. ~(i > l)
      BY <1>6, <1>8, <2>1
    <3> QED BY <1>6, <3>1, <3>2
  <2>2. CASE ~(i <= l)
    <3>1. h[i] = g[i - l]
      BY <1>7, <2>2
    <3>2. i - l \in 1..(n - e) /\ e + (i - l) = first + i
      BY <1>6, <1>8, <2>2
    <3>4. g[i - l] = first + i
      BY <1>5, <3>2
    <3> QED BY <3>1, <3>4
  <2> QED BY <2>1, <2>2
<1>10. h[Len(h)] = n
  <2>1. Len(h) \in 1..Len(h) /\ Len(h) > l
    BY <1>6, <1>8
  <2> QED BY <1>8, <1>9, <2>1
<1>11. Fits(h, first, n)
  BY <1>8, <1>9, <1>10 DEF Fits
<1> QED BY <1>7, <1>11 DEF h, g, D

-----------------------------------------------------------------------------
(* The steps.                                                              *)

LEMMA DumpInits == DumpInit => DumpInv
<1> SUFFICES ASSUME DumpInit PROVE DumpInv
  OBVIOUS
<1>1. calendarTxt = <<>> /\ <<>> \in Seq(Nat) /\ Len(<<>>) = 0
  BY DEF DumpInit
<1>2. CalendarPlain
  BY <1>1 DEF CalendarPlain, Length
<1>3. DumpShape
  BY DEF DumpInit, DumpShape, AllDays
<1>4. InPlace
  <2>1. features \in [Code -> Seq(Nat)] /\ starts \in [Code -> Nat]
    BY <1>1 DEF DumpInit
  <2>2. \A s \in Code : ends[s] = 0 /\ features[s] = <<>> /\ twice[s] = {}
    BY DEF DumpInit
  <2> QED BY <2>1, <2>2 DEF DumpInit, InPlace, EndsAt
<1> QED BY <1>2, <1>3, <1>4 DEF DumpInv

\* A calendar that has all days up to n in order.
UpToDay(q, n) == q \in Seq(Nat) /\ Len(q) = n /\ \A i \in 1..n : q[i] = i

LEMMA UpdatedCalendarIs ==
    ASSUME CalendarPlain, NEW files \in [Code -> SUBSET AllDays], MayRun(files), HasInstruments
    PROVE  \E n \in Nat : /\ UpToDay(NewCalendar(files), n) /\ Downloaded(files) \subseteq 1..n
                          /\ Length <= n /\ (Length <= DumpDays => n <= DumpDays)
<1> DEFINE D == Downloaded(files)
           m == Length
           U == D \union 1..m
           n == LastOf(U)
           later == {d \in D : d > Last(calendarTxt)}
           N == NewCalendar(files)
<1>1. /\ calendarTxt # <<>> /\ U = 1..n
      /\ N = calendarTxt \o Sorted(later)
  BY PlainRange DEF MayRun, Complete, NewCalendar
<1>2. /\ D \subseteq AllDays
      /\ \A s \in Code : files[s] \subseteq AllDays /\ files[s] \subseteq D
  BY DownloadedDays
<1>3. m \in Nat \ {0} /\ Last(calendarTxt) = m /\ CalendarPlain
  <2>1. calendarTxt \in Seq(Nat) /\ m \in Nat /\ \A i \in 1..m : calendarTxt[i] = i
    BY PlainRange DEF CalendarPlain
  <2>2. m # 0
    BY <1>1, <2>1, EmptySeq DEF Length
  <2>3. Last(calendarTxt) = calendarTxt[m]
    BY DEF Last, Length
  <2> QED BY <2>1, <2>2, <2>3
<1>4. n \in Nat /\ m <= n
  <2>1. \A d \in D : d \in Nat
    BY <1>2 DEF AllDays
  <2>2. U \subseteq Nat /\ IsFiniteSet(U) /\ m \in U
    <3>1. IsFiniteSet(D)
      <4>1. IsFiniteSet(AllDays)
        BY DumpAssumption, FS_Interval DEF DumpAssumption, AllDays
      <4> QED BY <1>2, <4>1, FS_Subset
    <3>2. IsFiniteSet(1..m)
      BY <1>3, FS_Interval
    <3>3. IsFiniteSet(U)
      BY <3>1, <3>2, FS_Union
    <3>4. U \subseteq Nat /\ m \in U
      BY <1>3, <2>1
    <3> QED BY <3>3, <3>4
  <2>3. n = Max(U)
    BY <2>2 DEF LastOf
  <2>4. \E x \in U : \A d \in U : x >= d
    <3>1. PICK b \in Nat : D \subseteq 0..b
      <4>1. DumpDays \in Nat /\ D \subseteq 0..DumpDays
        BY <1>2, DumpAssumption DEF DumpAssumption, AllDays
      <4> QED BY <4>1
    <3>2. PICK c \in Nat : b <= c /\ m <= c
      <4>1. b + m \in Nat /\ b <= b + m /\ m <= b + m
        BY <1>3, <3>1
      <4> QED BY <4>1
    <3>3. U \subseteq 0..c
      <4>1. m \in Nat
        BY <1>3
      <4> HIDE DEF m, D
      <4> QED BY <3>1, <3>2, <4>1
    <3> HIDE DEF U
    <3> QED BY <2>2, <3>3, GreatestExists
  <2>5. n \in U /\ \A d \in U : n >= d
    <3> HIDE DEF U, n
    <3> QED BY <2>3, <2>4 DEF Max
  <2> HIDE DEF U, n
  <2>6. n \in Nat /\ n >= m
    BY <2>2, <2>5
  <2> QED BY <1>3, <2>6
<1>5. later = (m + 1)..n
  <2>1. \A d : d \in 1..n <=> d \in D \/ d \in 1..m
    BY <1>1
  <2>2. \A d \in D : d \in Nat
    BY <1>2 DEF AllDays
  <2> HIDE DEF D, m, n
  <2> QED BY <1>3, <1>4, <2>1, <2>2 DEF D, later
<1> HIDE DEF D, U, m, n, later, N
<1>6. N \in Seq(Nat) /\ Len(N) = n /\ \A i \in 1..n : N[i] = i
  <2>1. /\ Sorted(later) \in Seq(Nat) /\ Len(Sorted(later)) = n + 1 - (m + 1)
        /\ \A k \in 1..(n + 1 - (m + 1)) : Sorted(later)[k] = (m + 1) + k - 1
    <3>1. m + 1 \in Nat /\ n \in Nat /\ m + 1 <= n + 1
      BY <1>3, <1>4
    <3> QED BY <1>5, <3>1, SortedDays
  <2>2. calendarTxt \in Seq(Nat) /\ Len(calendarTxt) = m /\ \A i \in 1..m : calendarTxt[i] = i
    BY <1>3 DEF CalendarPlain, Length, m
  <2>3. /\ N \in Seq(Nat) /\ Len(N) = Len(calendarTxt) + Len(Sorted(later))
        /\ \A i \in 1..(Len(calendarTxt) + Len(Sorted(later))) :
              N[i] = IF i <= Len(calendarTxt) THEN calendarTxt[i]
                                ELSE Sorted(later)[i - Len(calendarTxt)]
    BY <1>1, <2>1, <2>2, ConcatProperties, ZenonT(60)
  <2>4. Len(N) = n
    BY <1>3, <1>4, <2>1, <2>2, <2>3
  <2>5. ASSUME NEW i \in 1..n PROVE N[i] = i
    <3>1. i \in 1..(Len(calendarTxt) + Len(Sorted(later)))
      BY <2>3, <2>4
    <3>2. CASE i <= m
      <4>1. i \in 1..m /\ N[i] = calendarTxt[i]
        BY <1>3, <2>2, <2>3, <3>1, <3>2
      <4> QED BY <2>2, <4>1
    <3>3. CASE ~(i <= m)
      <4>1. N[i] = Sorted(later)[i - m]
        BY <2>2, <2>3, <3>1, <3>3
      <4>2. i - m \in 1..(n + 1 - (m + 1)) /\ (m + 1) + (i - m) - 1 = i
        BY <1>3, <1>4, <3>3
      <4> QED BY <2>1, <4>1, <4>2
    <3> QED BY <3>2, <3>3
  <2> QED BY <2>3, <2>4, <2>5
<1>7. D \subseteq 1..n
  BY <1>1 DEF U
<1>8. m <= DumpDays => n <= DumpDays
  <2>1. n \in U
    BY <1>1, <1>3, <1>4
  <2>2. n \in D \/ n \in 1..m
    BY <2>1 DEF U
  <2>3. CASE n \in D
    BY <1>2, <2>3, DumpAssumption DEF AllDays
  <2>4. CASE n \in 1..m
    BY <1>3, <1>4, <2>4, DumpAssumption
  <2> QED BY <2>2, <2>3, <2>4
<1>9. UpToDay(N, n)
  BY <1>6 DEF UpToDay
<1> QED BY <1>4, <1>7, <1>8, <1>9 DEF D, m, N

LEMMA FirstCalendarIs ==
    ASSUME NEW files \in [Code -> SUBSET AllDays], MayRun(files), ~HasInstruments
    PROVE  \E n \in Nat : /\ UpToDay(NewCalendar(files), n) /\ Downloaded(files) \subseteq 1..n
                          /\ n <= DumpDays
<1> DEFINE D == Downloaded(files)
           n == LastOf(D)
<1>1. D = 1..n /\ NewCalendar(files) = Sorted(D)
  BY DEF MayRun, Complete, NewCalendar
<1>2. D \subseteq AllDays /\ n \in Nat /\ n \in D
  BY DownloadedDays, LastOfIs DEF MayRun
<1> HIDE DEF D, n
<1>3. UpToDay(Sorted(1..n), n)
  <2>1. 1 \in Nat /\ n \in Nat /\ 1 <= n + 1 /\ n + 1 - 1 = n /\ \A k \in 1..n : 1 + k - 1 = k
    BY <1>2
  <2> QED BY <2>1, SortedDays DEF UpToDay
<1>4. n <= DumpDays /\ D \subseteq 1..n
  BY <1>1, <1>2, DumpAssumption DEF AllDays
<1> QED BY <1>1, <1>2, <1>3, <1>4 DEF D

LEMMA NewCalendarIs ==
    ASSUME CalendarPlain, NEW files \in [Code -> SUBSET AllDays], MayRun(files)
    PROVE  \E n \in Nat : /\ UpToDay(NewCalendar(files), n) /\ Downloaded(files) \subseteq 1..n
                          /\ (HasInstruments => Length <= n)
                          /\ (Length <= DumpDays => n <= DumpDays)
BY UpdatedCalendarIs, FirstCalendarIs

\* Its first lines.
LEMMA CutIs ==
    ASSUME NEW q, NEW n \in Nat, UpToDay(q, n), NEW k \in 0..n
    PROVE  UpToDay(SubSeq(q, 1, k), k)
<1>1. q \in Seq(Nat) /\ Len(q) = n /\ \A i \in 1..n : q[i] = i
  BY DEF UpToDay
<1> DEFINE c == SubSeq(q, 1, k)
<1>2. c = [i \in 1..k |-> q[i]]
  <2>1. c = [i \in 1..(k - 1 + 1) |-> q[i + 1 - 1]]
    BY <1>1
  <2> QED BY <1>1, <2>1
<1> HIDE DEF c
<1>3. c \in [1..k -> Nat] /\ \A i \in 1..k : c[i] = i
  BY <1>1, <1>2
<1>4. c \in Seq(Nat) /\ Len(c) = k
  <2>1. k \in Nat
    OBVIOUS
  <2>2. c \in Seq(Nat)
    BY <1>3, <2>1
  <2> QED BY <1>3, <2>1, <2>2, LenProperties
<1> QED BY <1>3, <1>4 DEF UpToDay, c

LEMMA PlainThen ==
    ASSUME NEW n \in Nat, UpToDay(calendarTxt', n)
    PROVE  CalendarPlain' /\ Length' = n
BY DEF UpToDay, CalendarPlain, Length

\* Nothing is on disk of a directory without instruments.
LEMMA EmptyDirectory ==
    ASSUME DumpInv, ~HasInstruments, dumping = "no", InPlace, NEW s \in Code
    PROVE  ends[s] = 0 /\ features[s] = <<>>
BY DEF HasInstruments, InPlace, EndsAt

LEMMA CutStep ==
    ASSUME DumpInv, NEW files \in [Code -> SUBSET AllDays], CalendarCut(files)
    PROVE  DumpInv'
<1>1. PICK n \in Nat : UpToDay(NewCalendar(files), n)
  BY NewCalendarIs DEF CalendarCut, DumpInv
<1>2. PICK k \in 0..n : calendarTxt' = SubSeq(NewCalendar(files), 1, k)
  BY <1>1 DEF CalendarCut, UpToDay
<1>3. CalendarPlain' /\ Length' = k
  <2>1. UpToDay(calendarTxt', k) /\ k \in Nat
    BY <1>1, <1>2, CutIs
  <2> QED BY <2>1, PlainThen
<1>4. /\ dumping = "no"
      /\ torn' = (torn \/ (HasInstruments /\ Length' < Length))
      /\ dumping' = dumping /\ csv' = csv /\ twice' = twice /\ todo' = todo /\ ends' = ends
      /\ newEnds' = newEnds /\ features' = features /\ starts' = starts /\ gapped' = gapped
      /\ doubled' = doubled
  BY DEF CalendarCut, MayRun, Length
<1>5. DumpShape'
  <2>1. torn' \in BOOLEAN
    BY <1>4, Zenon
  <2> QED BY <1>4, <2>1 DEF DumpInv, DumpShape
<1>6. ASSUME ~torn', ~gapped', ~doubled' PROVE InPlace'
  <2>1. InPlace /\ (HasInstruments => ~(Length' < Length))
    BY <1>4, <1>6 DEF DumpInv
  <2>2. ASSUME NEW s \in Code PROVE EndsAt(s, ends[s])'
    <3>1. CASE ends[s] = 0
      BY <1>4, <2>1, <3>1 DEF InPlace, EndsAt
    <3>2. CASE ends[s] # 0
      <4>1. Length <= Length'
        <5>1. ~(Length' < Length)
          BY <2>1, <3>2 DEF HasInstruments
        <5>2. Length \in Nat /\ Length' \in Nat
          BY <1>3, PlainRange DEF DumpInv
        <5> QED BY <5>1, <5>2
      <4>2. Fits(features[s], starts[s], ends[s]) /\ ends[s] <= Length
        BY <1>4, <2>1, <3>2 DEF InPlace, EndsAt
      <4>3. ends[s] <= Length'
        <5>1. Length \in Nat /\ Length' \in Nat /\ ends[s] \in Nat
          BY <1>3, PlainRange DEF DumpInv, DumpShape
        <5> QED BY <4>1, <4>2, <5>1
      <4> QED BY <1>4, <3>2, <4>2, <4>3 DEF EndsAt
    <3> QED BY <3>1, <3>2
  <2> QED BY <1>4, <2>1, <2>2 DEF InPlace
<1> QED BY <1>3, <1>5, <1>6 DEF DumpInv

LEMMA AllStep ==
    ASSUME DumpInv, NEW files \in [Code -> SUBSET AllDays], DumpAll(files)
    PROVE  DumpInv'
<1>1. /\ MayRun(files) /\ ~HasInstruments
      /\ dumping = "no" /\ dumping' = "all"
      /\ csv' = files /\ todo' = {s \in Code : files[s] # {}}
      /\ calendarTxt' = NewCalendar(files)
      /\ ends' = [s \in Code |-> LastOf(files[s])] /\ newEnds' = ends' /\ twice' = twice
      /\ features' = features /\ starts' = starts /\ torn' = torn /\ gapped' = gapped
      /\ doubled' = doubled
  BY DEF DumpAll, MayRun
<1>2. PICK n \in Nat : UpToDay(NewCalendar(files), n) /\ Downloaded(files) \subseteq 1..n
  BY <1>1, NewCalendarIs DEF DumpInv
<1>3. \A s \in Code : /\ LastOf(files[s]) \in Nat
                      /\ files[s] = {} => LastOf(files[s]) = 0
                      /\ LastOf(files[s]) <= n
  <2> TAKE s \in Code
  <2>1. files[s] \subseteq AllDays /\ files[s] \subseteq 1..n
    BY <1>2, DownloadedDays
  <2>2. /\ LastOf(files[s]) \in Nat
        /\ files[s] = {} => LastOf(files[s]) = 0
        /\ files[s] # {} => LastOf(files[s]) \in files[s]
    BY <2>1, LastOfIs
  <2> QED BY <2>1, <2>2
<1>4. CalendarPlain' /\ Length' = n
  BY <1>1, <1>2, PlainThen
<1>5. DumpShape'
  BY <1>1, <1>3 DEF DumpInv, DumpShape
<1>6. ASSUME InPlace PROVE InPlace'
  <2>1. /\ features' \in [Code -> Seq(Nat)] /\ starts' \in [Code -> Nat]
        /\ \A s \in Code : twice'[s] = {}
    BY <1>1, <1>6 DEF InPlace
  <2>2. \A s \in Code : features[s] = <<>>
    BY <1>1, <1>6, EmptyDirectory
  <2>3. \A s \in Code : s \in todo' => ToWrite(s)'
    BY <1>1, <1>3, <1>4, <2>2 DEF ToWrite
  <2>4. \A s \in Code : s \notin todo' => EndsAt(s, ends[s])'
    BY <1>1, <1>3, <2>2 DEF EndsAt
  <2> QED BY <1>1, <2>1, <2>3, <2>4 DEF InPlace
<1> QED BY <1>1, <1>4, <1>5, <1>6 DEF DumpInv

LEMMA DumpUpdateStep ==
    ASSUME DumpInv, NEW files \in [Code -> SUBSET AllDays],
           NEW rows \in [Code -> SUBSET AllDays], DumpUpdate(files, rows)
    PROVE  DumpInv'
<1>1. /\ MayRun(files) /\ HasInstruments
      /\ dumping = "no" /\ dumping' = "update" /\ csv' = files
      /\ twice' = [s \in Code |-> IF ends[s] = 0 THEN {} ELSE rows[s] \intersect NewBars(files, s)]
      /\ calendarTxt' = NewCalendar(files)
      /\ todo' = {s \in Code : NewBars(files, s) # {}}
      /\ newEnds' = [s \in Code |-> IF s \in todo' THEN LastOf(files[s]) ELSE ends[s]]
      /\ gapped' = (gapped \/ \E s \in todo' : ~NoGap(files, s, calendarTxt'))
      /\ doubled' = (doubled \/ \E s \in Code : twice'[s] # {})
      /\ ends' = ends /\ features' = features /\ starts' = starts /\ torn' = torn
  BY DEF DumpUpdate, MayRun
<1>2. PICK n \in Nat : /\ UpToDay(NewCalendar(files), n) /\ Downloaded(files) \subseteq 1..n
                       /\ Length <= n
  BY <1>1, NewCalendarIs DEF DumpInv
<1>6. CalendarPlain' /\ Length' = n /\ Length \in Nat
  BY <1>1, <1>2, PlainThen, PlainRange DEF DumpInv
<1>8. \A s \in Code : LastOf(files[s]) \in Nat /\ LastOf(files[s]) <= n
  <2> TAKE s \in Code
  <2>1. files[s] \subseteq AllDays /\ files[s] \subseteq 1..n
    BY <1>2, DownloadedDays
  <2>2. LastOf(files[s]) \in Nat /\ (files[s] = {} => LastOf(files[s]) = 0)
        /\ (files[s] # {} => LastOf(files[s]) \in files[s])
    BY <2>1, LastOfIs
  <2> QED BY <2>1, <2>2
<1>9. DumpShape'
  <2>1. newEnds' \in [Code -> Nat]
    <3>1. ends \in [Code -> Nat]
      BY DEF DumpInv, DumpShape
    <3> QED BY <1>1, <1>8, <3>1
  <2>2. gapped' \in BOOLEAN /\ doubled' \in BOOLEAN
    BY <1>1
  <2>3. twice' \in [Code -> SUBSET AllDays]
    BY <1>1
  <2> QED BY <1>1, <2>1, <2>2, <2>3 DEF DumpInv, DumpShape
<1>10. ASSUME ~torn', ~gapped', ~doubled' PROVE InPlace'
  <2>1. ~gapped /\ ~doubled /\ \A s \in todo' : NoGap(files, s, calendarTxt')
    BY <1>1, <1>10
  <2>2. InPlace
    BY <1>1, <1>10, <2>1 DEF DumpInv
  <2>3. /\ features' \in [Code -> Seq(Nat)] /\ starts' \in [Code -> Nat]
        /\ \A s \in Code : twice'[s] = {}
    BY <1>1, <1>10, <2>2 DEF InPlace
  <2>4. \A s \in Code : EndsAt(s, ends[s]) /\ ends[s] \in Nat
    BY <1>1, <2>2 DEF InPlace, DumpInv, DumpShape
  <2>5. \A s \in Code : EndsAt(s, ends[s])'
    <3>1. Length <= Length' /\ Length' \in Nat /\ Length \in Nat
      BY <1>2, <1>6
    <3>2. \A s \in Code : ends[s] # 0 => ends[s] <= Length'
      BY <2>4, <3>1 DEF EndsAt
    <3> QED BY <1>1, <2>4, <3>2 DEF EndsAt
  <2>6. ASSUME NEW s \in Code, s \in todo' PROVE ToAppend(s)'
    <3>1. NewBars(files, s) # {} /\ NewBars(csv, s)' = NewBars(files, s)
      BY <1>1, <2>6 DEF NewBars
    <3>2. newEnds'[s] = LastOf(files[s])
      BY <1>1, <2>6
    <3>3. NoGap(csv, s, calendarTxt)'
      BY <1>1, <2>1, <2>6 DEF NoGap, NewBars
    <3> QED BY <1>1, <1>6, <1>8, <2>5, <3>1, <3>2, <3>3 DEF ToAppend
  <2>7. ASSUME NEW s \in Code, s \notin todo' PROVE EndsAt(s, newEnds[s])'
    <3>1. newEnds'[s] = ends'[s]
      BY <1>1, <2>7
    <3> QED BY <2>5, <3>1 DEF EndsAt
  <2>8. ASSUME NEW s \in Code, NewBars(csv, s)' = {} PROVE newEnds'[s] = ends'[s]
    BY <1>1, <2>8 DEF NewBars
  <2> QED BY <1>1, <2>3, <2>6, <2>7, <2>8 DEF InPlace
<1> QED BY <1>6, <1>9, <1>10 DEF DumpInv

LEMMA SymbolStep ==
    ASSUME DumpInv, NEW s \in Code, DumpSymbol(s)
    PROVE  DumpInv'
<1>1. /\ s \in todo /\ todo' = todo \ {s}
      /\ IF dumping = "update" /\ ends[s] # 0
         THEN WriteBin(s, Merge(Bars(s), UpdateCalendar(s)), 0)
         ELSE WriteBin(s, Merge(Bars(s), CoveredDays(Bars(s), calendarTxt)),
                       IndexIn(calendarTxt, Min(Bars(s))))
      /\ dumping' = dumping /\ csv' = csv /\ calendarTxt' = calendarTxt /\ ends' = ends
      /\ newEnds' = newEnds /\ torn' = torn /\ gapped' = gapped /\ doubled' = doubled
      /\ twice' = twice
  BY DEF DumpSymbol
<1>2. DumpShape' /\ CalendarPlain'
  BY <1>1 DEF DumpInv, DumpShape, CalendarPlain, Length
<1>3. ASSUME InPlace PROVE InPlace'
  <2>1. /\ features \in [Code -> Seq(Nat)] /\ starts \in [Code -> Nat]
        /\ dumping \in {"all", "update"} /\ s \in Code /\ csv[s] \subseteq AllDays
        /\ CalendarPlain /\ Length \in Nat /\ ends[s] \in Nat
        /\ \A u \in Code : twice[u] = {}
    BY <1>1, <1>3, PlainRange DEF InPlace, DumpInv, DumpShape
  <2> DEFINE b == IF dumping = "update" THEN newEnds[s] ELSE ends[s]
  <2>2. dumping = "update" => ToAppend(s)
    BY <1>1, <1>3 DEF InPlace
  <2>3. dumping = "all" => ToWrite(s)
    BY <1>1, <1>3 DEF InPlace
  <2>4. Bars(s) # {} /\ b = LastOf(csv[s]) /\ b <= Length /\ Bars(s) \subseteq csv[s]
    BY <2>1, <2>2, <2>3 DEF ToAppend, ToWrite, Bars, NewBars
  <2>5. /\ b \in Bars(s) /\ Bars(s) \subseteq 1..b /\ Max(Bars(s)) = b
        /\ b \in Nat \ {0} /\ 1..b \subseteq 1..Length
    <3>1. \A d \in csv[s] : d \in Nat \ {0}
      BY <2>1 DEF AllDays
    <3>2. b \in csv[s] /\ \A d \in csv[s] : d <= b
      <4> HIDE DEF b
      <4>1. csv[s] \subseteq AllDays /\ csv[s] # {} /\ b = LastOf(csv[s])
        BY <2>1, <2>4
      <4>2. /\ csv[s] # {} => LastOf(csv[s]) \in csv[s]
            /\ \A d \in csv[s] : d <= LastOf(csv[s])
        BY <4>1, LastOfIs
      <4> QED BY <4>1, <4>2
    <3> HIDE DEF b
    <3>3. b \in Nat \ {0} /\ Bars(s) \subseteq 1..b
      BY <2>4, <3>1, <3>2
    <3>4. b \in Bars(s)
      <4>1. PICK d \in Bars(s) : TRUE
        BY <2>4
      <4>2. CASE dumping = "update"
        <5>1. d \in csv[s] /\ d > ends[s]
          BY <4>1, <4>2 DEF Bars, NewBars
        <5>2. b > ends[s]
          BY <2>1, <3>1, <3>2, <5>1
        <5> QED BY <3>2, <4>2, <5>2 DEF Bars, NewBars
      <4>3. CASE dumping # "update"
        BY <3>2, <4>3 DEF Bars
      <4> QED BY <4>2, <4>3
    <3>5. Bars(s) \in SUBSET Nat /\ \A d \in Bars(s) : d <= b
      BY <3>3
    <3>6. Max(Bars(s)) = b
      BY <3>4, <3>5, MaxIs
    <3>7. 1..b \subseteq 1..Length
      BY <2>1, <2>4, <3>3
    <3> QED BY <3>3, <3>4, <3>6, <3>7
  <2> HIDE DEF b
  <2> DEFINE BinIsWhole == \E bin \in Seq(Nat), first \in Nat :
                 /\ features' = [features EXCEPT ![s] = bin]
                 /\ starts' = [starts EXCEPT ![s] = first]
                 /\ Fits(bin, first, b)
  <2>6. ASSUME dumping = "update" /\ ends[s] # 0 PROVE BinIsWhole
    <3>1. EndsAt(s, ends[s]) /\ NoGap(csv, s, calendarTxt) /\ Bars(s) = NewBars(csv, s)
      BY <2>2, <2>6 DEF ToAppend, Bars
    <3>2. Fits(features[s], starts[s], ends[s]) /\ features[s] \in Seq(Nat)
      BY <2>1, <2>6, <3>1 DEF EndsAt
    <3>3. features[s] # <<>>
      BY <3>2 DEF Fits
    <3>4. features' = [features EXCEPT ![s] = features[s] \o Merge(Bars(s), UpdateCalendar(s))]
          /\ starts' = starts
      <4>1. WriteBin(s, Merge(Bars(s), UpdateCalendar(s)), 0)
        BY <1>1, <2>6
      <4> QED BY <2>6, <3>3, <4>1 DEF WriteBin
    <3>5. Bars(s) = (ends[s] + 1)..b /\ ends[s] < b
      <4>1. Bars(s) = {d \in 1..Length : ends[s] < d /\ d <= b}
        BY <2>1, <2>4, <2>6, <3>1, PlainRange DEF NoGap
      <4>2. ends[s] < b
        BY <2>5, <4>1
      <4> QED BY <2>1, <2>4, <2>5, <4>1, <4>2
    <3> DEFINE bin == features[s] \o Merge(Bars(s), UpdateCalendar(s))
    <3>6. bin \in Seq(Nat) /\ Fits(bin, starts[s], b)
      <4>1. UpdateCalendar(s) = [k \in 1..(b - ends[s]) |-> ends[s] + k]
        BY <2>1, <2>5, <3>5, OwnDays
      <4>2. /\ features[s] \in Seq(Nat) /\ starts[s] \in Nat /\ ends[s] \in Nat /\ b \in Nat
            /\ ends[s] < b /\ Fits(features[s], starts[s], ends[s])
        BY <2>1, <2>5, <3>2, <3>5
      <4>3. /\ features[s] \o Merge((ends[s] + 1)..b, UpdateCalendar(s)) \in Seq(Nat)
            /\ Fits(features[s] \o Merge((ends[s] + 1)..b, UpdateCalendar(s)), starts[s], b)
        BY <4>1, <4>2, MoreBars, ZenonT(60)
      <4> QED BY <3>5, <4>3
    <3>7. starts[s] \in Nat
      BY <2>1
    <3> HIDE DEF bin
    <3>8. features' = [features EXCEPT ![s] = bin]
      BY <3>4 DEF bin
    <3>9. starts' = [starts EXCEPT ![s] = starts[s]]
      BY <2>1, <3>4
    <3> QED BY <3>6, <3>7, <3>8, <3>9
  <2>7. ASSUME ~(dumping = "update" /\ ends[s] # 0) PROVE BinIsWhole
    <3>1. ~(dumping = "update" /\ features[s] # <<>>)
      BY <2>2, <2>7 DEF ToAppend, EndsAt
    <3> DEFINE bin == Merge(Bars(s), CoveredDays(Bars(s), calendarTxt))
               first == IndexIn(calendarTxt, Min(Bars(s)))
    <3>2. features' = [features EXCEPT ![s] = bin] /\ starts' = [starts EXCEPT ![s] = first]
      <4>1. WriteBin(s, bin, first)
        BY <1>1, <2>7
      <4> QED BY <3>1, <4>1 DEF WriteBin
    <3>3. Bars(s) \subseteq 1..Length /\ Bars(s) # {}
      BY <2>4, <2>5
    <3>4. bin \in Seq(Nat) /\ first \in Nat /\ Fits(bin, first, b)
      BY <2>1, <2>5, <3>3, NewBin
    <3> QED BY <3>2, <3>4
  <2>8. PICK bin \in Seq(Nat), first \in Nat :
             /\ features' = [features EXCEPT ![s] = bin] /\ starts' = [starts EXCEPT ![s] = first]
             /\ Fits(bin, first, b)
    BY <2>6, <2>7
  <2>9. /\ features' \in [Code -> Seq(Nat)] /\ starts' \in [Code -> Nat]
        /\ features'[s] = bin /\ starts'[s] = first
        /\ \A u \in Code \ {s} : features'[u] = features[u] /\ starts'[u] = starts[u]
    BY <2>1, <2>8
  <2>10. Length' = Length
    BY <1>1 DEF Length
  <2>11. /\ dumping' = "update" => EndsAt(s, newEnds[s])'
         /\ dumping' = "all" => EndsAt(s, ends[s])'
    BY <1>1, <2>1, <2>4, <2>5, <2>8, <2>9, <2>10 DEF EndsAt, b
  <2>12. ASSUME NEW u \in Code \ {s}
         PROVE  /\ (u \in todo' <=> u \in todo)
                /\ EndsAt(u, ends[u])' = EndsAt(u, ends[u])
                /\ EndsAt(u, newEnds[u])' = EndsAt(u, newEnds[u])
                /\ ToWrite(u)' = ToWrite(u) /\ ToAppend(u)' = ToAppend(u)
    <3>1. u \in todo' <=> u \in todo
      BY <1>1
    <3>2. EndsAt(u, ends[u])' = EndsAt(u, ends[u])
      BY <1>1, <2>9, <2>10 DEF EndsAt
    <3>3. EndsAt(u, newEnds[u])' = EndsAt(u, newEnds[u])
      BY <1>1, <2>9, <2>10 DEF EndsAt
    <3>4. ToWrite(u)' = ToWrite(u)
      BY <1>1, <2>9, <2>10 DEF ToWrite
    <3>5. NewBars(csv, u)' = NewBars(csv, u) /\ NoGap(csv, u, calendarTxt)' = NoGap(csv, u, calendarTxt)
      BY <1>1 DEF NewBars, NoGap
    <3>6. ToAppend(u)' = ToAppend(u)
      BY <1>1, <2>10, <3>2, <3>5 DEF ToAppend
    <3> QED BY <3>1, <3>2, <3>3, <3>4, <3>6
  <2>13. \A u \in Code : NewBars(csv, u)' = NewBars(csv, u)
    BY <1>1 DEF NewBars
  <2>14. s \notin todo'
    BY <1>1
  <2>15. dumping' = "all" => \A u \in Code : /\ u \in todo' => ToWrite(u)'
                                             /\ u \notin todo' => EndsAt(u, ends[u])'
    <3> SUFFICES ASSUME dumping' = "all", NEW u \in Code
                 PROVE  (u \in todo' => ToWrite(u)') /\ (u \notin todo' => EndsAt(u, ends[u])')
      OBVIOUS
    <3>1. CASE u = s
      BY <2>11, <2>14, <3>1
    <3>2. CASE u # s
      <4>1. (u \in todo => ToWrite(u)) /\ (u \notin todo => EndsAt(u, ends[u]))
        BY <1>1, <1>3 DEF InPlace
      <4> QED BY <2>12, <3>2, <4>1
    <3> QED BY <3>1, <3>2
  <2>16. dumping' = "update" =>
             \A u \in Code : /\ u \in todo' => ToAppend(u)'
                             /\ u \notin todo' => EndsAt(u, newEnds[u])'
                             /\ NewBars(csv, u)' = {} => newEnds'[u] = ends'[u]
    <3> SUFFICES ASSUME dumping' = "update", NEW u \in Code
                 PROVE  /\ u \in todo' => ToAppend(u)'
                        /\ u \notin todo' => EndsAt(u, newEnds[u])'
                        /\ NewBars(csv, u)' = {} => newEnds'[u] = ends'[u]
      OBVIOUS
    <3>1. NewBars(csv, u)' = {} => newEnds'[u] = ends'[u]
      BY <1>1, <1>3, <2>13 DEF InPlace
    <3>2. CASE u = s
      BY <2>11, <2>14, <3>1, <3>2
    <3>3. CASE u # s
      <4>1. (u \in todo => ToAppend(u)) /\ (u \notin todo => EndsAt(u, newEnds[u]))
        BY <1>1, <1>3 DEF InPlace
      <4> QED BY <2>12, <3>1, <3>3, <4>1
    <3> QED BY <3>2, <3>3
  <2>17. dumping' # "no"
    BY <1>1, <2>1
  <2>18. \A u \in Code : twice'[u] = {}
    BY <1>1, <2>1
  <2> QED BY <2>9, <2>15, <2>16, <2>17, <2>18 DEF InPlace
<1> QED BY <1>1, <1>2, <1>3 DEF DumpInv

LEMMA DoneStep ==
    ASSUME DumpInv, DumpDone
    PROVE  DumpInv'
<1>1. /\ dumping \in {"all", "update"} /\ todo = {} /\ dumping' = "no" /\ todo' = todo
      /\ newEnds' = [s \in Code |-> 0] /\ csv' = [s \in Code |-> {}]
      /\ calendarTxt' = calendarTxt /\ torn' = torn /\ gapped' = gapped /\ doubled' = doubled
      /\ twice' = [s \in Code |-> {}]
  BY DEF DumpDone, DumpInv, DumpShape
<1>2. CalendarPlain' /\ Length' = Length
  BY <1>1 DEF DumpInv, CalendarPlain, Length
<1>3. CASE dumping = "update"
  <2>1. /\ ends' = [s \in Code |-> IF Stale(s) THEN 0 ELSE newEnds[s]]
        /\ features' = [s \in Code |-> IF Stale(s) THEN <<>> ELSE features[s]]
        /\ starts' = [s \in Code |-> IF Stale(s) THEN 0 ELSE starts[s]]
    BY <1>3 DEF DumpDone
  <2>2. DumpShape'
    <3>1. ends' \in [Code -> Nat] /\ newEnds' \in [Code -> Nat] /\ csv' \in [Code -> SUBSET AllDays]
          /\ twice' \in [Code -> SUBSET AllDays]
      BY <1>1, <2>1 DEF DumpInv, DumpShape
    <3> QED BY <1>1, <3>1 DEF DumpInv, DumpShape
  <2>3. ASSUME InPlace PROVE InPlace'
    <3>1. \A s \in Code : features[s] \in Seq(Nat) /\ starts[s] \in Nat /\ EndsAt(s, newEnds[s])
      BY <1>1, <1>3, <2>3 DEF InPlace
    <3>2. features' \in [Code -> Seq(Nat)] /\ starts' \in [Code -> Nat]
      <4>1. <<>> \in Seq(Nat)
        OBVIOUS
      <4> QED BY <2>1, <3>1, <4>1
    <3>3. ASSUME NEW s \in Code PROVE EndsAt(s, ends[s])'
      <4>1. CASE Stale(s)
        BY <2>1, <4>1 DEF EndsAt
      <4>2. CASE ~Stale(s)
        <5>1. ends'[s] = newEnds[s] /\ features'[s] = features[s] /\ starts'[s] = starts[s]
          BY <2>1, <4>2
        <5> QED BY <1>2, <3>1, <5>1 DEF EndsAt
      <4> QED BY <4>1, <4>2
    <3> QED BY <1>1, <3>2, <3>3 DEF InPlace
  <2> QED BY <1>1, <1>2, <2>2, <2>3 DEF DumpInv
<1>4. CASE dumping = "all"
  <2>1. ends' = ends /\ features' = features /\ starts' = starts
    BY <1>4 DEF DumpDone
  <2>2. DumpShape'
    <3>1. newEnds' \in [Code -> Nat] /\ csv' \in [Code -> SUBSET AllDays]
          /\ twice' \in [Code -> SUBSET AllDays]
      BY <1>1
    <3> QED BY <1>1, <2>1, <3>1 DEF DumpInv, DumpShape
  <2>3. ASSUME InPlace PROVE InPlace'
    <3>1. \A s \in Code : EndsAt(s, ends[s])
      BY <1>1, <1>4, <2>3 DEF InPlace
    <3>2. \A s \in Code : EndsAt(s, ends[s])'
      BY <1>2, <2>1, <3>1 DEF EndsAt
    <3> QED BY <1>1, <2>1, <2>3, <3>2 DEF InPlace
  <2> QED BY <1>1, <1>2, <2>2, <2>3 DEF DumpInv
<1> QED BY <1>1, <1>3, <1>4

LEMMA KilledStep ==
    ASSUME DumpInv, DumpKilled
    PROVE  DumpInv'
<1>1. /\ dumping \in {"all", "update"} /\ todo' = {} /\ dumping' = "no"
      /\ torn' = (torn \/ dumping = "all" \/ todo = {} \/ todo # {s \in Code : NewBars(csv, s) # {}})
      /\ newEnds' = [s \in Code |-> 0] /\ csv' = [s \in Code |-> {}]
      /\ twice' = [s \in Code |-> {}] /\ doubled' = doubled
      /\ calendarTxt' = calendarTxt /\ gapped' = gapped
      /\ ends' = ends /\ features' = features /\ starts' = starts
  BY DEF DumpKilled, DumpInv, DumpShape, diskFilesVars
<1>2. CalendarPlain' /\ Length' = Length
  BY <1>1 DEF DumpInv, CalendarPlain, Length
<1>3. DumpShape'
  <2>1. newEnds' \in [Code -> Nat] /\ csv' \in [Code -> SUBSET AllDays]
        /\ twice' \in [Code -> SUBSET AllDays] /\ torn' \in BOOLEAN
    BY <1>1
  <2> QED BY <1>1, <2>1 DEF DumpInv, DumpShape
<1>4. ASSUME ~torn', ~gapped', ~doubled' PROVE InPlace'
  <2>1. /\ InPlace /\ dumping = "update"
        /\ todo = {s \in Code : NewBars(csv, s) # {}}
    BY <1>1, <1>4 DEF DumpInv
  <2>2. \A s \in Code : EndsAt(s, ends[s])
    <3> TAKE s \in Code
    <3>1. CASE s \in todo
      BY <2>1, <3>1 DEF InPlace, ToAppend
    <3>2. CASE s \notin todo
      <4>1. EndsAt(s, newEnds[s]) /\ newEnds[s] = ends[s]
        BY <2>1, <3>2 DEF InPlace
      <4> QED BY <4>1
    <3> QED BY <3>1, <3>2
  <2>3. \A s \in Code : EndsAt(s, ends[s])'
    BY <1>1, <1>2, <2>2 DEF EndsAt
  <2> QED BY <1>1, <2>1, <2>3 DEF InPlace
<1> QED BY <1>2, <1>3, <1>4 DEF DumpInv

LEMMA RaisesStep ==
    ASSUME DumpInv, NEW s \in Code, WorkerRaises(s)
    PROVE  DumpInv'
<1>1. /\ torn' = TRUE /\ csv' = csv /\ calendarTxt' = calendarTxt /\ ends' = ends
      /\ newEnds' = newEnds /\ gapped' = gapped /\ doubled' = doubled /\ twice' = twice
      /\ dumping' \in {"no", "all", "update"} /\ todo' \subseteq Code
  BY DEF WorkerRaises, diskFilesVars, DumpInv, DumpShape
<1>2. DumpShape' /\ CalendarPlain'
  BY <1>1 DEF DumpInv, DumpShape, CalendarPlain, Length
<1> QED BY <1>1, <1>2 DEF DumpInv

LEMMA DumpKeeps == DumpInv /\ [DumpNext]_dumpVars => DumpInv'
<1> SUFFICES ASSUME DumpInv, [DumpNext]_dumpVars PROVE DumpInv'
  OBVIOUS
<1>1. CASE UNCHANGED dumpVars
  BY <1>1 DEF dumpVars, diskFilesVars, DumpInv, DumpShape, CalendarPlain, Length, InPlace, EndsAt,
              ToWrite, ToAppend, NewBars, NoGap
<1>2. CASE DumpNext
  BY <1>2, CutStep, AllStep, DumpUpdateStep, SymbolStep, RaisesStep, DoneStep, KilledStep DEF DumpNext
<1> QED BY <1>1, <1>2

LEMMA DumpIsInductive == DumpSpec => []DumpInv
BY DumpInits, DumpKeeps, PTL DEF DumpSpec

LEMMA BinsAreInPlace == DumpInv => BinsInPlace
<1> SUFFICES ASSUME DumpInv, dumping = "no", ~torn, ~gapped, ~doubled, NEW s \in Code, ends[s] # 0
             PROVE  /\ features[s] # <<>>
                    /\ \A i \in DOMAIN features[s] :
                          features[s][i] # NaN => calendarTxt[starts[s] + i] = features[s][i]
                    /\ Last(features[s]) = ends[s]
  BY DEF BinsInPlace
<1>1. /\ Fits(features[s], starts[s], ends[s]) /\ ends[s] <= Length
      /\ features[s] \in Seq(Nat) /\ starts[s] \in Nat /\ ends[s] \in Nat
      /\ \A i \in 1..Length : calendarTxt[i] = i
  BY DEF DumpInv, DumpShape, InPlace, EndsAt, CalendarPlain
<1>2. DOMAIN features[s] = 1..Len(features[s]) /\ Len(features[s]) \in Nat /\ Length \in Nat
  <2>1. Length \in Nat
    BY PlainRange DEF DumpInv
  <2>2. DOMAIN features[s] = 1..Len(features[s]) /\ Len(features[s]) \in Nat
    BY <1>1, LenProperties
  <2> QED BY <2>1, <2>2
<1>3. features[s] # <<>> /\ Last(features[s]) = ends[s]
  BY <1>1 DEF Fits, Last
<1>4. ASSUME NEW i \in DOMAIN features[s], features[s][i] # NaN
      PROVE  calendarTxt[starts[s] + i] = features[s][i]
  <2>1. features[s][i] = starts[s] + i /\ starts[s] + Len(features[s]) = ends[s]
    BY <1>1, <1>2, <1>4 DEF Fits
  <2>2. i \in 1..Len(features[s]) /\ i \in Nat \ {0}
    BY <1>2, <1>4
  <2>3. starts[s] + i <= ends[s] /\ starts[s] + i \in Nat \ {0}
    BY <1>1, <1>2, <2>1, <2>2
  <2>4. starts[s] + i \in 1..Length
    BY <1>1, <1>2, <2>3
  <2> QED BY <1>1, <2>1, <2>4
<1> QED BY <1>3, <1>4

\* However many downloads are added to the files of a directory, and symbols come and go,
\* each value of a bin is at the index of its own day and the last one at the end date of
\* all.txt, unless a run was stopped half-way or left fewer days in the calendar, or a csv
\* file left out a day or had two rows of one.
THEOREM DumpsAreInPlace == DumpSpec => []BinsInPlace
BY DumpIsInductive, BinsAreInPlace, PTL

-----------------------------------------------------------------------------
(* YahooUpdate: what the invariant is made of.                              *)

YahooShape ==
    /\ market \in Seq(Events) /\ Len(market) # 0 /\ market[1] = "flat"
    /\ reportsHalts \in BOOLEAN /\ noOverlap \in BOOLEAN
    /\ kept \in Seq(BarSet) /\ Len(kept) <= dayEnd
    /\ dayEnd \in 0..Len(market) /\ (dayEnd # 0 => Len(kept) # 0)
    /\ latestMap \in [calendar : Nat, date : Nat, bar : BarSet]

\* A map that is still good knows a stored bar, and the calendar grows.
MapTrue ==
    /\ latestMap.calendar <= dayEnd
    /\ dayEnd # 0 /\ latestMap.calendar = dayEnd =>
          latestMap.date \in 1..Len(kept) /\ latestMap.bar = kept[latestMap.date]

\* Bars that were stored since the map was made came in a download that has the day of
\* the map or an earlier one.
MapOverlaps ==
    ~noOverlap /\ dayEnd # 0 /\ latestMap.calendar = dayEnd /\ latestMap.date < Len(kept) =>
        \E d \in Reported(Eve(dayEnd), dayEnd) : d <= latestMap.date

\* A bar scaled by c.
Scale(bar, d, c) == bar.traded => /\ bar.close = Wealth(d) - c
                                  /\ bar.close + bar.volume = Price(d)

OneScale == ~noOverlap => \E c \in Int : \A d \in 1..Len(kept) : Scale(kept[d], d, c)

YahooInv == YahooShape /\ MapTrue /\ MapOverlaps /\ OneScale

-----------------------------------------------------------------------------
(* Counts.                                                                  *)

LEMMA FewDays ==
    ASSUME NEW event, NEW from \in Int, NEW to \in Int
    PROVE  IsFiniteSet({d \in from..to : market[d] = event})
<1>1. IsFiniteSet(from..to)
  BY FS_Interval
<1>2. {d \in from..to : market[d] = event} \in SUBSET (from..to)
  OBVIOUS
<1> QED BY <1>1, <1>2, FS_Subset

LEMMA CountIs ==
    ASSUME NEW event, NEW from \in Int, NEW to \in Int
    PROVE  Count(event, from, to) \in Nat
BY FewDays, FS_CardinalityType DEF Count

LEMMA CountSplits ==
    ASSUME NEW event, NEW n \in Nat, NEW d \in 0..n
    PROVE  Count(event, 1, n) = Count(event, 1, d) + Count(event, d + 1, n)
<1> DEFINE A == {x \in 1..d : market[x] = event}
           B == {x \in (d + 1)..n : market[x] = event}
<1>1. IsFiniteSet(A) /\ IsFiniteSet(B)
  <2>1. 1 \in Int /\ d \in Int /\ d + 1 \in Int /\ n \in Int
    OBVIOUS
  <2> QED BY <2>1, FewDays
<1>2. A \union B = {x \in 1..n : market[x] = event} /\ A \intersect B = {}
  OBVIOUS
<1>3. Cardinality(A) \in Nat /\ Cardinality(B) \in Nat
  BY <1>1, FS_CardinalityType
<1> HIDE DEF A, B
<1>4. Cardinality(A \union B) = Cardinality(A) + Cardinality(B) - Cardinality(A \intersect B)
  BY <1>1, FS_Union
<1>5. Cardinality(A \union B) = Cardinality(A) + Cardinality(B)
  BY <1>2, <1>3, <1>4, FS_EmptySet
<1> QED BY <1>2, <1>5 DEF Count, A, B

LEMMA PricesAre ==
    ASSUME NEW d \in Int
    PROVE  Price(d) \in Int /\ Wealth(d) \in Int
BY CountIs DEF Price, Wealth

\* A day added leaves the earlier counts as they are.
LEMMA CountStays ==
    ASSUME NEW event, NEW from \in Nat, NEW to \in Nat, from # 0,
           \A x \in 1..to : market'[x] = market[x]
    PROVE  Count(event, from, to)' = Count(event, from, to)
<1>1. {x \in from..to : market'[x] = event} = {x \in from..to : market[x] = event}
  OBVIOUS
<1> QED BY <1>1 DEF Count

LEMMA EventsKnown ==
    ASSUME market \in Seq(Events)
    PROVE  Len(market) \in Nat /\ \A d \in 1..Len(market) : market[d] \in Events
BY LenProperties, ElementOfSeq

-----------------------------------------------------------------------------
(* A download.                                                              *)

\* Closes are wealths and turnovers prices, up to one constant.
LEMMA NormalizedIs ==
    ASSUME market \in Seq(Events), NEW days, days \subseteq 1..Len(market), days # {}
    PROVE  /\ DOMAIN Normalized(days) = Min(days)..Max(days)
           /\ \A d \in Min(days)..Max(days) : Normalized(days)[d] \in BarSet
           /\ \E c \in Int : \A d \in Min(days)..Max(days) : Scale(Normalized(days)[d], d, c)
<1> DEFINE upto  == Len(market)
           valid == {d \in days : TradedOn(d)}
           first == IF valid = {} THEN 0 ELSE Close(Min(valid), upto) + Factor(Min(valid), upto)
           bar(d) == IF ~TradedOn(d) THEN NoBar
                     ELSE [traded |-> TRUE,
                           close  |-> Close(d, upto) + Factor(d, upto) - first,
                           volume |-> Volume(d, upto) - Factor(d, upto) + first]
           lo == Min(days)
           hi == Max(days)
<1>1. upto \in Nat
  BY LenProperties
<1>2. lo \in 1..upto /\ hi \in 1..upto
  BY <1>1, Extremes
<1>3. \A d \in Int : Close(d, upto) \in Int /\ Factor(d, upto) \in Int /\ Volume(d, upto) \in Int
  <2> SUFFICES ASSUME NEW d \in Int
               PROVE  Close(d, upto) \in Int /\ Factor(d, upto) \in Int /\ Volume(d, upto) \in Int
    OBVIOUS
  <2> HIDE DEF upto
  <2>1. d + 1 \in Int /\ upto \in Int
    BY <1>1
  <2>2. Count("split", d + 1, upto) \in Nat /\ Count("dividend", d + 1, upto) \in Nat
    BY <2>1, CountIs
  <2>3. Price(d) \in Int
    BY PricesAre
  <2> QED BY <2>2, <2>3 DEF Close, Factor, Volume
<1>4. first \in Int
  <2>1. CASE valid = {}
    BY <2>1
  <2>2. CASE valid # {}
    <3>1. Min(valid) \in Int
      <4>1. \A d \in valid : d \in Nat
        BY <1>1
      <4> HIDE DEF valid
      <4>2. valid \in SUBSET Nat
        BY <4>1
      <4>3. Min(valid) \in valid
        BY <2>2, <4>2, MinIsLeast
      <4>4. Min(valid) \in Nat
        BY <4>1, <4>3
      <4> QED BY <4>4
    <3>2. Close(Min(valid), upto) \in Int /\ Factor(Min(valid), upto) \in Int
      BY <1>3, <3>1
    <3> HIDE DEF valid, upto
    <3> QED BY <2>2, <3>2
  <2> QED BY <2>1, <2>2
<1> DEFINE c == Count("split", 1, upto) + Count("dividend", 1, upto) + first
<1>5. c \in Int
  <2> HIDE DEF first, upto
  <2>1. Count("split", 1, upto) \in Nat /\ Count("dividend", 1, upto) \in Nat
    BY <1>1, CountIs
  <2> QED BY <1>4, <2>1
<1>6. Normalized(days) = [d \in lo..hi |-> bar(d)]
  BY DEF Normalized
<1> HIDE DEF first, c
<1>7. ASSUME NEW d \in lo..hi PROVE bar(d) \in BarSet /\ Scale(bar(d), d, c)
  <2>1. d \in 0..upto /\ d \in Int
    BY <1>1, <1>2
  <2>2. CASE ~TradedOn(d)
    <3>1. bar(d) = NoBar
      BY <2>2
    <3> QED BY <3>1 DEF NoBar, BarSet, Scale
  <2>3. CASE TradedOn(d)
    <3> DEFINE x == Close(d, upto) + Factor(d, upto) - first
               y == Volume(d, upto) - Factor(d, upto) + first
               s == Count("split", d + 1, upto)
               v == Count("dividend", d + 1, upto)
    <3>1. bar(d) = [traded |-> TRUE, close |-> x, volume |-> y]
      BY <2>3
    <3>2. x \in Int /\ y \in Int
      <4>1. Close(d, upto) \in Int /\ Factor(d, upto) \in Int /\ Volume(d, upto) \in Int
        BY <1>3, <2>1
      <4> HIDE DEF upto
      <4> QED BY <1>4, <4>1
    <3>3. s \in Nat /\ v \in Nat
      <4> HIDE DEF upto
      <4> QED BY <1>1, <2>1, CountIs
    <3>4. /\ Count("split", 1, upto) = Count("split", 1, d) + s
          /\ Count("dividend", 1, upto) = Count("dividend", 1, d) + v
      <4> HIDE DEF upto
      <4> QED BY <1>1, <2>1, CountSplits
    <3>5. /\ Count("split", 1, d) \in Nat /\ Count("dividend", 1, d) \in Nat
          /\ Count("up", 1, d) \in Nat
      BY <2>1, CountIs
    <3>6. x = Wealth(d) - c
      <4>1. x = (Count("up", 1, d) - Count("split", 1, d) - Count("dividend", 1, d)) - s + (-v) - first
        BY DEF Close, Price, Factor
      <4> HIDE DEF x, s, v, upto
      <4>2. c = Count("split", 1, upto) + Count("dividend", 1, upto) + first
        BY DEF c
      <4> QED BY <1>4, <3>3, <3>4, <3>5, <4>1, <4>2, SMTT(30) DEF Wealth
    <3>7. x + y = Price(d)
      <4>1. x = Price(d) - s + (-v) - first /\ y = s - (-v) + first
        BY DEF Close, Factor, Volume
      <4>2. Price(d) \in Int
        BY <2>1, PricesAre
      <4> HIDE DEF x, y, s, v
      <4> QED BY <1>4, <3>3, <4>1, <4>2
    <3> HIDE DEF x, y, bar
    <3> QED BY <3>1, <3>2, <3>6, <3>7 DEF BarSet, Scale
  <2> QED BY <2>2, <2>3
<1> HIDE DEF bar, lo, hi
<1>8. \A d \in lo..hi : Normalized(days)[d] = bar(d)
  BY <1>6
<1>9. DOMAIN Normalized(days) = lo..hi
  BY <1>6
<1> QED BY <1>5, <1>7, <1>8, <1>9 DEF lo, hi

LEMMA IntervalIs ==
    ASSUME NEW a \in Nat, NEW b \in Nat
    PROVE  /\ Cardinality(a..b) = IF a > b THEN 0 ELSE b - a + 1
           /\ a <= b => Min(a..b) = a
<1>1. Cardinality(a..b) = IF a > b THEN 0 ELSE b - a + 1
  BY FS_Interval
<1>2. ASSUME a <= b PROVE Min(a..b) = a
  <2>1. a..b \in SUBSET Nat /\ a \in a..b /\ \A d \in a..b : a <= d /\ d \in Nat
    BY <1>2
  <2> DEFINE D == a..b
  <2>2. D \in SUBSET Nat /\ D # {} /\ a \in D /\ \A d \in D : a <= d /\ d \in Nat
    BY <2>1
  <2> HIDE DEF D
  <2>3. Min(D) \in D /\ \A d \in D : Min(D) <= d
    BY <2>2, MinIsLeast
  <2>4. Min(D) = a
    <3>1. Min(D) <= a /\ a <= Min(D) /\ Min(D) \in Nat
      BY <2>2, <2>3
    <3> QED BY <3>1
  <2> QED BY <2>4 DEF D
<1> QED BY <1>1, <1>2

\* The bars after those that are kept go behind them, each at the place of its day when no
\* day is left out.
LEMMA AppendedIs ==
    ASSUME kept \in Seq(BarSet), NEW x \in Nat, NEW y \in Nat,
           NEW bars, DOMAIN bars = x..y, \A d \in x..y : bars[d] \in BarSet
    PROVE  /\ Appended(bars) \in Seq(BarSet)
           /\ Len(Appended(bars)) >= Len(kept)
           /\ Len(Appended(bars)) > Len(kept) => Len(Appended(bars)) <= y /\ y > Len(kept)
           /\ \A d \in 1..Len(kept) : Appended(bars)[d] = kept[d]
           /\ x <= Len(kept) + 1 =>
                 \A d \in (Len(kept) + 1)..Len(Appended(bars)) : d \in x..y /\ Appended(bars)[d] = bars[d]
<1> DEFINE l == Len(kept)
           new == {d \in DOMAIN bars : d > l}
           a == IF x > l THEN x ELSE l + 1
           n == IF a > y THEN 0 ELSE y - a + 1
           fresh == [i \in 1..Cardinality(new) |-> bars[Min(new) + i - 1]]
<1>1. l \in Nat
  BY LenProperties
<1>2. a \in Nat /\ n \in Nat /\ new = a..y
  BY <1>1
<1>3. Cardinality(new) = n /\ (n # 0 => Min(new) = a)
  <2> HIDE DEF l, new, a
  <2> QED BY <1>2, IntervalIs
<1>4. \A i \in 1..n : Min(new) + i - 1 \in a..y /\ Min(new) + i - 1 = a + i - 1
  <2>1. \A i \in 1..n : n # 0
    BY <1>2
  <2> HIDE DEF l, new, a
  <2> QED BY <1>2, <1>3, <2>1
<1>5. \A d \in a..y : d \in x..y
  BY <1>1
<1>6. fresh = [i \in 1..n |-> bars[a + i - 1]]
  <2> HIDE DEF l, new, a, n
  <2> QED BY <1>3, <1>4
<1> HIDE DEF new
<1>7. \A i \in 1..n : bars[a + i - 1] \in BarSet
  BY <1>4, <1>5
<1>8. fresh \in Seq(BarSet) /\ Len(fresh) = n
  <2> DEFINE R == BarSet
  <2>1. fresh \in [1..n -> R]
    BY <1>6, <1>7
  <2> HIDE DEF fresh, n, R, l, a
  <2>2. fresh \in Seq(R)
    BY <1>2, <2>1
  <2>3. Len(fresh) = n
    BY <1>2, <2>1, <2>2, LenProperties
  <2> QED BY <2>2, <2>3 DEF R
<1>9. \A i \in 1..n : fresh[i] = bars[a + i - 1]
  BY <1>6
<1> DEFINE s == kept \o fresh
<1>10. Appended(bars) = s
  BY DEF Appended, new
<1> HIDE DEF fresh
<1>11. /\ s \in Seq(BarSet) /\ Len(s) = l + n
       /\ \A i \in 1..(l + n) : s[i] = IF i <= l THEN kept[i] ELSE fresh[i - l]
  <2> DEFINE R == BarSet
  <2> HIDE DEF R, n
  <2>1. kept \in Seq(R) /\ fresh \in Seq(R)
    BY <1>8 DEF R
  <2>2. /\ kept \o fresh \in Seq(R) /\ Len(kept \o fresh) = Len(kept) + Len(fresh)
        /\ \A i \in 1 .. Len(kept) + Len(fresh) : (kept \o fresh)[i] =
              IF i <= Len(kept) THEN kept[i] ELSE fresh[i - Len(kept)]
    BY <2>1, ConcatProperties
  <2> QED BY <1>8, <2>2 DEF R
<1> HIDE DEF s
<1>12. \A d \in 1..l : s[d] = kept[d]
  BY <1>1, <1>2, <1>11
<1>13. ASSUME x <= l + 1, NEW d \in (l + 1)..(l + n) PROVE d \in x..y /\ s[d] = bars[d]
  <2>1. a = l + 1
    BY <1>1, <1>13
  <2>2. d - l \in 1..n /\ a + (d - l) - 1 = d /\ d \in 1..(l + n) /\ ~(d <= l)
    BY <1>1, <1>2, <2>1
  <2>3. s[d] = fresh[d - l]
    BY <1>11, <2>2
  <2>4. d \in a..y
    BY <1>4, <2>2
  <2> QED BY <1>5, <1>9, <2>2, <2>3, <2>4
<1>14. l + n >= l /\ (l + n > l => l + n <= y /\ y > l)
  <2>1. a > l
    BY <1>1
  <2> HIDE DEF a, l
  <2>2. n = IF a > y THEN 0 ELSE y - a + 1
    OBVIOUS
  <2> HIDE DEF n
  <2> QED BY <1>1, <1>2, <2>1, <2>2
<1> QED BY <1>10, <1>11, <1>12, <1>13, <1>14

\* A scaled bar is of the scale of the stored one.
LEMMA ScaledIs ==
    ASSUME NEW bar \in BarSet, NEW old \in BarSet, NEW new \in BarSet, NEW d \in Int, NEW e \in Int,
           NEW c \in Int, NEW f \in Int, Scale(old, e, c), Scale(new, e, f), Scale(bar, d, f)
    PROVE  Scaled(bar, old, new) \in BarSet /\ Scale(Scaled(bar, old, new), d, c)
<1>1. CASE ~(bar.traded /\ old.traded /\ new.traded)
  <2>1. Scaled(bar, old, new) = NoBar
    BY <1>1 DEF Scaled
  <2> QED BY <2>1 DEF NoBar, BarSet, Scale
<1>2. CASE bar.traded /\ old.traded /\ new.traded
  <2> DEFINE x == bar.close + old.close - new.close
             y == bar.volume + old.volume - new.volume
  <2>1. Scaled(bar, old, new) = [traded |-> TRUE, close |-> x, volume |-> y]
    BY <1>2 DEF Scaled, BarSet
  <2>2. /\ bar.close \in Int /\ old.close \in Int /\ new.close \in Int
        /\ bar.volume \in Int /\ old.volume \in Int /\ new.volume \in Int
    BY DEF BarSet
  <2>3. /\ bar.close = Wealth(d) - f /\ bar.close + bar.volume = Price(d)
        /\ old.close = Wealth(e) - c /\ old.close + old.volume = Price(e)
        /\ new.close = Wealth(e) - f /\ new.close + new.volume = Price(e)
    BY <1>2 DEF Scale
  <2>4. Wealth(d) \in Int /\ Price(d) \in Int /\ Wealth(e) \in Int /\ Price(e) \in Int
    BY PricesAre
  <2>5. x \in Int /\ y \in Int /\ x = Wealth(d) - c /\ x + y = Price(d)
    BY <2>2, <2>3, <2>4
  <2> HIDE DEF x, y
  <2> QED BY <2>1, <2>5 DEF BarSet, Scale
<1> QED BY <1>1, <1>2

LEMMA ExtendedIs ==
    ASSUME market \in Seq(Events), NEW days, days \subseteq 1..Len(market), days # {},
           NEW latest, latest.date \in Nat, latest.bar \in BarSet
    PROVE  LET lo == Min(days)
               hi == Max(days)
               x  == IF latest.date \in lo..hi THEN latest.date + 1 ELSE lo
           IN  /\ DOMAIN Extended(days, latest) = x..hi
               /\ \A d \in x..hi : Extended(days, latest)[d] \in BarSet
               /\ latest.date \in lo..hi =>
                     \A c \in Int : Scale(latest.bar, latest.date, c) =>
                        \A d \in x..hi : Scale(Extended(days, latest)[d], d, c)
<1> DEFINE lo == Min(days)
           hi == Max(days)
           l == latest.date
           x == IF l \in lo..hi THEN l + 1 ELSE lo
           bars == Normalized(days)
           new == bars[l]
           ext == Extended(days, latest)
<1>1. DOMAIN bars = lo..hi /\ \A d \in lo..hi : bars[d] \in BarSet
  BY NormalizedIs
<1>2. PICK f \in Int : \A d \in lo..hi : Scale(bars[d], d, f)
  BY NormalizedIs
<1>3. lo \in Nat /\ hi \in Nat
  <2>1. Len(market) \in Nat
    BY LenProperties
  <2>2. lo \in days /\ hi \in days
    BY <2>1, Extremes
  <2>3. \A d \in days : d \in Nat
    BY <2>1
  <2> QED BY <2>2, <2>3
<1>4. ext = IF l \notin DOMAIN bars THEN bars
            ELSE [d \in {e \in DOMAIN bars : e > l} |-> Scaled(bars[d], latest.bar, new)]
  BY DEF Extended
<1> HIDE DEF bars, ext, lo, hi
<1>5. CASE l \in lo..hi
  <2>1. {e \in DOMAIN bars : e > l} = x..hi
    BY <1>1, <1>3, <1>5
  <2>2. ext = [d \in x..hi |-> Scaled(bars[d], latest.bar, new)]
    BY <1>1, <1>4, <1>5, <2>1
  <2>3. \A d \in x..hi : d \in lo..hi
    BY <1>3, <1>5
  <2>4. new \in BarSet /\ Scale(new, l, f)
    BY <1>1, <1>2, <1>5
  <2>5. ASSUME NEW d \in x..hi PROVE Scaled(bars[d], latest.bar, new) \in BarSet
    <3>1. bars[d] \in BarSet
      BY <1>1, <2>3
    <3> HIDE DEF new, x
    <3>2. /\ bars[d].close \in Int /\ bars[d].volume \in Int
          /\ bars[d] = [traded |-> bars[d].traded, close |-> bars[d].close, volume |-> bars[d].volume]
          /\ new.close \in Int /\ new.volume \in Int /\ latest.bar.close \in Int /\ latest.bar.volume \in Int
      BY <2>4, <3>1 DEF BarSet
    <3>3. CASE bars[d].traded /\ latest.bar.traded /\ new.traded
      <4> DEFINE u == bars[d].close + latest.bar.close - new.close
                 v == bars[d].volume + latest.bar.volume - new.volume
      <4>1. Scaled(bars[d], latest.bar, new) = [traded |-> TRUE, close |-> u, volume |-> v]
        BY <3>1, <3>3, ZenonT(60) DEF Scaled, BarSet
      <4>2. u \in Int /\ v \in Int
        BY <3>2, SMTT(30)
      <4> HIDE DEF u, v
      <4> QED BY <4>1, <4>2 DEF BarSet
    <3>4. CASE ~(bars[d].traded /\ latest.bar.traded /\ new.traded)
      <4>1. Scaled(bars[d], latest.bar, new) = NoBar
        BY <3>4 DEF Scaled
      <4> QED BY <4>1 DEF NoBar, BarSet
    <3> QED BY <3>3, <3>4
  <2>6. ASSUME NEW c \in Int, Scale(latest.bar, l, c), NEW d \in x..hi
        PROVE  Scale(Scaled(bars[d], latest.bar, new), d, c)
    <3>1. bars[d] \in BarSet /\ Scale(bars[d], d, f) /\ d \in Int /\ l \in Int
      BY <1>1, <1>2, <2>3
    <3> HIDE DEF new, x, l
    <3> QED BY <2>4, <2>6, <3>1, ScaledIs
  <2>7. \A d \in x..hi : ext[d] = Scaled(bars[d], latest.bar, new)
    BY <2>2
  <2>8. DOMAIN ext = x..hi
    BY <2>2
  <2> HIDE DEF x, new, l
  <2> QED BY <2>5, <2>6, <2>7, <2>8 DEF x, l, lo, hi, ext
<1>6. CASE l \notin lo..hi
  <2>1. ext = bars /\ x = lo
    BY <1>1, <1>4, <1>6
  <2> QED BY <1>1, <1>6, <2>1 DEF lo, hi, ext
<1> QED BY <1>5, <1>6

LEMMA YahooInits == YahooInit => YahooInv
<1> SUFFICES ASSUME YahooInit PROVE YahooInv
  OBVIOUS
<1>1. market = <<"flat">> /\ kept = <<>> /\ dayEnd = 0 /\ noOverlap = FALSE /\ reportsHalts \in BOOLEAN
  BY DEF YahooInit
<1>2. market \in Seq(Events) /\ Len(market) = 1 /\ market[1] = "flat"
  BY <1>1 DEF Events
<1>3. kept \in Seq(BarSet) /\ Len(kept) = 0
  BY <1>1
<1>4. latestMap = [calendar |-> 0, date |-> 0, bar |-> NoBar]
  BY DEF YahooInit
<1>5. NoBar \in BarSet
  BY DEF NoBar, BarSet
<1>6. YahooShape
  <2>1. latestMap \in [calendar : Nat, date : Nat, bar : BarSet]
    BY <1>4, <1>5
  <2>2. dayEnd \in 0..Len(market) /\ Len(market) # 0 /\ Len(kept) <= dayEnd
    BY <1>1, <1>2, <1>3
  <2> QED BY <1>1, <1>2, <1>3, <2>1, <2>2 DEF YahooShape
<1>7. MapTrue /\ MapOverlaps
  BY <1>1, <1>4 DEF MapTrue, MapOverlaps
<1>8. OneScale
  <2>1. \A d \in 1..Len(kept) : FALSE
    BY <1>3
  <2>2. 0 \in Int
    OBVIOUS
  <2> QED BY <2>1, <2>2 DEF OneScale
<1> QED BY <1>6, <1>7, <1>8 DEF YahooInv

\* The past of the market stays.
LEMMA TradeDayStep == ASSUME YahooInv, TradeDayEnds PROVE YahooInv'
<1> DEFINE n == Len(market)
<1>1. PICK event \in Events : market' = Append(market, event)
  BY DEF TradeDayEnds
<1>2. /\ UNCHANGED <<reportsHalts, kept, dayEnd, latestMap, noOverlap>>
      /\ YahooShape /\ MapTrue /\ MapOverlaps /\ OneScale
  BY DEF TradeDayEnds, YahooInv
<1>3. market \in Seq(Events) /\ n \in Nat /\ n # 0
  BY <1>2, LenProperties DEF YahooShape
<1>4. market' \in Seq(Events) /\ Len(market') = n + 1 /\ \A d \in 1..n : market'[d] = market[d]
  BY <1>1, <1>3
<1> HIDE DEF n
<1>5. ASSUME NEW d \in 0..n PROVE Wealth(d)' = Wealth(d) /\ Price(d)' = Price(d)
  <2>1. d \in Nat /\ 1 \in Nat /\ 1 # 0 /\ \A x \in 1..d : market'[x] = market[x]
    BY <1>3, <1>4
  <2>2. \A event2 \in Events : Count(event2, 1, d)' = Count(event2, 1, d)
    BY <2>1, CountStays
  <2>3. {"up", "split", "dividend"} \subseteq Events
    BY DEF Events
  <2> QED BY <2>2, <2>3 DEF Wealth, Price
<1>6. YahooShape'
  <2>1. market'[1] = "flat"
    BY <1>2, <1>3, <1>4 DEF YahooShape
  <2>2. dayEnd \in 0..n /\ Len(market') # 0 /\ dayEnd \in 0..Len(market')
    BY <1>2, <1>3, <1>4 DEF YahooShape, n
  <2> QED BY <1>2, <1>4, <2>1, <2>2 DEF YahooShape
<1>7. MapTrue'
  BY <1>2 DEF MapTrue
<1>8. MapOverlaps'
  <2> SUFFICES ASSUME dayEnd # 0 PROVE MapOverlaps'
    BY <1>2 DEF MapOverlaps
  <2>1. dayEnd \in 1..n /\ dayEnd' = dayEnd
    BY <1>2, <1>3 DEF YahooShape, n
  <2>2. Reported(Eve(dayEnd), dayEnd)' = Reported(Eve(dayEnd), dayEnd)
    <3>1. \A d \in Eve(dayEnd)..dayEnd : d \in 1..n
      BY <1>3, <2>1 DEF Eve
    <3>2. \A d \in Eve(dayEnd)..dayEnd : market'[d] = market[d]
      BY <1>4, <3>1
    <3> QED BY <1>2, <2>1, <3>2 DEF Reported, TradedOn, Eve
  <2> QED BY <1>2, <2>2 DEF MapOverlaps
<1>9. OneScale'
  <2> SUFFICES ASSUME ~noOverlap' PROVE (\E c \in Int : \A d \in 1..Len(kept) : Scale(kept[d], d, c))'
    BY DEF OneScale
  <2>1. PICK c \in Int : \A d \in 1..Len(kept) : Scale(kept[d], d, c)
    BY <1>2 DEF OneScale
  <2>2. \A d \in 1..Len(kept) : d \in 0..n
    BY <1>2, <1>3, LenProperties DEF YahooShape, n
  <2>3. \A d \in 1..Len(kept) : Scale(kept[d], d, c)'
    BY <1>2, <1>5, <2>1, <2>2 DEF Scale
  <2> QED BY <1>2, <2>3 DEF Scale
<1> QED BY <1>6, <1>7, <1>8, <1>9 DEF YahooInv

LEMMA ScratchStep == ASSUME YahooInv, FromScratch PROVE YahooInv'
<1> DEFINE upto == Len(market)
           days == Reported(1, upto)
           bars == Normalized(days)
           hi == Max(days)
           s == [d \in 1..hi |-> bars[d]]
<1>1. /\ kept' = s /\ dayEnd' = upto /\ dayEnd = 0
      /\ UNCHANGED <<market, reportsHalts, latestMap, noOverlap>>
  BY DEF FromScratch
<1>2. YahooShape /\ MapTrue
  BY DEF YahooInv
<1>3. market \in Seq(Events) /\ upto \in Nat /\ upto # 0 /\ market[1] = "flat"
  BY <1>2, LenProperties DEF YahooShape
<1>4. days \subseteq 1..upto /\ 1 \in days
  BY <1>3 DEF Reported, TradedOn
<1>5. hi \in 1..upto /\ Min(days) = 1
  <2> HIDE DEF days, upto
  <2>1. Max(days) \in days /\ Min(days) \in days /\ \A d \in days : Min(days) <= d /\ d <= Max(days)
    BY <1>3, <1>4, Extremes
  <2>2. \A d \in days : d \in 1..upto
    BY <1>4
  <2>3. Min(days) \in 1..upto /\ Min(days) <= 1 /\ Max(days) \in 1..upto
    BY <1>4, <2>1, <2>2
  <2> QED BY <1>3, <2>3 DEF upto
<1>6. /\ \A d \in 1..hi : bars[d] \in BarSet
      /\ \E c \in Int : \A d \in 1..hi : Scale(bars[d], d, c)
  <2> HIDE DEF days
  <2>1. /\ \A d \in Min(days)..Max(days) : bars[d] \in BarSet
        /\ \E c \in Int : \A d \in Min(days)..Max(days) : Scale(bars[d], d, c)
    BY <1>3, <1>4, NormalizedIs
  <2> QED BY <1>5, <2>1
<1> HIDE DEF bars, days, hi
<1>7. s \in Seq(BarSet) /\ Len(s) = hi /\ \A d \in 1..hi : s[d] = bars[d]
  <2>1. s \in [1..hi -> BarSet] /\ hi \in Nat
    BY <1>5, <1>6
  <2> DEFINE R == BarSet
  <2>2. s \in [1..hi -> R]
    BY <2>1
  <2>3. \A d \in 1..hi : s[d] = bars[d]
    OBVIOUS
  <2> HIDE DEF s, R
  <2>4. s \in Seq(R)
    BY <2>1, <2>2
  <2>5. Len(s) = hi
    BY <2>1, <2>2, <2>4, LenProperties
  <2> QED BY <2>3, <2>4, <2>5 DEF R
<1> HIDE DEF s
<1>8. YahooShape'
  <2>1. dayEnd' \in 0..Len(market') /\ Len(kept') <= dayEnd' /\ Len(kept') # 0
    BY <1>1, <1>3, <1>5, <1>7, SMTT(30)
  <2> QED BY <1>1, <1>2, <1>7, <2>1, SMTT(30) DEF YahooShape
<1>9. latestMap'.calendar # dayEnd' /\ latestMap'.calendar <= dayEnd'
  BY <1>1, <1>2, <1>3 DEF MapTrue, YahooShape
<1>10. MapTrue' /\ MapOverlaps'
  BY <1>9, SMTT(30) DEF MapTrue, MapOverlaps
<1>11. OneScale'
  <2> SUFFICES ASSUME ~noOverlap' PROVE \E c \in Int : \A d \in 1..Len(kept') : Scale(kept'[d], d, c)
    BY <1>1, ZenonT(60) DEF OneScale, Scale, Wealth, Price, Count
  <2>1. PICK c \in Int : \A d \in 1..hi : Scale(bars[d], d, c)
    BY <1>6
  <2>2. \A d \in 1..Len(kept') : Scale(kept'[d], d, c)
    BY <1>1, <1>7, <2>1
  <2> QED BY <2>2
<1> QED BY <1>8, <1>10, <1>11 DEF YahooInv

\* What the script knows of the last stored bars, from the file or anew.
LEMMA LatestIs ==
    ASSUME YahooInv, dayEnd # 0
    PROVE  /\ Latest \in [calendar : Nat, date : Nat, bar : BarSet] /\ Latest.calendar = dayEnd
           /\ Latest.date \in 1..Len(kept) /\ Latest.bar = kept[Latest.date]
           /\ ~noOverlap /\ Latest.date < Len(kept) =>
                 \E d \in Reported(Eve(dayEnd), dayEnd) : d <= Latest.date
<1>1. YahooShape /\ MapTrue /\ MapOverlaps
  BY DEF YahooInv
<1>2. kept \in Seq(BarSet) /\ Len(kept) \in Nat /\ Len(kept) # 0 /\ dayEnd \in Nat
  BY <1>1, LenProperties DEF YahooShape
<1>3. CASE latestMap.calendar = dayEnd
  <2>1. Latest = latestMap
    BY <1>3 DEF Latest
  <2> QED BY <1>1, <1>3, <2>1 DEF YahooShape, MapTrue, MapOverlaps
<1>4. CASE latestMap.calendar # dayEnd
  <2> DEFINE bar == kept[Len(kept)]
             l == Len(kept)
  <2>1. Latest = [calendar |-> dayEnd, date |-> l, bar |-> bar]
    BY <1>4 DEF Latest
  <2>2. bar \in BarSet /\ bar = kept[l]
    BY <1>2, ElementOfSeq
  <2>3. l \in Nat /\ l # 0 /\ l = Len(kept) /\ l \in 1..Len(kept) /\ ~(l < Len(kept))
    BY <1>2
  <2> HIDE DEF bar, l
  <2> QED BY <1>2, <2>1, <2>2, <2>3
<1> QED BY <1>3, <1>4

LEMMA ToBinStep ==
    ASSUME YahooInv, NEW to, NEW fails \in BOOLEAN, UpdateToBin(to, fails)
    PROVE  YahooInv'
<1> DEFINE days == Reported(Eve(dayEnd), to)
           late == Latest
           l == late.date
           len == Len(kept)
           lo == Min(days)
           hi == Max(days)
           ext == Extended(days, late)
           s == Appended(ext)
<1>1. /\ dayEnd > 0 /\ to \in dayEnd..Len(market) /\ latestMap' = late /\ dayEnd' = to
      /\ UNCHANGED <<market, reportsHalts>>
      /\ fails \/ days = {} => UNCHANGED <<kept, noOverlap>>
      /\ ~fails /\ days # {} =>
            kept' = s /\ noOverlap' = (noOverlap \/ (hi > len /\ len < lo))
  BY DEF UpdateToBin
<1>2. YahooShape /\ MapTrue /\ MapOverlaps /\ OneScale
  BY DEF YahooInv
<1>3. /\ kept \in Seq(BarSet) /\ len \in Nat /\ len # 0 /\ len <= dayEnd /\ dayEnd \in Nat
      /\ Len(market) \in Nat /\ to \in Nat /\ dayEnd <= to /\ to <= Len(market)
      /\ market \in Seq(Events) /\ noOverlap \in BOOLEAN
  BY <1>1, <1>2, LenProperties DEF YahooShape
<1>4. /\ late \in [calendar : Nat, date : Nat, bar : BarSet] /\ late.calendar = dayEnd
      /\ l \in 1..len /\ late.bar = kept[l]
      /\ ~noOverlap /\ l < len => \E d \in Reported(Eve(dayEnd), dayEnd) : d <= l
  BY <1>3, LatestIs
<1>5. days \subseteq 1..to /\ days \subseteq 1..Len(market)
      /\ Reported(Eve(dayEnd), dayEnd) \subseteq days
  BY <1>1, <1>3 DEF Reported, Eve
<1> DEFINE x == IF l \in lo..hi THEN l + 1 ELSE lo
<1>6. ASSUME days # {}
      PROVE  /\ lo \in days /\ hi \in days /\ \A d \in days : lo <= d /\ d <= hi
             /\ lo \in 1..to /\ hi \in 1..to /\ lo \in Nat /\ hi \in Nat
  <2> HIDE DEF days
  <2>1. lo \in days /\ hi \in days /\ \A d \in days : lo <= d /\ d <= hi
    BY <1>3, <1>5, <1>6, Extremes
  <2>2. \A d \in days : d \in 1..to
    BY <1>5
  <2>3. lo \in 1..to /\ hi \in 1..to
    BY <2>1, <2>2
  <2>4. lo \in Nat /\ hi \in Nat
    <3> HIDE DEF lo, hi
    <3> QED BY <1>3, <2>3
  <2> QED BY <2>1, <2>3, <2>4
<1>7. ASSUME days # {}
      PROVE  /\ DOMAIN ext = x..hi /\ \A d \in x..hi : ext[d] \in BarSet
             /\ l \in lo..hi => \A c \in Int : Scale(late.bar, l, c) => \A d \in x..hi : Scale(ext[d], d, c)
  <2>1. late.date \in Nat /\ late.bar \in BarSet
    BY <1>4
  <2> HIDE DEF days, late
  <2> QED BY <1>3, <1>5, <1>7, <2>1, ExtendedIs
<1>8. ASSUME days # {}
      PROVE  /\ s \in Seq(BarSet) /\ Len(s) >= len /\ Len(s) \in Nat
             /\ Len(s) > len => Len(s) <= hi /\ hi > len
             /\ \A d \in 1..len : s[d] = kept[d]
             /\ x <= len + 1 => \A d \in (len + 1)..Len(s) : d \in x..hi /\ s[d] = ext[d]
  <2>1. x \in Nat /\ hi \in Nat
    BY <1>4, <1>6, <1>8
  <2> HIDE DEF days, late, l, x, lo, hi, ext
  <2>2. /\ DOMAIN ext = x..hi /\ \A d \in x..hi : ext[d] \in BarSet
    BY <1>7, <1>8
  <2>3. /\ s \in Seq(BarSet) /\ Len(s) >= len
        /\ Len(s) > len => Len(s) <= hi /\ hi > len
        /\ \A d \in 1..len : s[d] = kept[d]
        /\ x <= len + 1 => \A d \in (len + 1)..Len(s) : d \in x..hi /\ s[d] = ext[d]
    BY <1>3, <2>1, <2>2, AppendedIs
  <2> HIDE DEF s
  <2>4. Len(s) \in Nat
    BY <2>3, LenProperties
  <2> QED BY <2>3, <2>4
<1>9. ASSUME days # {}, Len(s) > len, ~(noOverlap \/ (hi > len /\ len < lo))
      PROVE  l \in lo..hi /\ lo <= len
  <2>1. hi > len /\ lo <= len /\ l <= hi
    BY <1>3, <1>4, <1>6, <1>8, <1>9
  <2>2. ASSUME l < lo PROVE FALSE
    <3>1. l < len /\ ~noOverlap
      BY <1>3, <1>4, <1>6, <1>9, <2>1, <2>2
    <3>2. PICK d \in Reported(Eve(dayEnd), dayEnd) : d <= l
      BY <1>4, <3>1
    <3>3. lo <= d /\ d \in 1..to
      BY <1>5, <1>6, <1>9, <3>2
    <3> QED BY <1>3, <1>4, <1>6, <1>9, <2>2, <3>2, <3>3
  <2> QED BY <1>4, <1>6, <1>9, <2>1, <2>2
<1> HIDE DEF s, ext
<1>10. /\ kept' \in Seq(BarSet) /\ Len(kept') \in Nat /\ Len(kept') >= len /\ Len(kept') <= to
       /\ \A d \in 1..len : kept'[d] = kept[d]
       /\ noOverlap' \in BOOLEAN /\ (noOverlap => noOverlap')
  <2>1. CASE fails \/ days = {}
    BY <1>1, <1>3, <2>1
  <2>2. CASE ~fails /\ days # {}
    <3>1. kept' = s /\ noOverlap' = (noOverlap \/ (hi > len /\ len < lo))
      BY <1>1, <2>2
    <3>2. Len(s) <= to
      BY <1>3, <1>6, <1>8, <2>2
    <3> HIDE DEF hi, lo, days
    <3> QED BY <1>3, <1>8, <2>2, <3>1, <3>2
  <2> QED BY <2>1, <2>2
<1>11. YahooShape'
  <2>1. dayEnd' \in 0..Len(market') /\ dayEnd' # 0
    BY <1>1, <1>3
  <2>2. latestMap' \in [calendar : Nat, date : Nat, bar : BarSet]
    BY <1>1, <1>4
  <2> QED BY <1>1, <1>2, <1>3, <1>10, <2>1, <2>2 DEF YahooShape
<1>12. MapTrue'
  <2>1. latestMap'.calendar <= dayEnd'
    BY <1>1, <1>3, <1>4
  <2>2. latestMap'.date \in 1..Len(kept') /\ latestMap'.bar = kept'[latestMap'.date]
    BY <1>1, <1>3, <1>4, <1>10
  <2> QED BY <2>1, <2>2 DEF MapTrue
<1>13. MapOverlaps'
  <2> SUFFICES ASSUME ~noOverlap', dayEnd' = dayEnd, l < Len(kept')
               PROVE  \E d \in Reported(Eve(dayEnd), dayEnd) : d <= l
    <3>1. Reported(Eve(dayEnd), dayEnd)' = Reported(Eve(dayEnd'), dayEnd')
      BY <1>1 DEF Reported, TradedOn, Eve
    <3>2. latestMap'.calendar = dayEnd /\ latestMap'.date = l
      BY <1>1, <1>4
    <3> QED BY <1>1, <3>1, <3>2 DEF MapOverlaps
  <2>1. CASE l < len
    <3>1. ~noOverlap
      BY <1>10
    <3> QED BY <1>4, <2>1, <3>1
  <2>2. CASE ~(l < len)
    <3>1. ~(fails \/ days = {}) /\ l = len
      BY <1>1, <1>3, <1>4, <2>2
    <3>2. kept' = s /\ Len(s) > len /\ ~(noOverlap \/ (hi > len /\ len < lo))
      BY <1>1, <3>1
    <3>3. lo \in days /\ lo <= l
      BY <1>6, <1>9, <3>1, <3>2
    <3>4. days = Reported(Eve(dayEnd), dayEnd)
      BY <1>1
    <3> HIDE DEF days, lo
    <3> QED BY <3>3, <3>4
  <2> QED BY <2>1, <2>2
<1>14. OneScale'
  <2> SUFFICES ASSUME ~noOverlap' PROVE \E c \in Int : \A d \in 1..Len(kept') : Scale(kept'[d], d, c)
    BY <1>1 DEF OneScale, Scale, Wealth, Price, Count
  <2>1. PICK c \in Int : \A d \in 1..len : Scale(kept[d], d, c)
    BY <1>2, <1>10 DEF OneScale
  <2>2. ASSUME NEW d \in 1..Len(kept') PROVE Scale(kept'[d], d, c)
    <3>1. CASE d \in 1..len
      BY <1>10, <2>1, <3>1
    <3>2. CASE d \notin 1..len
      <4>1. d \in (len + 1)..Len(kept') /\ Len(kept') > len
        BY <1>3, <1>10, <3>2
      <4>2. ~(fails \/ days = {})
        BY <1>1, <1>3, <4>1
      <4>3. kept' = s /\ ~(noOverlap \/ (hi > len /\ len < lo))
        BY <1>1, <4>2
      <4>4. l \in lo..hi /\ x = l + 1 /\ x <= len + 1
        BY <1>3, <1>4, <1>9, <4>1, <4>2, <4>3
      <4>5. d \in x..hi /\ kept'[d] = ext[d]
        BY <1>8, <4>1, <4>2, <4>3, <4>4
      <4>6. Scale(late.bar, l, c)
        BY <1>4, <2>1
      <4>7. Scale(ext[d], d, c)
        <5> HIDE DEF x, lo, hi, days, late, l
        <5> QED BY <1>7, <4>2, <4>4, <4>5, <4>6
      <4> QED BY <4>5, <4>7
    <3> QED BY <3>1, <3>2
  <2> QED BY <2>2
<1> QED BY <1>11, <1>12, <1>13, <1>14 DEF YahooInv

LEMMA YahooKeeps == YahooInv /\ [YahooNext]_yahooVars => YahooInv'
<1> SUFFICES ASSUME YahooInv, [YahooNext]_yahooVars PROVE YahooInv'
  OBVIOUS
<1>1. CASE UNCHANGED yahooVars
  <2>1. UNCHANGED <<market, reportsHalts, kept, dayEnd, latestMap, noOverlap>>
    BY <1>1 DEF yahooVars
  <2>2. YahooShape' /\ MapTrue'
    BY <2>1 DEF YahooInv, YahooShape, MapTrue
  <2>3. MapOverlaps'
    BY <2>1 DEF YahooInv, MapOverlaps, Reported, Eve, TradedOn
  <2>4. OneScale'
    BY <2>1, ZenonT(60) DEF YahooInv, OneScale, Scale, Wealth, Price, Count
  <2> QED BY <2>2, <2>3, <2>4 DEF YahooInv
<1> QED BY <1>1, TradeDayStep, ScratchStep, ToBinStep DEF YahooNext

LEMMA YahooIsInductive == YahooSpec => []YahooInv
BY YahooInits, YahooKeeps, PTL DEF YahooSpec

\* For any market, and any calls of the script that may fail or come twice a day: from each
\* stored bar to each later one the price changes as the wealth of a holder has, and price
\* times volume is the turnover of the day, as long as downloads had the last stored day.
THEOREM ReturnsAreTrue == YahooSpec => []ReturnsTrue
<1>1. YahooInv => ReturnsTrue
  <2> SUFFICES ASSUME YahooInv, ~noOverlap, NEW a \in DOMAIN kept, NEW b \in DOMAIN kept,
                      kept[a].traded, kept[b].traded
               PROVE  /\ kept[b].close - kept[a].close = Wealth(b) - Wealth(a)
                      /\ kept[b].close + kept[b].volume = Price(b)
    BY DEF ReturnsTrue
  <2>1. PICK c \in Int : \A d \in 1..Len(kept) : Scale(kept[d], d, c)
    BY DEF YahooInv, OneScale
  <2>2. a \in 1..Len(kept) /\ b \in 1..Len(kept)
    BY LenProperties DEF YahooInv, YahooShape
  <2>3. kept[a].close = Wealth(a) - c /\ kept[b].close = Wealth(b) - c
        /\ kept[b].close + kept[b].volume = Price(b)
    BY <2>1, <2>2 DEF Scale
  <2>4. Wealth(a) \in Int /\ Wealth(b) \in Int
    BY <2>2, PricesAre
  <2> HIDE DEF Wealth
  <2> QED BY <2>3, <2>4
<1> QED BY <1>1, YahooIsInductive, PTL

-----------------------------------------------------------------------------
(* PersonalPool: intervals.                                                 *)

Pairs == PoolDays \X PoolDays

\* Intervals of days that are not inverted.
Proper(values) == values \subseteq Pairs /\ \A r \in values : r[1] <= r[2]

\* The days in the intervals.
Covered(values, d) == \E r \in values : r[1] <= d /\ d <= r[2]

\* No two of them overlap or are neighbours.
Apart(values) == \A r, t \in values : r # t => r[2] + 1 < t[1] \/ t[2] + 1 < r[1]

LEMMA PairIs ==
    ASSUME NEW r \in Pairs
    PROVE  r[1] \in PoolDays /\ r[2] \in PoolDays /\ r = <<r[1], r[2]>>
BY DEF Pairs

LEMMA PoolDaysAre == PoolDays \subseteq Nat /\ \A d \in PoolDays : d >= 1 /\ d <= LastPoolDay
BY PoolAssumption DEF PoolDays

LEMMA PairsFinite ==
    ASSUME NEW values \in SUBSET Pairs
    PROVE  IsFiniteSet(values)
<1>1. IsFiniteSet(PoolDays)
  BY PoolAssumption, FS_Interval DEF PoolDays
<1>2. IsFiniteSet(Pairs)
  BY <1>1, FS_Product DEF Pairs
<1> QED BY <1>2, FS_Subset

\* Some interval is the first one.
LEMMA LeftmostIs ==
    ASSUME NEW values \in SUBSET Pairs, values # {}
    PROVE  Leftmost(values) \in values /\ \A t \in values : Leftmost(values)[1] <= t[1]
<1> DEFINE Starts == {r[1] : r \in values}
<1>1. \A r \in values : r[1] \in Nat /\ r[2] \in Nat
  BY PairIs, PoolDaysAre
<1>2. PICK a \in Starts : \A x \in Starts : a <= x
  <2>1. Starts \in SUBSET Nat /\ Starts # {}
    BY <1>1
  <2> HIDE DEF Starts
  <2> QED BY <2>1, LeastExists
<1> DEFINE Ends == {r[2] : r \in {t \in values : t[1] = a}}
<1>3. PICK b \in Ends : \A x \in Ends : b <= x
  <2>1. Ends \in SUBSET Nat /\ Ends # {}
    BY <1>1, <1>2
  <2> HIDE DEF Ends
  <2> QED BY <2>1, LeastExists
<1>4. PICK r \in values : r[1] = a /\ r[2] = b
  BY <1>3
<1>5. \A t \in values : Before(r, t)
  <2> TAKE t \in values
  <2>1. r[1] <= t[1] /\ (t[1] = a => r[2] <= t[2])
    BY <1>2, <1>3, <1>4
  <2> QED BY <1>1, <1>4, <2>1 DEF Before
<1>6. Leftmost(values) \in values /\ \A t \in values : Before(Leftmost(values), t)
  BY <1>5 DEF Leftmost
<1> QED BY <1>1, <1>6 DEF Before

\* The recursion has a solution.
LEMMA MergingIs ==
    ASSUME NEW values, NEW n \in Nat, Cardinality(values) = n
    PROVE  /\ Merging(values)[0] = [todo |-> values, output |-> <<>>]
           /\ \A k \in 1..n : Merging(values)[k] = TakeOne(Merging(values)[k - 1])
<1> DEFINE first == [todo |-> values, output |-> <<>>]
           Takes(f, m) == /\ f[0] = first
                          /\ \A k \in 1..m : f[k] = TakeOne(f[k - 1])
           D == {m \in Nat : \E f : Takes(f, m)}
<1>1. 0 \in D
  <2>1. Takes([k \in 0..0 |-> first], 0)
    OBVIOUS
  <2> HIDE DEF Takes
  <2> QED BY <2>1
<1>2. \A m \in D : m + 1 \in D
  <2> TAKE m \in D
  <2>1. PICK f : Takes(f, m)
    OBVIOUS
  <2> DEFINE g == [k \in 0..(m + 1) |-> IF k = m + 1 THEN TakeOne(f[m]) ELSE f[k]]
  <2>2. Takes(g, m + 1)
    <3>1. g[0] = first
      BY <2>1
    <3>2. ASSUME NEW k \in 1..(m + 1) PROVE g[k] = TakeOne(g[k - 1])
      <4>1. k - 1 \in 0..m /\ g[k - 1] = f[k - 1]
        OBVIOUS
      <4>2. g[k] = IF k = m + 1 THEN TakeOne(f[m]) ELSE f[k]
        OBVIOUS
      <4>3. k # m + 1 => f[k] = TakeOne(f[k - 1])
        BY <2>1
      <4>4. k = m + 1 => k - 1 = m
        OBVIOUS
      <4> HIDE DEF g
      <4> QED BY <4>1, <4>2, <4>3, <4>4
    <3> HIDE DEF g
    <3> QED BY <3>1, <3>2
  <2> HIDE DEF Takes, g
  <2> QED BY <2>2
<1>3. n \in D
  <2>1. D \in SUBSET Nat
    OBVIOUS
  <2> HIDE DEF D
  <2> QED BY <1>1, <1>2, <2>1, AllNumbers
<1>4. PICK f : Takes(f, n)
  BY <1>3
<1> DEFINE F(h) == [k \in 0..n |-> IF k = 0 THEN first ELSE TakeOne(h[k - 1])]
<1>5. \E h : h = F(h)
  <2> DEFINE h == [k \in 0..n |-> f[k]]
  <2>1. ASSUME NEW k \in 0..n PROVE h[k] = IF k = 0 THEN first ELSE TakeOne(h[k - 1])
    <3>1. CASE k = 0
      BY <1>4, <3>1
    <3>2. CASE k # 0
      <4>1. k \in 1..n /\ k - 1 \in 0..n
        BY <3>2
      <4>2. f[k] = TakeOne(f[k - 1])
        BY <1>4, <4>1
      <4> QED BY <3>2, <4>1, <4>2
    <3> QED BY <3>1, <3>2
  <2>2. h = F(h)
    <3> HIDE DEF Takes
    <3> SUFFICES \A k \in 0..n : h[k] = IF k = 0 THEN first ELSE TakeOne(h[k - 1])
      BY Zenon
    <3> QED BY <2>1
  <2> HIDE DEF h, F
  <2> QED BY <2>2
<1>6. Merging(values) = CHOOSE h : h = F(h)
  BY DEF Merging
<1>7. Merging(values) = F(Merging(values))
  <2> HIDE DEF F
  <2> QED BY <1>5, <1>6
<1> DEFINE M == Merging(values)
<1>8. \A k \in 0..n : M[k] = IF k = 0 THEN first ELSE TakeOne(M[k - 1])
  BY <1>7
<1> HIDE DEF M
<1>9. M[0] = first
  BY <1>8
<1>10. ASSUME NEW k \in 1..n PROVE M[k] = TakeOne(M[k - 1])
  <2>1. k \in 0..n /\ k # 0
    OBVIOUS
  <2> QED BY <1>8, <2>1
<1> QED BY <1>9, <1>10 DEF M

\* What the output of a merge is at any time: intervals from left to right with days between.
Ascends(output) ==
    /\ output \in Seq(Pairs)
    /\ \A i \in 1..Len(output) : output[i][1] <= output[i][2]
    /\ \A i, j \in 1..Len(output) : i < j => output[i][2] + 1 < output[j][1]

Within(output, d) == \E i \in 1..Len(output) : output[i][1] <= d /\ d <= output[i][2]

LEMMA JoinedIs ==
    ASSUME NEW output, Ascends(output), NEW r \in Pairs, r[1] <= r[2],
           \A i \in 1..Len(output) : output[i][1] <= r[1]
    PROVE  /\ Ascends(Joined(output, r))
           /\ \A i \in 1..Len(Joined(output, r)) : Joined(output, r)[i][1] <= r[1]
           /\ \A d \in Nat : Within(Joined(output, r), d) <=> Within(output, d) \/ (r[1] <= d /\ d <= r[2])
<1> DEFINE l == Len(output)
           prior == output[l]
           new == Joined(output, r)
<1>1. output \in Seq(Pairs) /\ l \in Nat /\ \A i \in 1..l : output[i] \in Pairs
  BY LenProperties DEF Ascends
<1>2. \A i \in 1..l : output[i][1] \in Nat /\ output[i][2] \in Nat
  BY <1>1, PairIs, PoolDaysAre
<1>3. r[1] \in Nat /\ r[2] \in Nat /\ r[1] \in PoolDays /\ r[2] \in PoolDays
  BY PairIs, PoolDaysAre
<1>4. CASE l = 0 \/ r[1] > prior[2] + 1
  <2>1. new = Append(output, r)
    BY <1>4 DEF Joined
  <2>2. new \in Seq(Pairs) /\ Len(new) = l + 1 /\ new[l + 1] = r /\ \A i \in 1..l : new[i] = output[i]
    BY <1>1, <2>1, AppendProperties
  <2>3. \A i \in 1..l : output[i][2] + 1 < r[1]
    <3> TAKE i \in 1..l
    <3>1. i = l \/ output[i][2] + 1 < output[l][1]
      BY <1>1 DEF Ascends
    <3> QED BY <1>1, <1>2, <1>3, <1>4, <3>1
  <2> HIDE DEF new, prior
  <2>4. \A i \in 1..Len(new) : i \in 1..l \/ i = l + 1
    BY <1>1, <2>2
  <2>5. \A i \in 1..Len(new) : new[i][1] <= new[i][2]
    BY <2>2, <2>4 DEF Ascends
  <2>6. \A i, j \in 1..Len(new) : i < j => new[i][2] + 1 < new[j][1]
    <3> SUFFICES ASSUME NEW i \in 1..Len(new), NEW j \in 1..Len(new), i < j
                 PROVE  new[i][2] + 1 < new[j][1]
      OBVIOUS
    <3>1. i \in 1..l
      BY <1>1, <2>2
    <3>2. CASE j = l + 1
      BY <2>2, <2>3, <3>1, <3>2
    <3>3. CASE j \in 1..l
      BY <2>2, <3>1, <3>3 DEF Ascends
    <3> QED BY <2>4, <3>2, <3>3
  <2>7. \A i \in 1..Len(new) : new[i][1] <= r[1]
    BY <1>3, <2>2, <2>4
  <2>8. ASSUME NEW d \in Nat PROVE Within(new, d) <=> Within(output, d) \/ (r[1] <= d /\ d <= r[2])
    <3>1. \A i \in 1..l : i \in 1..Len(new)
      BY <1>1, <2>2
    <3>2. l + 1 \in 1..Len(new)
      BY <1>1, <2>2
    <3> QED BY <2>2, <2>4, <3>1, <3>2 DEF Within
  <2> QED BY <2>2, <2>5, <2>6, <2>7, <2>8 DEF Ascends, new
<1>5. CASE l # 0 /\ ~(r[1] > prior[2] + 1)
  <2> DEFINE e == IF r[2] > prior[2] THEN r[2] ELSE prior[2]
             longer == <<prior[1], e>>
  <2>1. l \in 1..l /\ prior \in Pairs /\ prior[1] \in Nat /\ prior[2] \in Nat
    BY <1>1, <1>2, <1>5
  <2>2. prior[1] \in PoolDays /\ prior[2] \in PoolDays
    BY <2>1, PairIs
  <2>3. e \in PoolDays /\ longer \in Pairs /\ longer[1] = prior[1] /\ longer[2] = e
    BY <1>3, <2>2 DEF Pairs
  <2>4. new = [output EXCEPT ![l] = longer]
    BY <1>5 DEF Joined
  <2>5. new \in Seq(Pairs) /\ Len(new) = l /\ new[l] = longer /\ \A i \in 1..l : i # l => new[i] = output[i]
    <3> HIDE DEF longer, new
    <3> QED BY <1>1, <2>1, <2>3, <2>4, ExceptSeq
  <2>6. e \in Nat /\ prior[2] <= e /\ r[2] <= e /\ (e = r[2] \/ e = prior[2])
    BY <1>3, <2>1
  <2>7. prior[1] <= prior[2] /\ prior[1] <= r[1] /\ r[1] <= prior[2] + 1
    BY <1>1, <1>3, <1>5, <2>1 DEF Ascends
  <2>8. \A i \in 1..l : i # l => output[i][2] + 1 < prior[1]
    BY <1>1, <2>1 DEF Ascends
  <2>9. \A i \in 1..l : new[i][1] = output[i][1]
    BY <2>3, <2>5
  <2>10. new[l][2] = e /\ new[l][1] = prior[1]
    BY <2>3, <2>5
  <2> HIDE DEF new, prior, e, longer
  <2>11. \A i \in 1..l : new[i][1] <= new[i][2]
    <3> TAKE i \in 1..l
    <3>1. CASE i = l
      BY <2>1, <2>6, <2>7, <2>10, <3>1
    <3>2. CASE i # l
      BY <2>5, <3>2 DEF Ascends
    <3> QED BY <3>1, <3>2
  <2>12. \A i, j \in 1..l : i < j => new[i][2] + 1 < new[j][1]
    <3> SUFFICES ASSUME NEW i \in 1..l, NEW j \in 1..l, i < j
                 PROVE  new[i][2] + 1 < new[j][1]
      OBVIOUS
    <3>1. i # l /\ new[i] = output[i] /\ new[j][1] = output[j][1]
      BY <1>1, <2>5, <2>9
    <3> QED BY <3>1 DEF Ascends
  <2>13. \A i \in 1..l : new[i][1] <= r[1]
    BY <2>9
  <2>14. ASSUME NEW d \in Nat PROVE Within(new, d) <=> Within(output, d) \/ (r[1] <= d /\ d <= r[2])
    <3>1. new[l][1] <= d /\ d <= new[l][2] <=>
             (prior[1] <= d /\ d <= prior[2]) \/ (r[1] <= d /\ d <= r[2])
      BY <1>3, <2>1, <2>6, <2>7, <2>10
    <3>2. ASSUME Within(new, d) PROVE Within(output, d) \/ (r[1] <= d /\ d <= r[2])
      <4>1. PICK i \in 1..l : new[i][1] <= d /\ d <= new[i][2]
        BY <2>5, <3>2 DEF Within
      <4>2. CASE i = l
        BY <2>1, <3>1, <4>1, <4>2 DEF Within, prior
      <4>3. CASE i # l
        BY <2>5, <4>1, <4>3 DEF Within
      <4> QED BY <4>2, <4>3
    <3>3. ASSUME Within(output, d) PROVE Within(new, d)
      <4>1. PICK i \in 1..l : output[i][1] <= d /\ d <= output[i][2]
        BY <3>3 DEF Within
      <4>2. CASE i = l
        BY <2>1, <2>5, <3>1, <4>1, <4>2 DEF Within, prior
      <4>3. CASE i # l
        BY <2>5, <4>1, <4>3 DEF Within
      <4> QED BY <4>2, <4>3
    <3>4. ASSUME r[1] <= d /\ d <= r[2] PROVE Within(new, d)
      BY <2>1, <2>5, <3>1, <3>4 DEF Within
    <3> QED BY <3>2, <3>3, <3>4
  <2> QED BY <2>5, <2>11, <2>12, <2>13, <2>14 DEF Ascends, new
<1> QED BY <1>4, <1>5

\* Each interval is taken once, and the output has the days of those that are taken.
MergeOk(values, merge) ==
    /\ merge.todo \subseteq values
    /\ Ascends(merge.output)
    /\ \A t \in merge.todo : \A i \in 1..Len(merge.output) : merge.output[i][1] <= t[1]
    /\ \A d \in Nat : Within(merge.output, d) <=> Covered(values \ merge.todo, d)

LEMMA TakeOneOk ==
    ASSUME NEW values, Proper(values), NEW merge, MergeOk(values, merge), merge.todo # {}
    PROVE  /\ MergeOk(values, TakeOne(merge))
           /\ Cardinality(TakeOne(merge).todo) = Cardinality(merge.todo) - 1
<1> DEFINE r == Leftmost(merge.todo)
           new == TakeOne(merge)
<1>1. values \in SUBSET Pairs /\ merge.todo \in SUBSET Pairs /\ merge.todo \subseteq values
  BY DEF Proper, MergeOk
<1>2. r \in merge.todo /\ \A t \in merge.todo : r[1] <= t[1]
  BY <1>1, LeftmostIs
<1>3. r \in Pairs /\ r[1] <= r[2]
  BY <1>1, <1>2 DEF Proper
<1>4. new.todo = merge.todo \ {r} /\ new.output = Joined(merge.output, r)
  BY DEF TakeOne
<1> HIDE DEF r, new
<1>5. /\ Ascends(new.output)
      /\ \A i \in 1..Len(new.output) : new.output[i][1] <= r[1]
      /\ \A d \in Nat : Within(new.output, d) <=> Within(merge.output, d) \/ (r[1] <= d /\ d <= r[2])
  <2>1. Ascends(merge.output) /\ \A i \in 1..Len(merge.output) : merge.output[i][1] <= r[1]
    BY <1>2 DEF MergeOk
  <2> QED BY <1>3, <1>4, <2>1, JoinedIs
<1>6. ASSUME NEW t \in new.todo, NEW i \in 1..Len(new.output) PROVE new.output[i][1] <= t[1]
  <2>1. t \in merge.todo /\ r[1] <= t[1] /\ new.output[i][1] <= r[1]
    BY <1>2, <1>4, <1>5
  <2>2. t[1] \in Nat /\ r[1] \in Nat
    BY <1>1, <1>3, <2>1, PairIs, PoolDaysAre
  <2>3. new.output[i][1] \in Nat
    <3>1. new.output[i] \in Pairs
      BY <1>5 DEF Ascends
    <3> QED BY <3>1, PairIs, PoolDaysAre
  <2> QED BY <2>1, <2>2, <2>3
<1>7. ASSUME NEW d \in Nat PROVE Within(new.output, d) <=> Covered(values \ new.todo, d)
  <2>1. values \ new.todo = (values \ merge.todo) \union {r}
    BY <1>1, <1>2, <1>4
  <2>2. Covered(values \ new.todo, d) <=> Covered(values \ merge.todo, d) \/ (r[1] <= d /\ d <= r[2])
    BY <2>1 DEF Covered
  <2> QED BY <1>5, <2>2 DEF MergeOk
<1>8. Cardinality(new.todo) = Cardinality(merge.todo) - 1
  BY <1>1, <1>2, <1>4, PairsFinite, FS_RemoveElement
<1> QED BY <1>1, <1>4, <1>5, <1>6, <1>7, <1>8 DEF MergeOk, new

\* Merged intervals are apart and have the days of those that were merged.
LEMMA MergedIs ==
    ASSUME NEW values, Proper(values)
    PROVE  /\ Proper(MergedSpans(values)) /\ Apart(MergedSpans(values))
           /\ \A d \in Nat : Covered(MergedSpans(values), d) <=> Covered(values, d)
<1> DEFINE n == Cardinality(values)
           M(k) == Merging(values)[k]
           output == M(n).output
           D == {k \in Nat : k <= n => MergeOk(values, M(k)) /\ Cardinality(M(k).todo) = n - k}
<1>1. values \in SUBSET Pairs /\ IsFiniteSet(values)
  BY PairsFinite DEF Proper
<1>2. n \in Nat
  BY <1>1, FS_CardinalityType
<1>3. M(0) = [todo |-> values, output |-> <<>>] /\ \A k \in 1..n : M(k) = TakeOne(M(k - 1))
  BY <1>2, MergingIs
<1>4. 0 \in D
  <2>1. M(0).todo = values /\ M(0).output = <<>>
    BY <1>3
  <2>2. Ascends(<<>>) /\ \A d \in Nat : ~Within(<<>>, d)
    BY DEF Ascends, Within
  <2>3. \A d \in Nat : ~Covered(values \ values, d)
    BY DEF Covered
  <2> HIDE DEF M
  <2>4. 1..Len(M(0).output) = {}
    BY <2>1
  <2>5. MergeOk(values, M(0))
    BY <2>1, <2>2, <2>3, <2>4 DEF MergeOk
  <2> QED BY <1>2, <2>1, <2>5
<1>5. \A k \in D : k + 1 \in D
  <2> SUFFICES ASSUME NEW k \in Nat, k + 1 <= n, MergeOk(values, M(k)), Cardinality(M(k).todo) = n - k
               PROVE  MergeOk(values, M(k + 1)) /\ Cardinality(M(k + 1).todo) = n - (k + 1)
    BY <1>2
  <2>1. k + 1 \in 1..n /\ (k + 1) - 1 = k
    BY <1>2
  <2>2. M(k + 1) = TakeOne(M(k))
    BY <1>3, <2>1
  <2>3. M(k).todo # {}
    <3>1. Cardinality({}) = 0
      BY FS_EmptySet
    <3>2. n - k # 0
      BY <1>2
    <3> HIDE DEF M, n
    <3> QED BY <3>1, <3>2
  <2> HIDE DEF M, n
  <2>4. MergeOk(values, TakeOne(M(k))) /\ Cardinality(TakeOne(M(k)).todo) = Cardinality(M(k).todo) - 1
    BY <2>3, TakeOneOk
  <2> QED BY <1>2, <2>2, <2>4
<1>6. MergeOk(values, M(n)) /\ Cardinality(M(n).todo) = 0
  <2>1. D \in SUBSET Nat
    OBVIOUS
  <2>2. n \in D
    <3> HIDE DEF D
    <3> QED BY <1>2, <1>4, <1>5, <2>1, AllNumbers
  <2> QED BY <1>2, <2>2
<1> HIDE DEF M, n
<1>7. M(n).todo = {}
  <2>1. M(n).todo \in SUBSET Pairs
    BY <1>1, <1>6 DEF MergeOk
  <2> QED BY <1>6, <2>1, PairsFinite, FS_EmptySet
<1>8. MergedSpans(values) = {output[i] : i \in 1..Len(output)}
  BY DEF MergedSpans, M, n
<1>9. Ascends(output) /\ \A d \in Nat : Within(output, d) <=> Covered(values, d)
  <2>1. values \ M(n).todo = values
    BY <1>7
  <2> QED BY <1>6, <2>1 DEF MergeOk
<1> HIDE DEF output
<1>10. Proper(MergedSpans(values))
  BY <1>8, <1>9 DEF Proper, Ascends
<1>11. Apart(MergedSpans(values))
  <2> SUFFICES ASSUME NEW i \in 1..Len(output), NEW j \in 1..Len(output), output[i] # output[j]
               PROVE  output[i][2] + 1 < output[j][1] \/ output[j][2] + 1 < output[i][1]
    BY <1>8 DEF Apart
  <2>1. Len(output) \in Nat
    BY <1>9, LenProperties DEF Ascends
  <2>2. i < j \/ j < i
    BY <2>1
  <2> QED BY <1>9, <2>2 DEF Ascends
<1>12. ASSUME NEW d \in Nat PROVE Covered(MergedSpans(values), d) <=> Covered(values, d)
  <2>1. Covered(MergedSpans(values), d) <=> Within(output, d)
    BY <1>8 DEF Covered, Within
  <2> QED BY <1>9, <2>1
<1> QED BY <1>10, <1>11, <1>12

\* The intervals of the new states have the days on which the stock was selected.
LEMMA RunsAre ==
    ASSUME NEW states \in Selections, NEW from \in PoolDays, NEW to \in PoolDays, NEW s \in PoolStock
    PROVE  /\ Proper(RunsOf(states, from, to)[s])
           /\ \A d \in Nat : Covered(RunsOf(states, from, to)[s], d) <=> d \in from..to /\ s \in states[d]
<1> DEFINE InAll(a, b) == \A d \in a..b : s \in states[d]
           Longest(a, b) == /\ a <= b /\ InAll(a, b)
                            /\ a = from \/ s \notin states[a - 1]
                            /\ b = to \/ s \notin states[b + 1]
           runs == RunsOf(states, from, to)[s]
<1>1. runs = {r \in (from..to) \X (from..to) : Longest(r[1], r[2])}
  BY DEF RunsOf
<1>2. from \in Nat /\ to \in Nat /\ from..to \subseteq PoolDays
  BY PoolAssumption DEF PoolDays
<1>3. \A r \in runs : r \in (from..to) \X (from..to) /\ r[1] \in from..to /\ r[2] \in from..to
  BY <1>1
<1>4. Proper(runs)
  <2>1. \A r \in runs : r \in Pairs
    BY <1>2, <1>3 DEF Pairs
  <2>2. \A r \in runs : r[1] <= r[2]
    BY <1>1
  <2> QED BY <2>1, <2>2 DEF Proper
<1>5. ASSUME NEW d \in Nat, Covered(runs, d) PROVE d \in from..to /\ s \in states[d]
  <2>1. PICK r \in runs : r[1] <= d /\ d <= r[2]
    BY <1>5 DEF Covered
  <2>2. InAll(r[1], r[2]) /\ r[1] \in from..to /\ r[2] \in from..to
    BY <1>1, <1>3
  <2>3. d \in r[1]..r[2] /\ d \in from..to
    BY <1>2, <2>1, <2>2
  <2> QED BY <2>2, <2>3
<1>6. ASSUME NEW d \in from..to, s \in states[d] PROVE Covered(runs, d)
  <2> DEFINE A == {x \in from..d : InAll(x, d)}
             B == {x \in d..to : InAll(d, x)}
  <2>1. d \in Nat /\ from <= d /\ d <= to
    BY <1>2
  <2>2. InAll(d, d)
    BY <1>6, <2>1
  <2>3. PICK a \in A : \A x \in A : a <= x
    <3>1. A \in SUBSET Nat /\ A # {}
      BY <1>2, <2>1, <2>2
    <3> HIDE DEF A
    <3> QED BY <3>1, LeastExists
  <2>4. PICK b \in B : \A x \in B : x <= b
    <3>1. B \subseteq 0..to /\ B # {}
      BY <1>2, <2>1, <2>2
    <3> HIDE DEF B
    <3> QED BY <1>2, <3>1, GreatestExists
  <2>5. a \in from..d /\ InAll(a, d) /\ b \in d..to /\ InAll(d, b)
    OBVIOUS
  <2>6. a \in Nat /\ b \in Nat /\ from <= a /\ a <= d /\ d <= b /\ b <= to
    BY <1>2, <2>1, <2>5
  <2>7. InAll(a, b)
    <3>1. \A x \in a..b : x \in a..d \/ x \in d..b
      BY <2>1, <2>6
    <3> QED BY <2>5, <3>1
  <2>8. a = from \/ s \notin states[a - 1]
    <3> SUFFICES ASSUME a # from, s \in states[a - 1] PROVE FALSE
      OBVIOUS
    <3>1. a - 1 \in from..d
      BY <1>2, <2>1, <2>6
    <3>2. \A x \in (a - 1)..d : x = a - 1 \/ x \in a..d
      BY <2>1, <2>6
    <3>3. InAll(a - 1, d)
      BY <2>5, <3>2
    <3>4. a <= a - 1
      BY <2>3, <3>1, <3>3
    <3> QED BY <2>6, <3>4
  <2>9. b = to \/ s \notin states[b + 1]
    <3> SUFFICES ASSUME b # to, s \in states[b + 1] PROVE FALSE
      OBVIOUS
    <3>1. b + 1 \in d..to
      BY <1>2, <2>1, <2>6
    <3>2. \A x \in d..(b + 1) : x = b + 1 \/ x \in d..b
      BY <2>1, <2>6
    <3>3. InAll(d, b + 1)
      BY <2>5, <3>2
    <3>4. b + 1 <= b
      BY <2>4, <3>1, <3>3
    <3> QED BY <2>6, <3>4
  <2>10. a \in from..to /\ b \in from..to /\ Longest(a, b)
    BY <1>2, <2>1, <2>6, <2>7, <2>8, <2>9
  <2>11. <<a, b>> \in runs
    <3> HIDE DEF Longest, runs
    <3> QED BY <1>1, <2>10
  <2> HIDE DEF runs
  <2> QED BY <2>6, <2>11 DEF Covered
<1> HIDE DEF runs
<1>7. \A d \in Nat : Covered(runs, d) <=> d \in from..to /\ s \in states[d]
  BY <1>5, <1>6
<1> QED BY <1>4, <1>7 DEF runs

\* What is left of the intervals has no day of the range and no new day; and all days before
\* and after the range, if the calendar has them.
LEMMA TrimmedIs ==
    ASSUME NEW values, Proper(values), NEW from \in PoolDays, NEW to \in PoolDays, from <= to,
           NEW last \in PoolDays, to <= last
    PROVE  /\ Proper(Trimmed(values, from, to, last))
           /\ \A d \in Nat : Covered(Trimmed(values, from, to, last), d) =>
                 d \notin from..to /\ Covered(values, d)
           /\ (\A r \in values : r[2] <= last) =>
                 \A d \in Nat : d \notin from..to /\ Covered(values, d) =>
                    Covered(Trimmed(values, from, to, last), d)
<1> DEFINE outside == {r \in values : r[2] < from \/ r[1] > to}
           over == {v \in values : v[1] < from /\ v[2] >= from}
           behind == {v \in values : v[1] <= to /\ v[2] > to /\ to < last}
           left == {<<r[1], from - 1>> : r \in over}
           right == {<<to + 1, r[2]>> : r \in behind}
           rest == Trimmed(values, from, to, last)
<1>1. rest = outside \union left \union right
  BY DEF Trimmed
<1>2. \A r \in values : r \in Pairs /\ r[1] \in PoolDays /\ r[2] \in PoolDays /\ r[1] <= r[2]
  BY PairIs DEF Proper
<1>3. PoolDays = 1..LastPoolDay /\ LastPoolDay \in Nat
  BY PoolAssumption DEF PoolDays
<1>4. \A r \in over : <<r[1], from - 1>> \in Pairs /\ r[1] <= from - 1 /\ from <= r[2] /\ r \in values
  BY <1>2, <1>3 DEF Pairs
<1>5. \A r \in behind : <<to + 1, r[2]>> \in Pairs /\ to + 1 <= r[2] /\ r[1] <= to /\ r \in values
  BY <1>2, <1>3 DEF Pairs
<1>6. Proper(rest)
  <2>1. \A r \in outside : r \in Pairs /\ r[1] <= r[2]
    BY <1>2
  <2>2. \A r \in left : r \in Pairs /\ r[1] <= r[2]
    BY <1>4
  <2>3. \A r \in right : r \in Pairs /\ r[1] <= r[2]
    BY <1>5
  <2> HIDE DEF outside, left, right, rest
  <2> QED BY <1>1, <2>1, <2>2, <2>3 DEF Proper
<1>7. \A d \in Nat : Covered(rest, d) <=> Covered(outside, d) \/ Covered(left, d) \/ Covered(right, d)
  <2> HIDE DEF outside, left, right, rest
  <2> QED BY <1>1 DEF Covered
<1>8. ASSUME NEW d \in Nat, Covered(rest, d) PROVE d \notin from..to /\ Covered(values, d)
  <2>1. CASE Covered(outside, d)
    BY <1>2, <1>3, <2>1 DEF Covered
  <2>2. CASE Covered(left, d)
    <3>1. PICK r \in over : r[1] <= d /\ d <= from - 1
      BY <2>2 DEF Covered
    <3> QED BY <1>2, <1>3, <1>4, <3>1 DEF Covered
  <2>3. CASE Covered(right, d)
    <3>1. PICK r \in behind : to + 1 <= d /\ d <= r[2]
      BY <2>3 DEF Covered
    <3> QED BY <1>2, <1>3, <1>5, <3>1 DEF Covered
  <2> QED BY <1>7, <1>8, <2>1, <2>2, <2>3
<1>9. ASSUME \A r \in values : r[2] <= last, NEW d \in Nat, d \notin from..to, Covered(values, d)
      PROVE  Covered(rest, d)
  <2>1. PICK r \in values : r[1] <= d /\ d <= r[2]
    BY <1>9 DEF Covered
  <2>2. r[1] \in Nat /\ r[2] \in Nat /\ from \in Nat /\ to \in Nat /\ last \in Nat
    BY <1>2, <1>3
  <2>3. d < from \/ d > to
    BY <1>9, <2>2
  <2>4. CASE r[2] < from \/ r[1] > to
    <3>1. Covered(outside, d)
      BY <2>1, <2>4 DEF Covered
    <3> QED BY <1>7, <3>1
  <2>5. CASE ~(r[2] < from \/ r[1] > to) /\ d < from
    <3>1. r \in over /\ d <= from - 1
      BY <2>1, <2>2, <2>5
    <3>2. <<r[1], from - 1>> \in left
      BY <3>1
    <3>3. Covered(left, d)
      <4> HIDE DEF left
      <4> QED BY <2>1, <3>1, <3>2 DEF Covered
    <3> QED BY <1>7, <3>3
  <2>6. CASE ~(r[2] < from \/ r[1] > to) /\ d > to
    <3>1. r \in behind /\ to + 1 <= d
      BY <1>9, <2>1, <2>2, <2>6
    <3>2. <<to + 1, r[2]>> \in right
      BY <3>1
    <3>3. Covered(right, d)
      <4> HIDE DEF right
      <4> QED BY <2>1, <3>1, <3>2 DEF Covered
    <3> QED BY <1>7, <3>3
  <2> QED BY <2>3, <2>4, <2>5, <2>6
<1> HIDE DEF rest
<1> QED BY <1>6, <1>8, <1>9 DEF rest

\* The pool after an update: the range is new, and the rest is what is left of the old one.
LEMMA ReplacedIs ==
    ASSUME NEW old \in Spans, NEW s \in PoolStock, Proper(old[s]), NEW states \in Selections,
           NEW from \in PoolDays, NEW to \in PoolDays, from <= to,
           NEW last \in PoolDays, to <= last
    PROVE  LET rest == Trimmed(old[s], from, to, last)
               new  == Replaced(old, RunsOf(states, from, to), from, to, last)[s]
           IN  /\ Proper(new) /\ Apart(new)
               /\ \A d \in Nat : Covered(new, d) <=> (d \in from..to /\ s \in states[d]) \/ Covered(rest, d)
<1> DEFINE rest == Trimmed(old[s], from, to, last)
           runs == RunsOf(states, from, to)[s]
           new  == Replaced(old, RunsOf(states, from, to), from, to, last)[s]
<1>1. new = MergedSpans(rest \union runs)
  BY DEF Replaced
<1>2. Proper(rest)
  BY TrimmedIs
<1>3. Proper(runs) /\ \A d \in Nat : Covered(runs, d) <=> d \in from..to /\ s \in states[d]
  BY RunsAre
<1> HIDE DEF rest, runs, new
<1>4. Proper(rest \union runs)
  BY <1>2, <1>3 DEF Proper
<1> DEFINE all == rest \union runs
<1>5. \A d \in Nat : Covered(all, d) <=> Covered(rest, d) \/ Covered(runs, d)
  BY DEF Covered
<1> HIDE DEF all
<1>6. /\ Proper(MergedSpans(all)) /\ Apart(MergedSpans(all))
      /\ \A d \in Nat : Covered(MergedSpans(all), d) <=> Covered(all, d)
  BY <1>4, MergedIs DEF all
<1>7. new = MergedSpans(all)
  BY <1>1 DEF all
<1>8. Proper(new) /\ Apart(new)
  BY <1>6, <1>7
<1>9. \A d \in Nat : Covered(new, d) <=> (d \in from..to /\ s \in states[d]) \/ Covered(rest, d)
  BY <1>3, <1>5, <1>6, <1>7
<1> QED BY <1>8, <1>9 DEF new, rest

-----------------------------------------------------------------------------
(* PersonalPool: the invariant.                                             *)

PoolShape ==
    /\ today \in PoolDays /\ spans \in Spans /\ meta \in Spans
    /\ updater \in [Updater -> [at : {"idle", "select", "read", "write", "meta"},
                                last : 0..LastPoolDay, from : PoolDays, to : PoolDays,
                                states : Selections, result : Spans]]
    /\ shown \in Selections /\ everShown \in Selections
    /\ raced \in BOOLEAN /\ halfWritten \in BOOLEAN

Stays(file, day) == {s \in PoolStock : Covered(file[s], day)}

\* A file as an update writes it, with a calendar that ends at end.
FileOk(file, end) ==
    \A s \in PoolStock : Proper(file[s]) /\ Apart(file[s]) /\ \A r \in file[s] : r[2] <= end

Chosen(me, d) == d \in me.from..me.to

\* What an update knows of its range, and what it is about to write, is in the calendar, and
\* has nobody who was not selected, whoever has written meanwhile.
UpdaterOk(me) ==
    /\ me.at \in {"select", "read", "write"} =>
          me.from <= me.to /\ me.to <= me.last /\ me.last \in PoolDays /\ me.last <= today
    /\ me.at = "read" \/ me.at = "write" => \A d \in PoolDays : ~Chosen(me, d) => me.states[d] = {}
    /\ me.at = "write" => /\ FileOk(me.result, me.last)
                          /\ \A d \in PoolDays : Stays(me.result, d) \subseteq everShown[d] \union me.states[d]

\* As long as updates come one after the other: the file is what the one at work has read, and
\* what it is about to write differs from that on the days of its range only.
AloneOk(me) ==
    /\ me.at = "select" \/ me.at = "read" => \A s \in PoolStock : \A r \in spans[s] : r[2] <= me.last
    /\ me.at = "write" => \A d \in PoolDays : Stays(me.result, d) = IF Chosen(me, d) THEN me.states[d] ELSE shown[d]
    /\ me.at = "meta" => me.result = spans

PoolInv ==
    /\ PoolShape
    /\ FileOk(spans, today)
    /\ \A d \in PoolDays : Stays(spans, d) \subseteq everShown[d]
    /\ \A u \in Updater : UpdaterOk(updater[u])
    /\ ~raced => /\ \A u, v \in Updater : u # v => updater[u].at = "idle" \/ updater[v].at = "idle"
                 /\ \A d \in PoolDays : Stays(spans, d) = shown[d]
                 /\ \A u \in Updater : AloneOk(updater[u])
    /\ HashTrue

UpdaterSet == [at : {"idle", "select", "read", "write", "meta"}, last : 0..LastPoolDay,
               from : PoolDays, to : PoolDays, states : Selections, result : Spans]

LEMMA IdleIs ==
    /\ Idle \in UpdaterSet /\ Idle.at = "idle"
    /\ Nothing \in Spans /\ Nobody \in Selections
    /\ 1 \in PoolDays
<1>1. 1 \in PoolDays /\ 0 \in 0..LastPoolDay
  BY PoolAssumption DEF PoolDays
<1>2. Nothing \in Spans /\ Nobody \in Selections
  BY DEF Nothing, Nobody, Spans, Selections
<1> QED BY <1>1, <1>2 DEF Idle, UpdaterSet

\* Only u knows something new.
LEMMA OnlyOne ==
    ASSUME PoolShape, NEW u \in Updater, NEW me \in UpdaterSet,
           updater' = [updater EXCEPT ![u] = me]
    PROVE  /\ updater' \in [Updater -> UpdaterSet] /\ updater'[u] = me
           /\ \A v \in Updater : v # u => updater'[v] = updater[v]
BY DEF PoolShape, UpdaterSet

LEMMA EmptyFile == \A s \in PoolStock : Nothing[s] = {}
BY DEF Nothing

LEMMA PoolInits == PoolInit => PoolInv
<1> SUFFICES ASSUME PoolInit PROVE PoolInv
  OBVIOUS
<1>1. \A u \in Updater : updater[u] = Idle
  BY DEF PoolInit
<1>2. PoolShape
  BY IdleIs DEF PoolInit, PoolShape, UpdaterSet
<1>3. FileOk(spans, today)
  BY EmptyFile DEF PoolInit, FileOk, Proper, Apart
<1>4. \A d \in PoolDays : Stays(spans, d) = {}
  BY EmptyFile DEF PoolInit, Stays, Covered
<1>5. \A d \in PoolDays : shown[d] = {}
  BY DEF PoolInit, Nobody
<1>6. \A u \in Updater : UpdaterOk(updater[u]) /\ AloneOk(updater[u])
  BY <1>1, IdleIs DEF UpdaterOk, AloneOk
<1>7. HashTrue
  BY DEF PoolInit, HashTrue
<1> QED BY <1>1, <1>2, <1>3, <1>4, <1>5, <1>6, <1>7, IdleIs DEF PoolInv

LEMMA MarketDayStep == ASSUME PoolInv, DayPasses PROVE PoolInv'
<1>1. today' = today + 1 /\ today < LastPoolDay
      /\ UNCHANGED <<spans, meta, updater, started, shown, everShown, raced, halfWritten>>
  BY DEF DayPasses
<1>2. PoolShape
  BY DEF PoolInv
<1>3. today \in PoolDays /\ today' \in PoolDays /\ today < today'
      /\ \A d \in PoolDays : d <= today => d <= today'
  BY <1>1, <1>2, PoolAssumption DEF PoolShape, PoolDays
<1>4. PoolShape'
  BY <1>1, <1>2, <1>3 DEF PoolShape
<1>5. FileOk(spans, today)'
  <2>1. ASSUME NEW s \in PoolStock PROVE Proper(spans[s]) /\ Apart(spans[s]) /\ \A r \in spans[s] : r[2] <= today'
    <3>1. Proper(spans[s]) /\ Apart(spans[s]) /\ \A r \in spans[s] : r[2] <= today
      BY DEF PoolInv, FileOk
    <3>2. \A r \in spans[s] : r[2] \in PoolDays
      BY <3>1, PairIs DEF Proper
    <3> QED BY <1>3, <3>1, <3>2
  <2> QED BY <1>1, <2>1 DEF FileOk
<1>6. (\A d \in PoolDays : Stays(spans, d) \subseteq everShown[d])'
  BY <1>1 DEF PoolInv
<1>7. ASSUME NEW u \in Updater PROVE UpdaterOk(updater[u])'
  <2>1. UpdaterOk(updater[u]) /\ updater[u] \in UpdaterSet
    BY DEF PoolInv, PoolShape, UpdaterSet
  <2>2. updater[u].last <= today /\ updater[u].last \in PoolDays => updater[u].last <= today'
    BY <1>3
  <2> QED BY <1>1, <2>1, <2>2 DEF UpdaterOk
<1>8. (~raced => /\ \A u, v \in Updater : u # v => updater[u].at = "idle" \/ updater[v].at = "idle"
                 /\ \A d \in PoolDays : Stays(spans, d) = shown[d]
                 /\ \A u \in Updater : AloneOk(updater[u]))'
  BY <1>1 DEF PoolInv, AloneOk
<1>9. HashTrue'
  BY <1>1 DEF PoolInv, HashTrue
<1> QED BY <1>4, <1>5, <1>6, <1>7, <1>8, <1>9 DEF PoolInv

\* Where only what u knows changes, the rest of the invariant is about u.
LEMMA OwnStep ==
    ASSUME PoolInv, NEW u \in Updater, NEW me \in UpdaterSet,
           updater' = [updater EXCEPT ![u] = me],
           UNCHANGED <<today, spans, meta, shown, everShown>>,
           raced' \in BOOLEAN, halfWritten' \in BOOLEAN,
           raced => raced', UpdaterOk(me),
           ~raced' => \A v \in Updater : v # u => updater[v].at = "idle",
           ~raced' => AloneOk(me),
           ~raced' /\ ~halfWritten' /\ me.at # "meta" =>
              (~halfWritten /\ updater[u].at # "meta") \/ meta = spans
    PROVE  PoolInv'
<1>1. /\ updater' \in [Updater -> UpdaterSet] /\ updater'[u] = me
      /\ \A v \in Updater : v # u => updater'[v] = updater[v]
  BY OnlyOne DEF PoolInv
<1>2. PoolShape'
  BY <1>1 DEF PoolInv, PoolShape, UpdaterSet
<1>3. FileOk(spans, today)' /\ (\A d \in PoolDays : Stays(spans, d) \subseteq everShown[d])'
  BY DEF PoolInv
<1>4. ASSUME NEW v \in Updater PROVE UpdaterOk(updater[v])'
  <2>1. UpdaterOk(updater'[v])
    BY <1>1 DEF PoolInv
  <2> QED BY <2>1 DEF UpdaterOk
<1>5. ASSUME ~raced'
      PROVE  /\ (\A x, y \in Updater : x # y => updater[x].at = "idle" \/ updater[y].at = "idle")'
             /\ (\A d \in PoolDays : Stays(spans, d) = shown[d])'
             /\ (\A v \in Updater : AloneOk(updater[v]))'
  <2>1. \A v \in Updater : v # u => updater'[v].at = "idle"
    BY <1>1, <1>5
  <2>2. (\A x, y \in Updater : x # y => updater[x].at = "idle" \/ updater[y].at = "idle")'
    BY <2>1
  <2>3. (\A d \in PoolDays : Stays(spans, d) = shown[d])'
    BY <1>5 DEF PoolInv
  <2>4. ASSUME NEW v \in Updater PROVE AloneOk(updater[v])'
    <3>1. AloneOk(updater'[v])
      BY <1>1, <1>5, <2>1 DEF AloneOk
    <3> QED BY <3>1 DEF AloneOk
  <2> QED BY <2>2, <2>3, <2>4
<1>6. HashTrue'
  <2> SUFFICES ASSUME ~raced', ~halfWritten', \A v \in Updater : updater'[v].at # "meta"
               PROVE  meta = spans
    BY DEF HashTrue
  <2>1. me.at # "meta"
    BY <1>1
  <2>2. CASE ~halfWritten /\ updater[u].at # "meta"
    <3>1. \A v \in Updater : updater[v].at # "meta"
      BY <1>1, <2>2
    <3> QED BY <2>2, <3>1 DEF PoolInv, HashTrue
  <2> QED BY <2>1, <2>2
<1> QED BY <1>2, <1>3, <1>4, <1>5, <1>6 DEF PoolInv

LEMMA StartStep == ASSUME PoolInv, NEW u \in Updater, StartUpdate(u) PROVE PoolInv'
<1>1. PICK from \in 1..today, to \in 1..today :
         /\ from <= to
         /\ updater' = [updater EXCEPT ![u] = [Idle EXCEPT !.at = "select", !.last = today,
                                               !.from = from, !.to = to]]
  BY DEF StartUpdate
<1> DEFINE me == [Idle EXCEPT !.at = "select", !.last = today, !.from = from, !.to = to]
<1>2. /\ UNCHANGED <<today, spans, meta, shown, everShown, halfWritten>>
      /\ raced' = (raced \/ \E other \in Updater : updater[other].at # "idle")
      /\ updater[u].at = "idle"
  BY DEF StartUpdate
<1>3. today \in PoolDays /\ raced \in BOOLEAN /\ halfWritten \in BOOLEAN
  BY DEF PoolInv, PoolShape
<1>4. from \in PoolDays /\ to \in PoolDays /\ today \in 0..LastPoolDay /\ to <= today /\ today <= today
  BY <1>3, PoolAssumption DEF PoolDays
<1>6. me \in UpdaterSet /\ me.at = "select" /\ me.last = today /\ me.from = from /\ me.to = to
  BY <1>4, IdleIs DEF UpdaterSet
<1> HIDE DEF me
<1>7. UpdaterOk(me)
  BY <1>1, <1>3, <1>4, <1>6 DEF UpdaterOk
<1>8. AloneOk(me)
  <2>1. \A s \in PoolStock : \A r \in spans[s] : r[2] <= today
    BY DEF PoolInv, FileOk
  <2> QED BY <1>6, <2>1 DEF AloneOk
<1>9. raced' \in BOOLEAN /\ halfWritten' \in BOOLEAN /\ (raced => raced')
  BY <1>2, <1>3
<1>10. ~raced' => \A v \in Updater : v # u => updater[v].at = "idle"
  BY <1>2
<1>11. updater' = [updater EXCEPT ![u] = me]
  BY <1>1 DEF me
<1>12. ~raced' /\ ~halfWritten' /\ me.at # "meta" =>
              (~halfWritten /\ updater[u].at # "meta") \/ meta = spans
  BY <1>2
<1> QED BY <1>2, <1>6, <1>7, <1>8, <1>9, <1>10, <1>11, <1>12, OwnStep

\* A process that gives up, and one that goes on: what the steps without a file share.
LEMMA IdleStep ==
    ASSUME PoolInv, NEW u \in Updater, updater' = [updater EXCEPT ![u] = Idle],
           UNCHANGED <<today, spans, meta, shown, everShown, raced>>,
           halfWritten' = (halfWritten \/ updater[u].at = "meta"), updater[u].at # "idle"
    PROVE  PoolInv'
<1>1. raced \in BOOLEAN /\ halfWritten \in BOOLEAN
  BY DEF PoolInv, PoolShape
<1>2. raced' \in BOOLEAN /\ halfWritten' \in BOOLEAN /\ (raced => raced')
  BY <1>1
<1>3. Idle \in UpdaterSet /\ UpdaterOk(Idle) /\ AloneOk(Idle)
  BY IdleIs DEF UpdaterOk, AloneOk
<1>4. ~raced' => \A v \in Updater : v # u => updater[v].at = "idle"
  BY DEF PoolInv
<1>5. ~raced' /\ ~halfWritten' /\ Idle.at # "meta" =>
              (~halfWritten /\ updater[u].at # "meta") \/ meta = spans
  OBVIOUS
<1> QED BY <1>2, <1>3, <1>4, <1>5, OwnStep

LEMMA DiesStep == ASSUME PoolInv, NEW u \in Updater, UpdateDies(u) PROVE PoolInv'
BY IdleStep DEF UpdateDies

LEMMA StatesStep == ASSUME PoolInv, NEW u \in Updater, LoadDailyStates(u) PROVE PoolInv'
<1> DEFINE days == updater[u].from..updater[u].to
<1>1. updater[u].at = "select" /\ UNCHANGED <<today, spans, meta, started, shown, everShown, raced, halfWritten>>
  BY DEF LoadDailyStates
<1>2. PICK chosen \in [days -> SUBSET PoolStock] :
         updater' = [updater EXCEPT ![u] =
                  IF \A d \in days : Cardinality(chosen[d]) \in MinPool..MaxPool
                  THEN [@ EXCEPT !.at = "read",
                                 !.states = [d \in PoolDays |-> IF d \in days THEN chosen[d] ELSE {}]]
                  ELSE Idle]
  BY DEF LoadDailyStates
<1> DEFINE states == [d \in PoolDays |-> IF d \in days THEN chosen[d] ELSE {}]
           me == [updater[u] EXCEPT !.at = "read", !.states = states]
<1>3. updater[u] \in UpdaterSet /\ raced \in BOOLEAN /\ halfWritten \in BOOLEAN
  BY DEF PoolInv, PoolShape, UpdaterSet
<1>4. UpdaterOk(updater[u]) /\ (~raced => AloneOk(updater[u]))
  BY DEF PoolInv
<1>5. CASE \A d \in days : Cardinality(chosen[d]) \in MinPool..MaxPool
  <2>1. updater' = [updater EXCEPT ![u] = me]
    BY <1>2, <1>5
  <2>2. states \in Selections
    <3>1. \A d \in PoolDays : (IF d \in days THEN chosen[d] ELSE {}) \in SUBSET PoolStock
      OBVIOUS
    <3> QED BY <3>1 DEF Selections
  <2>3. /\ me \in UpdaterSet /\ me.at = "read" /\ me.states = states
        /\ me.from = updater[u].from /\ me.to = updater[u].to /\ me.last = updater[u].last
    <3> HIDE DEF states
    <3> QED BY <1>3, <2>2 DEF UpdaterSet
  <2>4. \A d \in PoolDays : ~Chosen(me, d) => me.states[d] = {}
    BY <2>3 DEF Chosen
  <2> HIDE DEF me, states
  <2>5. UpdaterOk(me)
    BY <1>1, <1>4, <2>3, <2>4 DEF UpdaterOk
  <2>6. ~raced' => AloneOk(me)
    BY <1>1, <1>4, <2>3 DEF AloneOk
  <2>7. ~raced' => \A v \in Updater : v # u => updater[v].at = "idle"
    BY <1>1 DEF PoolInv
  <2>8. ~raced' /\ ~halfWritten' /\ me.at # "meta" =>
              (~halfWritten /\ updater[u].at # "meta") \/ meta = spans
    BY <1>1
  <2>9. raced' \in BOOLEAN /\ halfWritten' \in BOOLEAN /\ (raced => raced')
    BY <1>1, <1>3
  <2> QED BY <1>1, <2>1, <2>3, <2>5, <2>6, <2>7, <2>8, <2>9, OwnStep
<1>6. CASE ~\A d \in days : Cardinality(chosen[d]) \in MinPool..MaxPool
  <2>1. updater' = [updater EXCEPT ![u] = Idle]
    BY <1>2, <1>6
  <2>2. halfWritten' = (halfWritten \/ updater[u].at = "meta")
    BY <1>1, <1>3
  <2> QED BY <1>1, <2>1, <2>2, IdleStep
<1> QED BY <1>5, <1>6

LEMMA MetadataStep == ASSUME PoolInv, NEW u \in Updater, WriteMetadata(u) PROVE PoolInv'
<1>1. /\ updater[u].at = "meta" /\ meta' = updater[u].result
      /\ updater' = [updater EXCEPT ![u] = Idle]
      /\ UNCHANGED <<today, spans, started, shown, everShown, raced, halfWritten>>
  BY DEF WriteMetadata
<1>2. PoolShape /\ updater[u] \in UpdaterSet
  BY DEF PoolInv, PoolShape, UpdaterSet
<1>3. /\ updater' \in [Updater -> UpdaterSet] /\ updater'[u] = Idle
      /\ \A v \in Updater : v # u => updater'[v] = updater[v]
  BY <1>1, <1>2, IdleIs, OnlyOne
<1>4. PoolShape'
  BY <1>1, <1>2, <1>3 DEF PoolShape, UpdaterSet
<1>5. FileOk(spans, today)' /\ (\A d \in PoolDays : Stays(spans, d) \subseteq everShown[d])'
  BY <1>1 DEF PoolInv
<1>6. ASSUME NEW v \in Updater PROVE UpdaterOk(updater[v])'
  <2>1. UpdaterOk(updater'[v])
    BY <1>3, IdleIs DEF PoolInv, UpdaterOk
  <2> QED BY <1>1, <2>1 DEF UpdaterOk
<1>7. ASSUME ~raced'
      PROVE  /\ (\A x, y \in Updater : x # y => updater[x].at = "idle" \/ updater[y].at = "idle")'
             /\ (\A d \in PoolDays : Stays(spans, d) = shown[d])'
             /\ (\A v \in Updater : AloneOk(updater[v]))'
             /\ meta' = spans'
  <2>1. ~raced
    BY <1>1, <1>7
  <2>2. \A v \in Updater : updater'[v].at = "idle"
    BY <1>1, <1>3, <2>1, IdleIs DEF PoolInv
  <2>3. updater[u].result = spans
    BY <1>1, <2>1 DEF PoolInv, AloneOk
  <2> QED BY <1>1, <2>1, <2>2, <2>3 DEF PoolInv, AloneOk
<1>8. HashTrue'
  BY <1>7 DEF HashTrue
<1> QED BY <1>4, <1>5, <1>6, <1>7, <1>8 DEF PoolInv

LEMMA ReadStep == ASSUME PoolInv, NEW u \in Updater, ReadSpans(u) PROVE PoolInv'
<1> DEFINE me == updater[u]
           cut == [s \in PoolStock |-> Trimmed(spans[s], me.from, me.to, me.last)]
           all == Replaced(spans, RunsOf(me.states, me.from, me.to), me.from, me.to, me.last)
           new == [me EXCEPT !.at = "write", !.result = all]
<1>1. /\ me.at = "read"
      /\ updater' = [updater EXCEPT ![u] = IF InCalendar(cut, me.last) /\ all # Nothing THEN new ELSE Idle]
      /\ UNCHANGED <<today, spans, meta, started, shown, everShown, raced, halfWritten>>
  BY DEF ReadSpans
<1>2. me \in UpdaterSet /\ raced \in BOOLEAN /\ halfWritten \in BOOLEAN /\ spans \in Spans
  BY DEF PoolInv, PoolShape, UpdaterSet
<1>3. UpdaterOk(me) /\ (~raced => AloneOk(me)) /\ FileOk(spans, today)
  BY DEF PoolInv
<1>4. /\ me.from \in PoolDays /\ me.to \in PoolDays /\ me.last \in PoolDays
      /\ me.from <= me.to /\ me.to <= me.last /\ me.states \in Selections
  BY <1>1, <1>2, <1>3 DEF UpdaterOk, UpdaterSet
<1>5. CASE InCalendar(cut, me.last) /\ all # Nothing
  <2> DEFINE rest(s) == Trimmed(spans[s], me.from, me.to, me.last)
  <2>1. ASSUME NEW s \in PoolStock
        PROVE  /\ Proper(all[s]) /\ Apart(all[s])
               /\ \A d \in Nat : Covered(all[s], d) <=>
                     (d \in me.from..me.to /\ s \in me.states[d]) \/ Covered(rest(s), d)
               /\ \A d \in Nat : Covered(rest(s), d) => d \notin me.from..me.to /\ Covered(spans[s], d)
               /\ (\A r \in spans[s] : r[2] <= me.last) =>
                     \A d \in Nat : d \notin me.from..me.to /\ Covered(spans[s], d) => Covered(rest(s), d)
               /\ \A r \in rest(s) : r[2] <= me.last
               /\ Proper(rest(s))
    <3>1. Proper(spans[s])
      BY <1>3 DEF FileOk
    <3>2. /\ Proper(all[s]) /\ Apart(all[s])
          /\ \A d \in Nat : Covered(all[s], d) <=>
                (d \in me.from..me.to /\ s \in me.states[d]) \/ Covered(rest(s), d)
      BY <1>2, <1>4, <3>1, ReplacedIs
    <3>3. /\ Proper(rest(s))
          /\ \A d \in Nat : Covered(rest(s), d) => d \notin me.from..me.to /\ Covered(spans[s], d)
          /\ (\A r \in spans[s] : r[2] <= me.last) =>
                     \A d \in Nat : d \notin me.from..me.to /\ Covered(spans[s], d) => Covered(rest(s), d)
      BY <1>4, <3>1, TrimmedIs
    <3>4. \A r \in rest(s) : r[2] <= me.last
      BY <1>5 DEF InCalendar
    <3> QED BY <3>2, <3>3, <3>4
  <2>2. updater' = [updater EXCEPT ![u] = new]
    BY <1>1, <1>5
  <2> HIDE DEF all, rest
  <2>3. all \in Spans
    <3>1. \A s \in PoolStock : all[s] \in SUBSET (PoolDays \X PoolDays)
      BY <2>1 DEF Proper, Pairs
    <3>2. all = [s \in PoolStock |-> all[s]]
      BY DEF all, Replaced
    <3> QED BY <3>1, <3>2 DEF Spans
  <2>4. /\ new \in UpdaterSet /\ new.at = "write" /\ new.result = all /\ new.states = me.states
        /\ new.from = me.from /\ new.to = me.to /\ new.last = me.last
    BY <1>2, <2>3 DEF UpdaterSet
  <2> HIDE DEF new
  <2>5. FileOk(all, me.last)
    <3> SUFFICES ASSUME NEW s \in PoolStock, NEW r \in all[s] PROVE r[2] <= me.last
      BY <2>1 DEF FileOk
    <3>1. r \in Pairs /\ r[1] <= r[2]
      BY <2>1 DEF Proper
    <3>2. r[2] \in Nat /\ r[1] \in Nat /\ me.last \in Nat /\ me.to \in Nat /\ me.from \in Nat
      BY <1>4, <3>1, PairIs, PoolDaysAre
    <3>3. Covered(all[s], r[2])
      BY <3>1, <3>2 DEF Covered
    <3>4. CASE r[2] \in me.from..me.to
      BY <1>4, <3>2, <3>4
    <3>5. CASE Covered(rest(s), r[2])
      <4>1. PICK t \in rest(s) : r[2] <= t[2]
        BY <3>5 DEF Covered
      <4>2. t[2] <= me.last /\ t \in Pairs
        BY <2>1, <4>1 DEF Proper
      <4>3. t[2] \in Nat
        BY <4>2, PairIs, PoolDaysAre
      <4> QED BY <3>2, <4>1, <4>2, <4>3
    <3> QED BY <2>1, <3>2, <3>3, <3>4, <3>5
  <2>6. ASSUME NEW d \in PoolDays PROVE Stays(all, d) \subseteq everShown[d] \union me.states[d]
    <3> SUFFICES ASSUME NEW s \in PoolStock, Covered(all[s], d) PROVE s \in everShown[d] \/ s \in me.states[d]
      BY DEF Stays
    <3>1. d \in Nat
      BY PoolDaysAre
    <3>2. s \in me.states[d] \/ Covered(spans[s], d)
      BY <2>1, <3>1
    <3>3. Covered(spans[s], d) => s \in everShown[d]
      BY DEF PoolInv, Stays
    <3> QED BY <3>2, <3>3
  <2>7. UpdaterOk(new)
    BY <1>1, <1>3, <2>4, <2>5, <2>6 DEF UpdaterOk, Chosen
  <2>8. ASSUME ~raced' PROVE AloneOk(new)
    <3>1. ~raced /\ AloneOk(me) /\ \A d \in PoolDays : Stays(spans, d) = shown[d]
      BY <1>1, <2>8 DEF PoolInv
    <3>2. \A s \in PoolStock : \A r \in spans[s] : r[2] <= me.last
      BY <1>1, <3>1 DEF AloneOk
    <3>3. ASSUME NEW d \in PoolDays
          PROVE  Stays(all, d) = IF Chosen(new, d) THEN new.states[d] ELSE shown[d]
      <4>1. d \in Nat /\ me.states[d] \subseteq PoolStock
        BY <1>4, PoolDaysAre DEF Selections
      <4>2. Chosen(new, d) <=> d \in me.from..me.to
        BY <2>4 DEF Chosen
      <4>3. CASE Chosen(new, d)
        <5>1. \A s \in PoolStock : Covered(all[s], d) <=> s \in me.states[d]
          BY <2>1, <4>1, <4>2, <4>3
        <5> QED BY <2>4, <4>1, <4>3, <5>1 DEF Stays
      <4>4. CASE ~Chosen(new, d)
        <5>1. \A s \in PoolStock : Covered(all[s], d) <=> Covered(spans[s], d)
          BY <2>1, <3>2, <4>1, <4>2, <4>4
        <5>2. Stays(all, d) = Stays(spans, d)
          BY <5>1 DEF Stays
        <5> QED BY <3>1, <4>4, <5>2
      <4> QED BY <4>3, <4>4
    <3> QED BY <2>4, <3>3 DEF AloneOk
  <2>9. ~raced' => \A v \in Updater : v # u => updater[v].at = "idle"
    BY <1>1 DEF PoolInv
  <2>10. ~raced' /\ ~halfWritten' /\ new.at # "meta" =>
              (~halfWritten /\ updater[u].at # "meta") \/ meta = spans
    BY <1>1
  <2>11. raced' \in BOOLEAN /\ halfWritten' \in BOOLEAN /\ (raced => raced')
    BY <1>1, <1>2
  <2> HIDE DEF me
  <2> QED BY <1>1, <2>2, <2>4, <2>7, <2>8, <2>9, <2>10, <2>11, OwnStep
<1>6. CASE ~(InCalendar(cut, me.last) /\ all # Nothing)
  <2>1. updater' = [updater EXCEPT ![u] = Idle]
    BY <1>1, <1>6
  <2>2. halfWritten' = (halfWritten \/ updater[u].at = "meta")
    BY <1>1, <1>2
  <2> QED BY <1>1, <2>1, <2>2, IdleStep
<1> QED BY <1>5, <1>6

LEMMA OutputStep == ASSUME PoolInv, NEW u \in Updater, WriteOutput(u) PROVE PoolInv'
<1> DEFINE me == updater[u]
           new == [Idle EXCEPT !.at = "meta", !.result = me.result]
<1>1. /\ me.at = "write" /\ spans' = me.result
      /\ shown' = [d \in PoolDays |-> IF d \in me.from..me.to THEN me.states[d] ELSE shown[d]]
      /\ everShown' = [d \in PoolDays |-> everShown[d] \union me.states[d]]
      /\ updater' = [updater EXCEPT ![u] = new]
      /\ UNCHANGED <<today, meta, started, raced, halfWritten>>
  BY DEF WriteOutput
<1>2. PoolShape /\ me \in UpdaterSet /\ me.states \in Selections /\ me.result \in Spans
  BY DEF PoolInv, PoolShape, UpdaterSet
<1>3. new \in UpdaterSet /\ new.at = "meta" /\ new.result = me.result
  BY <1>2, IdleIs DEF UpdaterSet
<1> HIDE DEF new
<1>4. /\ updater' \in [Updater -> UpdaterSet] /\ updater'[u] = new
      /\ \A v \in Updater : v # u => updater'[v] = updater[v]
  BY <1>1, <1>2, <1>3, OnlyOne
<1>5. PoolShape'
  <2>1. \A d \in PoolDays : /\ (IF d \in me.from..me.to THEN me.states[d] ELSE shown[d]) \in SUBSET PoolStock
                            /\ (everShown[d] \union me.states[d]) \in SUBSET PoolStock
    BY <1>2 DEF PoolShape, Selections
  <2>2. shown' \in Selections /\ everShown' \in Selections
    BY <1>1, <2>1 DEF Selections
  <2> HIDE DEF me
  <2>3. spans' \in Spans
    BY <1>1, <1>2
  <2> QED BY <1>1, <1>2, <1>4, <2>2, <2>3 DEF PoolShape, UpdaterSet
<1>6. UpdaterOk(me) /\ (~raced => AloneOk(me))
  BY DEF PoolInv
<1>7. FileOk(spans, today)'
  <2>1. FileOk(me.result, me.last) /\ me.last <= today /\ me.last \in PoolDays
    BY <1>1, <1>6 DEF UpdaterOk
  <2>2. today \in Nat /\ me.last \in Nat
    BY <1>2, <2>1, PoolDaysAre DEF PoolShape
  <2>3. ASSUME NEW s \in PoolStock, NEW r \in me.result[s] PROVE r[2] <= today
    <3>1. r[2] <= me.last /\ r \in Pairs
      BY <2>1 DEF FileOk, Proper
    <3>2. r[2] \in Nat
      BY <3>1, PairIs, PoolDaysAre
    <3> QED BY <2>1, <2>2, <3>1, <3>2
  <2>4. FileOk(me.result, today)
    BY <2>1, <2>3 DEF FileOk
  <2> QED BY <1>1, <2>4
<1>8. (\A d \in PoolDays : Stays(spans, d) \subseteq everShown[d])'
  <2>1. \A d \in PoolDays : Stays(me.result, d) \subseteq everShown[d] \union me.states[d]
    BY <1>1, <1>6 DEF UpdaterOk
  <2>2. \A d \in PoolDays : everShown'[d] = everShown[d] \union me.states[d]
    BY <1>1
  <2> HIDE DEF me
  <2> QED BY <1>1, <2>1, <2>2
<1>9. ASSUME NEW v \in Updater PROVE UpdaterOk(updater[v])'
  <2>1. CASE v = u
    BY <1>3, <1>4, <2>1 DEF UpdaterOk
  <2>2. CASE v # u
    <3>1. updater'[v] = updater[v] /\ UpdaterOk(updater[v])
      BY <1>4, <2>2 DEF PoolInv
    <3>2. \A d \in PoolDays : everShown[d] \subseteq everShown'[d]
      BY <1>1
    <3>3. updater[v].at = "write" =>
            \A d \in PoolDays : Stays(updater[v].result, d) \subseteq everShown'[d] \union updater[v].states[d]
      BY <3>1, <3>2 DEF UpdaterOk
    <3> QED BY <1>1, <3>1, <3>3 DEF UpdaterOk
  <2> QED BY <2>1, <2>2
<1>10. ASSUME ~raced'
      PROVE  /\ (\A x, y \in Updater : x # y => updater[x].at = "idle" \/ updater[y].at = "idle")'
             /\ (\A d \in PoolDays : Stays(spans, d) = shown[d])'
             /\ (\A v \in Updater : AloneOk(updater[v]))'
  <2>1. ~raced /\ AloneOk(me) /\ \A v \in Updater : v # u => updater[v].at = "idle"
    BY <1>1, <1>10 DEF PoolInv
  <2>2. \A v \in Updater : v # u => updater'[v].at = "idle"
    BY <1>4, <2>1
  <2>3. (\A x, y \in Updater : x # y => updater[x].at = "idle" \/ updater[y].at = "idle")'
    BY <2>2
  <2>4. (\A d \in PoolDays : Stays(spans, d) = shown[d])'
    <3>1. \A d \in PoolDays : Stays(me.result, d) = IF Chosen(me, d) THEN me.states[d] ELSE shown[d]
      BY <1>1, <2>1 DEF AloneOk
    <3>2. \A d \in PoolDays : shown'[d] = IF Chosen(me, d) THEN me.states[d] ELSE shown[d]
      BY <1>1 DEF Chosen
    <3> HIDE DEF me
    <3> QED BY <1>1, <3>1, <3>2
  <2>5. ASSUME NEW v \in Updater PROVE AloneOk(updater[v])'
    <3>1. CASE v = u
      BY <1>1, <1>3, <1>4, <3>1 DEF AloneOk
    <3>2. CASE v # u
      BY <2>2, <3>2 DEF AloneOk
    <3> QED BY <3>1, <3>2
  <2> QED BY <2>3, <2>4, <2>5
<1>11. HashTrue'
  <2>1. updater'[u].at = "meta"
    BY <1>3, <1>4
  <2> QED BY <2>1 DEF HashTrue
<1> QED BY <1>5, <1>7, <1>8, <1>9, <1>10, <1>11 DEF PoolInv

LEMMA PoolIsInductive == PoolInv /\ [PoolNext]_poolVars => PoolInv'
<1> SUFFICES ASSUME PoolInv, [PoolNext]_poolVars PROVE PoolInv'
  OBVIOUS
<1>1. CASE DayPasses
  BY <1>1, MarketDayStep
<1>2. ASSUME NEW u \in Updater, StartUpdate(u) PROVE PoolInv'
  BY <1>2, StartStep
<1>3. ASSUME NEW u \in Updater, LoadDailyStates(u) PROVE PoolInv'
  BY <1>3, StatesStep
<1>4. ASSUME NEW u \in Updater, ReadSpans(u) PROVE PoolInv'
  BY <1>4, ReadStep
<1>5. ASSUME NEW u \in Updater, WriteOutput(u) PROVE PoolInv'
  BY <1>5, OutputStep
<1>6. ASSUME NEW u \in Updater, WriteMetadata(u) PROVE PoolInv'
  BY <1>6, MetadataStep
<1>7. ASSUME NEW u \in Updater, UpdateDies(u) PROVE PoolInv'
  BY <1>7, DiesStep
<1>8. CASE UNCHANGED poolVars
  <2>1. UNCHANGED <<today, spans, meta, updater, shown, everShown, raced, halfWritten>>
    BY <1>8 DEF poolVars
  <2>2. PoolShape' /\ FileOk(spans, today)' /\ HashTrue'
    BY <2>1 DEF PoolInv, PoolShape, HashTrue
  <2>3. \A u \in Updater : UpdaterOk(updater[u])'
    BY <2>1 DEF PoolInv, UpdaterOk
  <2>4. ~raced => \A u \in Updater : AloneOk(updater[u])'
    BY <2>1 DEF PoolInv, AloneOk
  <2> QED BY <2>1, <2>2, <2>3, <2>4 DEF PoolInv
<1> QED BY <1>1, <1>2, <1>3, <1>4, <1>5, <1>6, <1>7, <1>8 DEF PoolNext

\* Whoever updates the pool, for whatever days, and dies on the way: nobody is in the pool of
\* a day without having been selected for it, each stay is one interval, and as long as no two
\* updates overlap the pool of a day is what its last update has selected, and the hash that of
\* the file unless an update has died between the two.
THEOREM PoolIsTrue == PoolSpec => []PoolTrue
<1>1. PoolInv => PoolTrue
  <2> SUFFICES ASSUME PoolInv PROVE PoolTrue
    OBVIOUS
  <2>1. \A d \in PoolDays : Members(d) = Stays(spans, d)
    BY DEF Members, Stays, Covered
  <2>2. DaysPreserved /\ NobodyInvented
    BY <2>1 DEF PoolInv, DaysPreserved, NobodyInvented
  <2>3. Canonical
    BY DEF PoolInv, FileOk, Apart, Canonical
  <2> QED BY <2>2, <2>3 DEF PoolInv, PoolTrue
<1> QED BY <1>1, PoolInits, PoolIsInductive, PTL DEF PoolSpec

-----------------------------------------------------------------------------
(* PitStore: the linked lists of the data file.                             *)

RecordSet == [date : 1..LastDate, period : Quarters, next : Nat]

SamePeriod(i, j) == records[i].period = records[j].period

NotAfter(s, t) == \A i \in 1..Len(s), j \in 1..Len(t) : s[i].date <= t[j].date
ByDate(s) == \A i, j \in 1..Len(s) : i < j => s[i].date <= s[j].date

\* Each record points at the next one of its period.
Linked ==
    \A i \in 1..Len(records) :
        \/ /\ records[i].next = Nowhere
           /\ \A j \in 1..Len(records) : SamePeriod(i, j) => j <= i
        \/ /\ records[i].next \in (i + 1)..Len(records)
           /\ SamePeriod(i, records[i].next)
           /\ \A j \in 1..Len(records) : SamePeriod(i, j) => j <= i \/ j >= records[i].next

FirstOf(q) == index[Offset(q)]

\* The index has the first record of each quarter that it has a place for.
Indexed ==
    \A q \in Quarters : Offset(q) \in 1..Len(index) =>
        \/ FirstOf(q) = Nowhere /\ \A i \in 1..Len(records) : records[i].period # q
        \/ /\ FirstOf(q) \in 1..Len(records) /\ records[FirstOf(q)].period = q
           /\ \A i \in 1..Len(records) : records[i].period = q => i >= FirstOf(q)

RowOf(r) == [date |-> r.date, period |-> r.period]
Stored == {RowOf(records[i]) : i \in 1..Len(records)}
ToStore == {rowsLeft[i] : i \in 1..Len(rowsLeft)}

PitShape ==
    /\ published \subseteq PitRows /\ ptoday \in 1..LastDate
    /\ writing \in BOOLEAN /\ damage \in {"no", "killed", "patched"}

\* The files of a store that was written in one go, as far as it is written.
Sound ==
    /\ records \in Seq(RecordSet) /\ index \in Seq(Nat) /\ rowsLeft \in Seq(PitRows)
    /\ firstYear \in Nat \union {NoYear}
    /\ ByDate(records) /\ ByDate(rowsLeft) /\ NotAfter(records, rowsLeft)
    /\ Linked /\ Indexed
    /\ loaded = Stored \union ToStore
    /\ \A r \in loaded : firstYear \in Nat /\ Offset(r.period) \in 1..Len(index)
    /\ IF writing THEN rowsLeft = <<>> \/ fdAt = Len(records) + 1 ELSE rowsLeft = <<>>

PitInv == PitShape /\ (damage = "no" => Sound)

-----------------------------------------------------------------------------
LEMMA QuarterIs == Quarters \subseteq Nat /\ \A q \in Quarters : 0 <= q /\ q <= MaxQuarter /\ q \in Int
BY PitAssumption DEF Quarters

LEMMA DivisionIs ==
    ASSUME NEW a \in Nat, NEW b \in Nat \ {0}
    PROVE  /\ a \div b \in Nat /\ a % b \in 0..(b - 1)
           /\ a = b * (a \div b) + (a % b)
OBVIOUS

LEMMA YearOf ==
    ASSUME NEW p \in Nat
    PROVE  /\ Year(p) \in Nat /\ p % QuartersPerYear \in 0..(QuartersPerYear - 1)
           /\ p = Year(p) * QuartersPerYear + (p % QuartersPerYear)
<1> DEFINE Q == QuartersPerYear
           y == p \div Q
<1>1. Q \in Nat \ {0}
  BY PitAssumption
<1>2. y \in Nat /\ p % Q \in 0..(Q - 1) /\ p = Q * y + (p % Q)
  BY <1>1, DivisionIs
<1>3. Q * y = y * Q
  <2> HIDE DEF y, Q
  <2> QED BY <1>1, <1>2
<1> QED BY <1>2, <1>3 DEF Year

\* The places of the index follow the quarters.
LEMMA OffsetIs ==
    ASSUME NEW p \in Nat, firstYear \in Nat
    PROVE  /\ firstYear * QuartersPerYear \in Nat
           /\ Offset(p) = p - firstYear * QuartersPerYear + 1
<1> DEFINE Q == QuartersPerYear
           y == Year(p)
           m == p % Q
           yQ == y * Q
           fQ == firstYear * Q
<1>1. Q \in Nat /\ y \in Nat /\ m \in Nat /\ p = yQ + m
  <2>1. Q \in Nat /\ y \in Nat /\ m \in 0..(Q - 1)
    BY YearOf, PitAssumption
  <2>2. p = yQ + m
    BY YearOf
  <2> HIDE DEF Q, y, m, yQ
  <2> QED BY <2>1, <2>2
<1>2. (y - firstYear) * Q = yQ - fQ
  BY <1>1
<1>3. yQ \in Nat /\ fQ \in Nat
  BY <1>1
<1>4. Offset(p) = (y - firstYear) * Q + m + 1
  BY DEF Offset
<1> HIDE DEF yQ, m
<1>5. Offset(p) = yQ - fQ + m + 1
  BY <1>2, <1>4
<1> HIDE DEF fQ
<1>6. Offset(p) = p - fQ + 1
  BY <1>1, <1>3, <1>5
<1> QED BY <1>3, <1>6 DEF fQ

\* Quarters of years from start to end have places in an index that begins with start.
LEMMA YearsFit ==
    ASSUME NEW start \in Nat, NEW end \in Nat, NEW p \in Nat, start <= Year(p), Year(p) <= end
    PROVE  (Year(p) - start) * QuartersPerYear + (p % QuartersPerYear) + 1
              \in 1..((end - start + 1) * QuartersPerYear)
<1> DEFINE Q == QuartersPerYear
           y == Year(p)
           m == p % Q
           a == y - start
           b == end - start + 1
<1>1. Q \in Nat /\ Q # 0 /\ y \in Nat /\ m \in 0..(Q - 1)
  BY YearOf, PitAssumption
<1>2. a \in Nat /\ b \in Nat /\ a + 1 <= b
  BY <1>1
<1> HIDE DEF y, m, a, b
<1>3. a * Q \in Nat /\ b * Q \in Nat /\ (a + 1) * Q <= b * Q /\ (a + 1) * Q = a * Q + Q
  <2>1. PICK c \in Nat : b = a + 1 + c
    <3>1. b - (a + 1) \in Nat /\ b = a + 1 + (b - (a + 1))
      BY <1>2
    <3> QED BY <3>1
  <2>2. b * Q = (a + 1) * Q + c * Q /\ c * Q \in Nat
    BY <1>1, <1>2, <2>1
  <2> QED BY <1>1, <1>2, <2>2
<1>4. a * Q + m + 1 \in 1..(b * Q)
  BY <1>1, <1>3
<1> QED BY <1>4 DEF a, b, m, y

-----------------------------------------------------------------------------
\* What holds for a number when it holds for all larger ones up to n holds for all.
LEMMA Downwards ==
    ASSUME NEW n \in Nat, NEW D,
           \A i \in 1..n : (\A j \in (i + 1)..n : j \in D) => i \in D
    PROVE  \A i \in 1..n : i \in D
<1> DEFINE E == {i \in 1..n : i \notin D}
<1>1. ASSUME E # {} PROVE FALSE
  <2>1. E \subseteq 0..n
    OBVIOUS
  <2>2. PICK m \in E : \A d \in E : d <= m
    <3> HIDE DEF E
    <3> QED BY <1>1, <2>1, GreatestExists
  <2>3. m \in 1..n /\ m \notin D
    OBVIOUS
  <2>4. \A j \in (m + 1)..n : j \in 1..n /\ ~(j <= m)
    BY <2>3
  <2>5. \A j \in (m + 1)..n : j \in D
    BY <2>2, <2>4
  <2> QED BY <2>3, <2>5
<1> QED BY <1>1

\* A walk that goes on to larger numbers until it stops has an end from everywhere.
Walk(f, n, stop, next) == f = [i \in 1..n |-> IF i \in stop THEN i ELSE f[next[i]]]

LEMMA WalkExists ==
    ASSUME NEW n \in Nat, NEW stop, NEW next,
           \A i \in 1..n : i \notin stop => next[i] \in (i + 1)..n
    PROVE  \E f : Walk(f, n, stop, next)
<1> DEFINE From(f, k) == \A i \in 1..n : i >= k => f[i] = IF i \in stop THEN i ELSE f[next[i]]
           D == {m \in Nat : \E f : From(f, n + 1 - m)}
<1>1. 0 \in D
  <2>1. From(<<>>, n + 1 - 0)
    OBVIOUS
  <2> HIDE DEF From
  <2> QED BY <2>1
<1>2. \A m \in D : m + 1 \in D
  <2> TAKE m \in D
  <2> DEFINE k == n + 1 - m
  <2>1. PICK f : From(f, k)
    OBVIOUS
  <2>2. k \in Int /\ n + 1 - (m + 1) = k - 1
    OBVIOUS
  <2> DEFINE g == [i \in 1..n |-> IF i >= k THEN f[i] ELSE IF i \in stop THEN i ELSE f[next[i]]]
  <2>3. From(g, k - 1)
    <3> SUFFICES ASSUME NEW i \in 1..n, i >= k - 1
                 PROVE  g[i] = IF i \in stop THEN i ELSE g[next[i]]
      OBVIOUS
    <3> HIDE DEF k
    <3>1. i \notin stop => next[i] \in 1..n /\ next[i] >= k
      BY <2>2
    <3>2. i \notin stop => g[next[i]] = f[next[i]]
      BY <3>1
    <3>3. g[i] = IF i \in stop THEN i ELSE f[next[i]]
      BY <2>1, <2>2
    <3> QED BY <3>2, <3>3
  <2> HIDE DEF From, g
  <2> QED BY <2>2, <2>3
<1>3. PICK f : From(f, 1)
  <2>1. n \in D
    <3>1. D \in SUBSET Nat
      OBVIOUS
    <3> HIDE DEF D
    <3> QED BY <1>1, <1>2, <3>1, AllNumbers
  <2>2. n + 1 - n = 1
    OBVIOUS
  <2> HIDE DEF From
  <2> QED BY <2>1, <2>2
<1> DEFINE h == [i \in 1..n |-> f[i]]
<1>4. \A i \in 1..n : h[i] = IF i \in stop THEN i ELSE h[next[i]]
  <2> SUFFICES ASSUME NEW i \in 1..n PROVE h[i] = IF i \in stop THEN i ELSE h[next[i]]
    OBVIOUS
  <2>1. i \notin stop => next[i] \in 1..n
    OBVIOUS
  <2>2. f[i] = IF i \in stop THEN i ELSE f[next[i]]
    BY <1>3
  <2> QED BY <2>1, <2>2
<1>5. Walk(h, n, stop, next)
  <2>1. h = [i \in 1..n |-> h[i]]
    OBVIOUS
  <2> HIDE DEF h
  <2> QED BY <1>4, <2>1 DEF Walk
<1> QED BY <1>5

LEMMA RecordIs ==
    ASSUME NEW r \in RecordSet
    PROVE  r.date \in Nat /\ r.date \in 1..LastDate /\ r.period \in Quarters /\ r.next \in Nat
BY DEF RecordSet

\* The end of a list is its newest record.
LEMMA LastRevisionIs ==
    ASSUME records \in Seq(RecordSet), Linked, NEW first \in 1..Len(records)
    PROVE  LET l == LastRevision(first)
           IN  /\ l \in 1..Len(records) /\ SamePeriod(first, l)
               /\ \A j \in 1..Len(records) : SamePeriod(first, j) => j <= l
<1> DEFINE n == Len(records)
           stop == {i \in 1..n : records[i].next = Nowhere}
           next == [i \in 1..n |-> records[i].next]
           Body(f) == [i \in DOMAIN records |-> IF records[i].next = Nowhere THEN i ELSE f[records[i].next]]
           last == CHOOSE f : f = Body(f)
<1>1. n \in Nat /\ DOMAIN records = 1..n
  BY LenProperties
<1>2. \A i \in 1..n : i \notin stop => next[i] \in (i + 1)..n /\ next[i] = records[i].next
  BY DEF Linked
<1>3. PICK f : Walk(f, n, stop, next)
  <2> HIDE DEF n, stop, next
  <2> QED BY <1>1, <1>2, WalkExists
<1>4. f = Body(f)
  <2>1. f = [i \in 1..n |-> IF i \in stop THEN i ELSE f[next[i]]]
    BY <1>3 DEF Walk
  <2>2. \A i \in 1..n : (IF i \in stop THEN i ELSE f[next[i]]) =
                        (IF records[i].next = Nowhere THEN i ELSE f[records[i].next])
    OBVIOUS
  <2>3. [i \in 1..n |-> IF i \in stop THEN i ELSE f[next[i]]] = Body(f)
    BY <1>1, <2>2
  <2> HIDE DEF Body
  <2> QED BY <2>1, <2>3
<1>5. last = Body(last)
  <2> HIDE DEF Body
  <2> QED BY <1>4
<1>6. LastRevision(first) = last[first]
  BY DEF LastRevision
<1> HIDE DEF last
<1>7. \A i \in 1..n : last[i] = IF records[i].next = Nowhere THEN i ELSE last[records[i].next]
  BY <1>1, <1>5
<1> DEFINE Ok(i) == /\ last[i] \in 1..n /\ SamePeriod(i, last[i])
                    /\ \A j \in 1..n : SamePeriod(i, j) => j <= last[i]
           D == {i \in 1..n : Ok(i)}
<1>8. ASSUME NEW i \in 1..n, \A j \in (i + 1)..n : j \in D PROVE i \in D
  <2>1. CASE records[i].next = Nowhere
    <3>1. last[i] = i
      BY <1>7, <2>1
    <3>2. \A j \in 1..n : SamePeriod(i, j) => j <= i
      BY <1>1, <2>1 DEF Linked, Nowhere
    <3> QED BY <3>1, <3>2 DEF SamePeriod
  <2>2. CASE records[i].next # Nowhere
    <3> DEFINE k == records[i].next
    <3>1. k \in (i + 1)..n /\ SamePeriod(i, k)
      BY <2>2 DEF Linked
    <3>2. last[i] = last[k]
      BY <1>7, <2>2
    <3>3. Ok(k)
      BY <1>8, <3>1
    <3>4. \A j \in 1..n : SamePeriod(i, j) => SamePeriod(k, j)
      BY <3>1 DEF SamePeriod
    <3>5. SamePeriod(i, last[k])
      BY <3>1, <3>3 DEF SamePeriod
    <3> HIDE DEF k
    <3> QED BY <3>2, <3>3, <3>4, <3>5
  <2> QED BY <2>1, <2>2
<1>9. first \in D
  <2> HIDE DEF D
  <2> QED BY <1>1, <1>8, Downwards
<1> QED BY <1>6, <1>9

\* What a reader sees of a quarter on a day: its newest record of that day or earlier.
LEMMA ReadIs ==
    ASSUME Sound, rowsLeft = <<>>, NEW q \in Quarters, Offset(q) \in 1..Len(index), NEW cur \in Nat
    PROVE  ReadPeriodData(q, cur) = Newest(q, cur)
<1> DEFINE n == Len(records)
           Stops(i) == records[i].next = Nowhere \/ records[records[i].next].date > cur
           stop == {i \in 1..n : Stops(i)}
           next == [i \in 1..n |-> records[i].next]
           Body(f) == [i \in DOMAIN records |->
                          LET x == records[i].next
                          IN  IF x = Nowhere \/ records[x].date > cur THEN i ELSE f[x]]
           known == CHOOSE f : f = Body(f)
           first == FirstOf(q)
           revisions == {r \in loaded : r.period = q /\ r.date <= cur}
<1>1. /\ records \in Seq(RecordSet) /\ n \in Nat /\ DOMAIN records = 1..n
      /\ \A i \in 1..n : records[i] \in RecordSet
  BY LenProperties DEF Sound
<1>2. Linked /\ Indexed /\ ByDate(records) /\ loaded = Stored
  BY DEF Sound, ToStore
<1>3. \A i \in 1..n : records[i].date \in Nat /\ records[i].date \in 1..LastDate
  BY <1>1, RecordIs
<1>4. \A i \in 1..n : i \notin stop => next[i] \in (i + 1)..n /\ next[i] = records[i].next
  BY <1>2 DEF Linked
<1>5. PICK f : Walk(f, n, stop, next)
  <2> HIDE DEF n, stop, next
  <2> QED BY <1>1, <1>4, WalkExists
<1>6. f = Body(f)
  <2>1. f = [i \in 1..n |-> IF i \in stop THEN i ELSE f[next[i]]]
    BY <1>5 DEF Walk
  <2>2. \A i \in 1..n : (IF i \in stop THEN i ELSE f[next[i]]) =
                        (IF Stops(i) THEN i ELSE f[records[i].next])
    OBVIOUS
  <2>3. [i \in 1..n |-> IF i \in stop THEN i ELSE f[next[i]]] = Body(f)
    BY <1>1, <2>2
  <2> HIDE DEF Body
  <2> QED BY <2>1, <2>3
<1>7. known = Body(known)
  <2> HIDE DEF Body
  <2> QED BY <1>6
<1>8. ReadPeriodData(q, cur) =
         IF first = Nowhere \/ records[first].date > cur THEN NoValue
         ELSE <<records[known[first]].date, records[known[first]].period>>
  BY DEF ReadPeriodData, FirstOf
<1> HIDE DEF known
<1>9. \A i \in 1..n : known[i] = IF Stops(i) THEN i ELSE known[records[i].next]
  BY <1>1, <1>7
<1> DEFINE Ok(i) == records[i].date <= cur =>
                      /\ known[i] \in 1..n /\ SamePeriod(i, known[i]) /\ records[known[i]].date <= cur
                      /\ \A j \in 1..n : SamePeriod(i, j) /\ records[j].date <= cur => j <= known[i]
           D == {i \in 1..n : Ok(i)}
<1>10. ASSUME NEW i \in 1..n, \A j \in (i + 1)..n : j \in D PROVE i \in D
  <2> DEFINE k == records[i].next
  <2>1. CASE k = Nowhere
    <3>1. known[i] = i
      BY <1>9, <2>1
    <3>2. \A j \in 1..n : SamePeriod(i, j) => j <= i
      BY <1>1, <1>2, <2>1 DEF Linked, Nowhere
    <3> QED BY <3>1, <3>2 DEF SamePeriod
  <2>2. CASE k # Nowhere
    <3>1. /\ k \in (i + 1)..n /\ SamePeriod(i, k)
          /\ \A j \in 1..n : SamePeriod(i, j) => j <= i \/ j >= k
      BY <1>2, <2>2 DEF Linked
    <3>2. CASE records[k].date > cur
      <4>1. known[i] = i
        BY <1>9, <3>2
      <4>2. ASSUME NEW j \in 1..n, SamePeriod(i, j), records[j].date <= cur PROVE j <= i
        <5>1. j >= k => records[k].date <= records[j].date
          BY <1>1, <1>2, <1>3, <3>1 DEF ByDate
        <5>2. k \in 1..n
          BY <1>1, <3>1
        <5> HIDE DEF k
        <5> QED BY <1>1, <1>3, <3>1, <3>2, <4>2, <5>1, <5>2
      <4> HIDE DEF k
      <4> QED BY <4>1, <4>2 DEF SamePeriod
    <3>3. CASE ~(records[k].date > cur)
      <4>1. known[i] = known[k]
        BY <1>9, <2>2, <3>3
      <4>2. Ok(k) /\ k \in 1..n
        BY <1>1, <1>10, <3>1
      <4>3. records[k].date <= cur
        BY <1>3, <3>3, <4>2
      <4>4. \A j \in 1..n : SamePeriod(i, j) => SamePeriod(k, j)
        BY <3>1 DEF SamePeriod
      <4>5. SamePeriod(i, known[k])
        BY <3>1, <4>2, <4>3 DEF SamePeriod
      <4> HIDE DEF k
      <4> QED BY <4>1, <4>2, <4>3, <4>4, <4>5
    <3> QED BY <3>2, <3>3
  <2> QED BY <2>1, <2>2
<1>11. \A i \in 1..n : Ok(i)
  <2>1. \A i \in 1..n : i \in D
    <3> HIDE DEF D
    <3> QED BY <1>1, <1>10, Downwards
  <2> QED BY <2>1
<1> HIDE DEF Ok, stop, next, Body
<1>12. \/ first = Nowhere /\ \A i \in 1..n : records[i].period # q
       \/ /\ first \in 1..n /\ records[first].period = q
          /\ \A i \in 1..n : records[i].period = q => i >= first
  BY <1>2 DEF Indexed
<1>13. \A r \in revisions : \E i \in 1..n : r = RowOf(records[i]) /\ records[i].period = q /\ records[i].date <= cur
  BY <1>2 DEF Stored, RowOf
<1>14. \A i \in 1..n : records[i].period = q /\ records[i].date <= cur => RowOf(records[i]) \in revisions
  BY <1>2 DEF Stored, RowOf
<1> HIDE DEF revisions, first
<1>15. Newest(q, cur) = IF revisions = {} THEN NoValue ELSE <<Max({r.date : r \in revisions}), q>>
  BY DEF Newest, revisions
<1>16. CASE first = Nowhere
  <2>1. revisions = {}
    BY <1>12, <1>13, <1>16 DEF Nowhere
  <2> QED BY <1>8, <1>15, <1>16, <2>1
<1>17. CASE first # Nowhere /\ records[first].date > cur
  <2>1. ASSUME NEW i \in 1..n, records[i].period = q, records[i].date <= cur PROVE FALSE
    <3>1. first \in 1..n /\ i >= first
      BY <1>12, <1>17, <2>1
    <3>2. records[first].date <= records[i].date
      BY <1>1, <1>2, <1>3, <3>1 DEF ByDate
    <3> QED BY <1>3, <1>17, <2>1, <3>1, <3>2
  <2>2. revisions = {}
    BY <1>13, <2>1
  <2> QED BY <1>8, <1>15, <1>17, <2>2
<1>18. CASE first # Nowhere /\ ~(records[first].date > cur)
  <2> DEFINE l == known[first]
  <2>1. first \in 1..n /\ records[first].period = q /\ records[first].date <= cur
    BY <1>3, <1>12, <1>18
  <2>2. /\ l \in 1..n /\ SamePeriod(first, l) /\ records[l].date <= cur
        /\ \A j \in 1..n : SamePeriod(first, j) /\ records[j].date <= cur => j <= l
    BY <1>11, <2>1 DEF Ok
  <2> HIDE DEF l
  <2> DEFINE dates == {r.date : r \in revisions}
             m == records[l].date
  <2>3. records[l].period = q
    BY <2>1, <2>2 DEF SamePeriod
  <2>4. m \in dates
    <3>1. RowOf(records[l]) \in revisions
      BY <1>14, <2>2, <2>3
    <3>2. RowOf(records[l]).date = m
      BY DEF RowOf
    <3> QED BY <3>1, <3>2
  <2>5. \A d \in dates : d \in Nat /\ d <= m
    <3> SUFFICES ASSUME NEW r \in revisions PROVE r.date \in Nat /\ r.date <= m
      OBVIOUS
    <3>1. PICK i \in 1..n : r = RowOf(records[i]) /\ records[i].period = q /\ records[i].date <= cur
      BY <1>13
    <3>2. r.date = records[i].date
      BY <3>1 DEF RowOf
    <3>3. i <= l
      BY <2>1, <2>2, <3>1 DEF SamePeriod
    <3>4. records[i].date <= m
      BY <1>1, <1>2, <1>3, <2>2, <3>3 DEF ByDate
    <3> QED BY <1>3, <3>2, <3>4
  <2>6. Max(dates) = m
    <3>1. dates \in SUBSET Nat
      BY <2>5
    <3> HIDE DEF dates, m
    <3> QED BY <2>4, <2>5, <3>1, MaxIs
  <2>7. revisions # {}
    BY <2>4
  <2>8. ReadPeriodData(q, cur) = <<m, q>>
    BY <1>8, <1>18, <2>3 DEF l
  <2> QED BY <1>15, <2>6, <2>7, <2>8
<1> QED BY <1>16, <1>17, <1>18

LEMMA SoundRecords ==
    ASSUME Sound
    PROVE  /\ records \in Seq(RecordSet) /\ Len(records) \in Nat /\ DOMAIN records = 1..Len(records)
           /\ \A i \in 1..Len(records) : records[i] \in RecordSet
           /\ Len(index) \in Nat /\ Len(rowsLeft) \in Nat
           /\ Stored \subseteq loaded
           /\ \A r \in loaded : r.period \in Quarters /\ r.date \in Nat
<1>1. /\ records \in Seq(RecordSet) /\ Len(records) \in Nat /\ DOMAIN records = 1..Len(records)
      /\ \A i \in 1..Len(records) : records[i] \in RecordSet
      /\ Len(index) \in Nat /\ Len(rowsLeft) \in Nat
      /\ \A i \in 1..Len(rowsLeft) : rowsLeft[i] \in PitRows
  BY LenProperties DEF Sound
<1>2. Stored \subseteq loaded
  BY DEF Sound
<1>3. \A r \in Stored : r.period \in Quarters /\ r.date \in Nat
  BY <1>1, RecordIs DEF Stored, RowOf
<1>4. \A r \in ToStore : r.period \in Quarters /\ r.date \in Nat
  <2>1. \A r \in PitRows : r.period \in Quarters /\ r.date \in Nat
    BY DEF PitRows
  <2> QED BY <1>1, <2>1 DEF ToStore
<1>5. \A r \in loaded : r \in Stored \/ r \in ToStore
  BY DEF Sound
<1>6. \A r \in loaded : r.period \in Quarters /\ r.date \in Nat
  BY <1>3, <1>4, <1>5
<1> QED BY <1>1, <1>2, <1>6

\* The quarters between two that are loaded have their places.
LEMMA BetweenFits ==
    ASSUME Sound, NEW r \in loaded, NEW t \in loaded, NEW q \in Int, r.period <= q, q <= t.period
    PROVE  q \in Quarters /\ Offset(q) \in 1..Len(index)
<1>1. r.period \in Quarters /\ t.period \in Quarters /\ Len(index) \in Nat
  BY SoundRecords
<1>2. firstYear \in Nat /\ Offset(r.period) \in 1..Len(index) /\ Offset(t.period) \in 1..Len(index)
  BY DEF Sound
<1>3. r.period \in Nat /\ t.period \in Nat /\ q \in Nat /\ q \in Quarters
  BY <1>1, PitAssumption DEF Quarters
<1> DEFINE c == firstYear * QuartersPerYear
<1>4. /\ c \in Nat /\ Offset(q) = q - c + 1 /\ Offset(r.period) = r.period - c + 1
      /\ Offset(t.period) = t.period - c + 1
  BY <1>2, <1>3, OffsetIs
<1> HIDE DEF c
<1> QED BY <1>1, <1>2, <1>3, <1>4

LEMMA FeatureIs ==
    ASSUME Sound, rowsLeft = <<>>, NEW cur \in 1..LastDate, NEW back \in Quarters
    PROVE  PeriodFeature(cur, back) =
              LET seen == {r \in loaded : r.date <= cur}
              IN  IF seen = {} THEN <<>>
                  ELSE [q \in Window(PeriodList(seen), back) |-> Newest(q, cur)]
<1> DEFINE n == Len(records)
           found == {r \in Range(records) : r.date <= cur}
           seen == {r \in loaded : r.date <= cur}
<1>1. /\ records \in Seq(RecordSet) /\ n \in Nat /\ DOMAIN records = 1..n
      /\ \A i \in 1..n : records[i] \in RecordSet
      /\ \A r \in loaded : r.period \in Quarters
  BY SoundRecords
<1>2. loaded = Stored
  BY DEF Sound, ToStore
<1>3. Range(records) = {records[i] : i \in 1..n}
  BY <1>1 DEF Range
<1>4. \A r \in found : \E s \in seen : s.period = r.period
  <2> SUFFICES ASSUME NEW i \in 1..n, records[i].date <= cur
               PROVE  \E s \in seen : s.period = records[i].period
    BY <1>3
  <2>1. RowOf(records[i]) \in loaded /\ RowOf(records[i]).date = records[i].date
        /\ RowOf(records[i]).period = records[i].period
    BY <1>2 DEF Stored, RowOf
  <2> QED BY <2>1
<1>5. \A s \in seen : \E r \in found : s.period = r.period
  <2> SUFFICES ASSUME NEW i \in 1..n, RowOf(records[i]).date <= cur
               PROVE  \E r \in found : RowOf(records[i]).period = r.period
    BY <1>2 DEF Stored
  <2>1. RowOf(records[i]).date = records[i].date /\ RowOf(records[i]).period = records[i].period
    BY DEF RowOf
  <2>2. records[i] \in Range(records)
    BY <1>3
  <2> QED BY <2>1, <2>2
<1> DEFINE P == Periods(seen)
<1>6. Periods(found) = P /\ (found = {} <=> seen = {})
  BY <1>4, <1>5 DEF Periods
<1>7. P \subseteq 0..MaxQuarter /\ MaxQuarter \in Nat /\ \A p \in P : p \in Nat /\ \E r \in loaded : r.period = p
  BY <1>1, PitAssumption DEF Periods, Quarters
<1> HIDE DEF found, seen, P
<1>8. CASE seen = {}
  BY <1>6, <1>8 DEF PeriodFeature, found, seen
<1>9. CASE seen # {}
  <2>1. P # {}
    BY <1>9 DEF P, Periods
  <2>2. Min(P) \in P /\ Max(P) \in P
    <3>1. P \in SUBSET Nat
      BY <1>7
    <3> QED BY <1>7, <2>1, <3>1, MinIsLeast, MaxIsGreatest
  <2>3. Min(P) \in Nat /\ Max(P) \in Nat
    BY <1>7, <2>2
  <2>4. ASSUME NEW q \in Min(P)..Max(P) PROVE q \in Quarters /\ Offset(q) \in 1..Len(index)
    <3>1. PICK r \in loaded : r.period = Min(P)
      BY <1>7, <2>2
    <3>2. PICK t \in loaded : t.period = Max(P)
      BY <1>7, <2>2
    <3> QED BY <2>3, <3>1, <3>2, BetweenFits
  <2> DEFINE W == Window(Min(P)..Max(P), back)
  <2>5. W \subseteq Min(P)..Max(P)
    BY DEF Window
  <2> HIDE DEF W
  <2>6. \A q \in W : ReadPeriodData(q, cur) = Newest(q, cur)
    <3> TAKE q \in W
    <3>1. q \in Quarters /\ Offset(q) \in 1..Len(index) /\ cur \in Nat
      BY <2>4, <2>5
    <3> QED BY <3>1, ReadIs
  <2>7. [q \in W |-> ReadPeriodData(q, cur)] = [q \in W |-> Newest(q, cur)]
    BY <2>6
  <2>8. PeriodList(found) = Min(P)..Max(P) /\ PeriodList(seen) = Min(P)..Max(P)
    BY <1>6 DEF PeriodList, P
  <2>9. PeriodFeature(cur, back) = [q \in W |-> ReadPeriodData(q, cur)]
    <3>1. found # {}
      BY <1>6, <1>9
    <3> QED BY <2>8, <3>1 DEF PeriodFeature, found, W
  <2> QED BY <1>9, <2>7, <2>8, <2>9 DEF W, seen
<1> QED BY <1>8, <1>9

-----------------------------------------------------------------------------
LEMMA PitInits == PitInit => PitInv
<1> SUFFICES ASSUME PitInit PROVE PitInv
  OBVIOUS
<1>1. /\ published = {} /\ firstYear = NoYear /\ index = <<>> /\ records = <<>> /\ rowsLeft = <<>>
      /\ writing = FALSE /\ loaded = {} /\ damage = "no"
  BY DEF PitInit
<1>2. ByDate(<<>>) /\ NotAfter(<<>>, <<>>)
  BY DEF ByDate, NotAfter
<1>3. Linked /\ Indexed /\ Stored = {} /\ ToStore = {}
  BY <1>1 DEF Linked, Indexed, Stored, ToStore
<1>4. Sound
  BY <1>1, <1>2, <1>3 DEF Sound
<1>5. ptoday \in 1..LastDate
  BY PitAssumption DEF PitInit
<1> QED BY <1>1, <1>4, <1>5 DEF PitInv, PitShape

LEMMA YearGrows ==
    ASSUME NEW a \in Nat, NEW b \in Nat, a <= b
    PROVE  Year(a) <= Year(b)
<1> DEFINE Q == QuartersPerYear
           x == Year(a)
           y == Year(b)
<1>1. Q \in Nat /\ Q # 0 /\ x \in Nat /\ y \in Nat
  BY YearOf, PitAssumption
<1>2. x * Q <= a /\ b < y * Q + Q
  <2> DEFINE m == a % Q
             k == b % Q
  <2>1. m \in 0..(Q - 1) /\ k \in 0..(Q - 1) /\ a = x * Q + m /\ b = y * Q + k
    BY YearOf
  <2>2. x * Q \in Nat /\ y * Q \in Nat
    BY <1>1
  <2> HIDE DEF m, k, x, y, Q
  <2> QED BY <1>1, <2>1, <2>2
<1> HIDE DEF x, y, Q
<1>3. x <= y
  <2> SUFFICES ASSUME ~(x <= y) PROVE FALSE
    OBVIOUS
  <2>1. PICK c \in Nat : x = y + 1 + c
    <3>1. x - y - 1 \in Nat /\ x = y + 1 + (x - y - 1)
      BY <1>1
    <3> QED BY <3>1
  <2>2. x * Q = y * Q + Q + c * Q /\ c * Q \in Nat /\ y * Q \in Nat
    BY <1>1, <2>1
  <2> QED BY <1>1, <1>2, <2>2
<1> QED BY <1>3 DEF x, y

LEMMA RowsFinite ==
    ASSUME NEW rows \in SUBSET PitRows
    PROVE  IsFiniteSet(rows)
<1> DEFINE D == (1..LastDate) \X Quarters
           row == [p \in D |-> [date |-> p[1], period |-> p[2]]]
<1>1. IsFiniteSet(D)
  <2>1. IsFiniteSet(1..LastDate) /\ IsFiniteSet(0..MaxQuarter)
    BY PitAssumption, FS_Interval
  <2> QED BY <2>1, FS_Product DEF Quarters
<1>2. row \in Surjection(D, PitRows)
  <2>1. \A p \in D : row[p] \in PitRows
    BY DEF PitRows
  <2>2. \A r \in PitRows : <<r.date, r.period>> \in D /\ row[<<r.date, r.period>>] = r
    BY DEF PitRows
  <2>3. row \in [D -> PitRows]
    BY <2>1
  <2> HIDE DEF D, row
  <2> QED BY <2>2, <2>3 DEF Surjection
<1>3. IsFiniteSet(PitRows)
  <2> HIDE DEF D, row
  <2> QED BY <1>1, <1>2, FS_Surjection
<1> QED BY <1>3, FS_Subset

\* The rows of a sorted table are those of the table.
LEMMA SortingIs ==
    ASSUME NEW rows \in SUBSET PitRows, NEW s \in Sortings(rows)
    PROVE  s \in Seq(PitRows) /\ ByDate(s) /\ {s[i] : i \in 1..Len(s)} = rows
<1> DEFINE n == Cardinality(rows)
<1>1. IsFiniteSet(rows) /\ n \in Nat
  BY RowsFinite, FS_CardinalityType
<1>2. /\ s \in [1..n -> rows] /\ \A i, j \in 1..n : i # j => s[i] # s[j]
      /\ \A i, j \in DOMAIN s : i < j => s[i].date <= s[j].date
  BY DEF Sortings, SetToSeqs
<1> HIDE DEF n
<1>3. s \in Seq(PitRows) /\ Len(s) = n
  BY <1>1, <1>2
<1>4. ByDate(s)
  BY <1>1, <1>2, <1>3 DEF ByDate
<1>5. s \in Surjection(1..n, rows)
  <2>1. s \in Injection(1..n, rows)
    BY <1>2 DEF Injection, IsInjective
  <2>2. IsFiniteSet(1..n) /\ Cardinality(1..n) = n
    BY <1>1, FS_Interval
  <2> QED BY <1>1, <2>1, <2>2, FS_Injection DEF n
<1>6. \A r \in rows : \E i \in 1..n : s[i] = r
  BY <1>5 DEF Surjection
<1> QED BY <1>2, <1>3, <1>4, <1>6

\* A file that is written anew is opened with a row for each quarter that is to come, and
\* with nothing in it.
LEMMA FreshIsSound ==
    ASSUME NEW rows \in SUBSET PitRows, rows # {}, NEW new \in Sortings(rows),
           firstYear' = Year(Min(Periods(rows))),
           index' = <<>> \o [i \in 1..((Year(Max(Periods(rows))) - Year(Min(Periods(rows))) + 1) * QuartersPerYear)
                                |-> Nowhere],
           records' = <<>>, rowsLeft' = new, loaded' = rows, fdAt' = 1, writing' = TRUE
    PROVE  Sound'
<1> DEFINE P == Periods(rows)
           y == Year(Min(P))
           z == Year(Max(P))
           m == (z - y + 1) * QuartersPerYear
           none == [i \in 1..m |-> Nowhere]
<1>1. P \subseteq 0..MaxQuarter /\ MaxQuarter \in Nat /\ P \in SUBSET Nat /\ P # {}
  <2>1. \A r \in rows : r.period \in 0..MaxQuarter
    BY DEF PitRows, Quarters
  <2> QED BY <2>1, PitAssumption DEF Periods
<1>2. Min(P) \in P /\ Max(P) \in P /\ \A p \in P : Min(P) <= p /\ p <= Max(P)
  <2> HIDE DEF P
  <2> QED BY <1>1, MinIsLeast, MaxIsGreatest
<1>3. \A p \in P : p \in Nat /\ Year(p) \in Nat
  BY <1>1, YearOf
<1>4. \A p \in P : y <= Year(p) /\ Year(p) <= z
  <2>1. \A a, b \in P : a <= b => Year(a) <= Year(b)
    BY <1>3, YearGrows
  <2> QED BY <1>2, <2>1
<1>5. y \in Nat /\ z \in Nat /\ y <= z
  BY <1>2, <1>3, <1>4
<1>6. m \in Nat
  BY <1>5, PitAssumption
<1> HIDE DEF m
<1>7. none \in Seq(Nat) /\ Len(none) = m /\ \A i \in 1..m : none[i] = Nowhere
  BY <1>6 DEF Nowhere
<1>8. index' = none
  <2> HIDE DEF none
  <2> QED BY <1>7, ConcatEmptySeq DEF m
<1>9. new \in Seq(PitRows) /\ ByDate(new) /\ {new[i] : i \in 1..Len(new)} = rows
  BY SortingIs
<1>10. records' = <<>> /\ Len(<<>>) = 0 /\ firstYear' = y
  OBVIOUS
<1>11. Linked' /\ Stored' = {}
  BY <1>10 DEF Linked, Stored
<1>12. Indexed'
  <2> HIDE DEF none
  <2>1. ASSUME NEW q \in Quarters, Offset(q)' \in 1..Len(index') PROVE FirstOf(q)' = Nowhere
    BY <1>7, <1>8, <2>1 DEF FirstOf
  <2>2. 1..Len(records') = {}
    BY <1>10
  <2> QED BY <2>1, <2>2 DEF Indexed
<1>13. \A r \in rows : firstYear' \in Nat /\ Offset(r.period)' \in 1..Len(index')
  <2> TAKE r \in rows
  <2>1. r.period \in P
    BY DEF Periods
  <2>2. r.period \in Nat /\ y <= Year(r.period) /\ Year(r.period) <= z
    BY <1>3, <1>4, <2>1
  <2>3. Offset(r.period)' \in 1..m
    <3> DEFINE p == r.period
    <3>1. Offset(p)' = (Year(p) - y) * QuartersPerYear + (p % QuartersPerYear) + 1
      BY <1>10 DEF Offset
    <3> HIDE DEF p, y, z
    <3>2. (Year(p) - y) * QuartersPerYear + (p % QuartersPerYear) + 1 \in 1..m
      BY <1>5, <2>2, YearsFit DEF m, p
    <3> QED BY <3>1, <3>2 DEF p
  <2> QED BY <1>5, <1>7, <1>8, <1>10, <2>3
<1>14. ByDate(<<>>) /\ NotAfter(<<>>, new)
  BY DEF ByDate, NotAfter
<1>15. ToStore' = rows
  BY <1>9 DEF ToStore
<1>16. index' \in Seq(Nat)
  <2> HIDE DEF none
  <2> QED BY <1>7, <1>8
<1>17. records' \in Seq(RecordSet) /\ firstYear' \in Nat
  BY <1>5, <1>10
<1>18. ByDate(records') /\ NotAfter(records', rowsLeft')
  BY <1>10, <1>14
<1>19. loaded' = Stored' \union ToStore'
  BY <1>11, <1>15
<1>20. \A r \in loaded' : firstYear' \in Nat /\ Offset(r.period)' \in 1..Len(index')
  BY <1>13
<1>21. rowsLeft' \in Seq(PitRows) /\ ByDate(rowsLeft')
  BY <1>9
<1>22. writing' /\ fdAt' = Len(records') + 1
  BY <1>10
<1> QED BY <1>11, <1>12, <1>16, <1>17, <1>18, <1>19, <1>20, <1>21, <1>22 DEF Sound

\* An index with more quarters and nothing new to write.
LEMMA ExtendedIsSound ==
    ASSUME Sound, NEW m \in Nat, index' = index \o [i \in 1..m |-> Nowhere], rowsLeft' = <<>>,
           ToStore = {}, writing' = TRUE, UNCHANGED <<firstYear, records, loaded>>
    PROVE  Sound'
<1> DEFINE none == [i \in 1..m |-> Nowhere]
           l == Len(index)
<1>1. none \in Seq(Nat) /\ Len(none) = m /\ \A i \in 1..m : none[i] = Nowhere
  BY DEF Nowhere
<1>2. index \in Seq(Nat) /\ l \in Nat
  BY LenProperties DEF Sound
<1> HIDE DEF none, l
<1>3. index' = index \o none
  BY DEF none
<1>4. /\ index' \in Seq(Nat) /\ Len(index') = l + m
      /\ \A i \in 1..l : index'[i] = index[i] /\ i \in 1..(l + m)
      /\ \A i \in 1..(l + m) : i \in 1..l \/ index'[i] = Nowhere
  <2>1. /\ index' \in Seq(Nat) /\ Len(index') = l + m
        /\ \A i \in 1..(l + m) : index'[i] = IF i <= l THEN index[i] ELSE none[i - l]
    <3>1. /\ index \o none \in Seq(Nat) /\ Len(index \o none) = Len(index) + Len(none)
          /\ \A i \in 1..(Len(index) + Len(none)) :
                (index \o none)[i] = IF i <= Len(index) THEN index[i] ELSE none[i - Len(index)]
      BY <1>1, <1>2, ConcatProperties
    <3> QED BY <1>1, <1>3, <3>1 DEF l
  <2>2. \A i \in 1..(l + m) : i \in 1..l \/ (~(i <= l) /\ i - l \in 1..m)
    BY <1>2
  <2>3. \A i \in 1..l : i \in 1..(l + m) /\ i <= l
    BY <1>2
  <2> QED BY <1>1, <2>1, <2>2, <2>3
<1>5. \A p \in Nat : Offset(p)' = Offset(p)
  BY DEF Offset
<1>6. \A i \in 1..Len(records) : Offset(records[i].period) \in 1..l
  <2> TAKE i \in 1..Len(records)
  <2>1. RowOf(records[i]) \in loaded /\ RowOf(records[i]).period = records[i].period
    BY SoundRecords DEF Stored, RowOf
  <2> QED BY <2>1 DEF Sound, l
<1>7. Indexed'
  <2> SUFFICES ASSUME NEW q \in Quarters, Offset(q) \in 1..(l + m)
               PROVE  \/ index'[Offset(q)] = Nowhere /\ \A i \in 1..Len(records) : records[i].period # q
                      \/ /\ index'[Offset(q)] \in 1..Len(records) /\ records[index'[Offset(q)]].period = q
                         /\ \A i \in 1..Len(records) : records[i].period = q => i >= index'[Offset(q)]
    BY <1>4, <1>5, QuarterIs DEF Indexed, FirstOf
  <2>1. CASE Offset(q) \in 1..l
    <3>1. index'[Offset(q)] = FirstOf(q)
      BY <1>4, <2>1 DEF FirstOf
    <3>2. Indexed
      BY DEF Sound
    <3> QED BY <2>1, <3>1, <3>2 DEF Indexed, l
  <2>2. CASE Offset(q) \notin 1..l
    <3>1. index'[Offset(q)] = Nowhere
      BY <1>4, <2>2
    <3> QED BY <1>6, <2>2, <3>1
  <2> QED BY <2>1, <2>2
<1>8. Linked' /\ Stored' = Stored
  BY DEF Sound, Linked, Stored, SamePeriod
<1>9. ToStore' = {} /\ ByDate(<<>>) /\ NotAfter(records, <<>>)
  BY DEF ToStore, ByDate, NotAfter
<1>10. \A r \in loaded : firstYear' \in Nat /\ Offset(r.period)' \in 1..Len(index')
  <2> TAKE r \in loaded
  <2>1. firstYear \in Nat /\ Offset(r.period) \in 1..l /\ r.period \in Nat
    BY SoundRecords, QuarterIs DEF Sound, l
  <2> QED BY <1>4, <1>5, <2>1
<1>11. records' \in Seq(RecordSet) /\ firstYear' \in Nat \union {NoYear} /\ ByDate(records')
  BY DEF Sound
<1>12. loaded' = Stored' \union ToStore'
  BY <1>8, <1>9 DEF Sound
<1>13. rowsLeft' \in Seq(PitRows) /\ ByDate(rowsLeft') /\ NotAfter(records', rowsLeft')
  BY <1>9
<1>14. \A r \in loaded' : firstYear' \in Nat /\ Offset(r.period)' \in 1..Len(index')
  BY <1>10
<1> QED BY <1>4, <1>7, <1>8, <1>11, <1>12, <1>13, <1>14 DEF Sound

LEMMA DumpStarts ==
    ASSUME PitInv, NEW overwrite \in BOOLEAN, overwrite \/ damage # "killed", StartDump(overwrite)
    PROVE  PitInv'
<1> DEFINE fresh == overwrite \/ firstYear = NoYear
           start == IF fresh THEN Year(Min(Periods(published)))
                    ELSE firstYear + Len(index) \div QuartersPerYear
           end   == Year(Max(Periods(published)))
           new   == IF fresh THEN published
                    ELSE {r \in published : r.date > Last(records).date}
           m     == (end - start + 1) * QuartersPerYear
<1>1. /\ ~writing /\ published # {} /\ start <= end
      /\ firstYear' = IF fresh THEN start ELSE firstYear
      /\ index' = (IF fresh THEN <<>> ELSE index) \o [i \in 1..m |-> Nowhere]
      /\ records' = IF fresh THEN <<>> ELSE records
      /\ rowsLeft' \in Sortings(new)
      /\ loaded' = IF fresh THEN new ELSE loaded \union new
      /\ damage' = IF fresh THEN "no" ELSE IF new = {} THEN damage ELSE "patched"
      /\ fdAt' = 1 /\ writing' = TRUE /\ UNCHANGED <<published, ptoday>>
  BY DEF StartDump
<1>2. PitShape
  BY DEF PitInv
<1>3. published \in SUBSET PitRows /\ new \in SUBSET PitRows
  BY <1>2 DEF PitShape
<1>4. PitShape'
  BY <1>1, <1>2 DEF PitShape
<1>5. CASE fresh
  <2>1. /\ firstYear' = Year(Min(Periods(published)))
        /\ index' = <<>> \o [i \in 1..((Year(Max(Periods(published))) - Year(Min(Periods(published))) + 1)
                                          * QuartersPerYear) |-> Nowhere]
        /\ records' = <<>> /\ rowsLeft' \in Sortings(published) /\ loaded' = published
    BY <1>1, <1>5
  <2> HIDE DEF fresh, start, end, new, m
  <2>2. Sound'
    BY <1>1, <1>3, <2>1, FreshIsSound
  <2> QED BY <1>4, <2>2 DEF PitInv
<1>6. CASE ~fresh /\ damage' = "no"
  <2>1. new = {} /\ damage = "no"
    BY <1>1, <1>6
  <2>2. Sound
    BY <2>1 DEF PitInv
  <2>3. index' = index \o [i \in 1..m |-> Nowhere] /\ loaded' = loaded
        /\ records' = records /\ firstYear' = firstYear
    BY <1>1, <1>6, <2>1
  <2>4. m \in Nat
    <3>1. start \in Nat
      <4>1. firstYear \in Nat /\ Len(index) \in Nat
        BY <1>6, <2>2, SoundRecords DEF Sound
      <4>2. Len(index) \div QuartersPerYear \in Nat
        BY <4>1, YearOf DEF Year
      <4> QED BY <1>6, <4>1, <4>2
    <3>2. end \in Nat
      <4> DEFINE P == Periods(published)
      <4>1. P \subseteq 0..MaxQuarter /\ P # {} /\ MaxQuarter \in Nat
        <5>1. \A r \in published : r.period \in 0..MaxQuarter
          BY <1>3 DEF PitRows, Quarters
        <5> QED BY <1>1, <5>1, PitAssumption DEF Periods
      <4>2. Max(P) \in P
        <5> HIDE DEF P
        <5> QED BY <4>1, MaxIsGreatest
      <4>3. Max(P) \in Nat
        BY <4>1, <4>2
      <4> QED BY <4>3, YearOf
    <3>3. end - start + 1 \in Nat /\ QuartersPerYear \in Nat
      <4> HIDE DEF start, end
      <4> QED BY <1>1, <3>1, <3>2, PitAssumption
    <3> HIDE DEF start, end
    <3> QED BY <3>3
  <2>5. rowsLeft' = <<>>
    <3>1. rowsLeft' \in Sortings({})
      BY <1>1, <2>1
    <3>2. rowsLeft' \in Seq(PitRows) /\ {rowsLeft'[i] : i \in 1..Len(rowsLeft')} = {}
      BY <3>1, SortingIs
    <3>3. Len(rowsLeft') \in Nat
      BY <3>2, LenProperties
    <3>4. \A i \in 1..Len(rowsLeft') : rowsLeft'[i] \in {}
      BY <3>2
    <3>5. ~(1 \in 1..Len(rowsLeft'))
      BY <3>4
    <3>6. Len(rowsLeft') = 0
      BY <3>3, <3>5
    <3> QED BY <3>2, <3>6
  <2>6. ToStore = {}
    BY <1>1, <2>2 DEF Sound, ToStore
  <2> HIDE DEF m
  <2>7. Sound'
    BY <1>1, <2>2, <2>3, <2>4, <2>5, <2>6, ExtendedIsSound
  <2> QED BY <1>4, <2>7 DEF PitInv
<1>7. CASE ~fresh /\ damage' # "no"
  BY <1>4, <1>7 DEF PitInv
<1> QED BY <1>5, <1>6, <1>7

LEMMA PointedIs ==
    ASSUME NEW r \in RecordSet, NEW m \in Nat
    PROVE  LET changed == [r EXCEPT !.next = m]
           IN  /\ changed \in RecordSet /\ changed.date = r.date /\ changed.period = r.period
               /\ changed.next = m
BY DEF RecordSet

LEMMA RowStep == ASSUME PitInv, DumpRow PROVE PitInv'
<1> DEFINE n == Len(records)
           row == Head(rowsLeft)
           q == row.period
           first == index[Offset(q)]
           l == LastRevision(first)
           linked == IF first = Nowhere THEN records ELSE [records EXCEPT ![l].next = fdAt]
           rec == [date |-> row.date, period |-> q, next |-> Nowhere]
<1>1. /\ writing /\ rowsLeft # <<>>
      /\ index' = IF first # Nowhere THEN index ELSE [index EXCEPT ![Offset(q)] = fdAt]
      /\ records' = Written(linked, fdAt, rec)
      /\ rowsLeft' = Tail(rowsLeft)
      /\ UNCHANGED <<published, ptoday, firstYear, writing, loaded, damage>>
  BY DEF DumpRow
<1>2. PitShape'
  BY <1>1 DEF PitInv, PitShape
<1>3. fdAt' = fdAt + 1
  BY DEF DumpRow
<1> SUFFICES ASSUME damage = "no" PROVE Sound'
  BY <1>1, <1>2 DEF PitInv
<1>4. /\ Sound /\ fdAt = n + 1 /\ n \in Nat /\ records \in Seq(RecordSet) /\ index \in Seq(Nat)
      /\ rowsLeft \in Seq(PitRows) /\ Len(rowsLeft) \in Nat /\ Len(index) \in Nat
      /\ \A i \in 1..n : records[i] \in RecordSet
  BY <1>1, SoundRecords DEF PitInv, Sound
<1>5. /\ Linked /\ Indexed /\ ByDate(records) /\ ByDate(rowsLeft) /\ NotAfter(records, rowsLeft)
      /\ loaded = Stored \union ToStore
      /\ \A r \in loaded : firstYear \in Nat /\ Offset(r.period) \in 1..Len(index)
  BY <1>4 DEF Sound
<1>6. Len(rowsLeft) # 0 /\ row = rowsLeft[1]
  BY <1>1, <1>4
<1>7. row \in PitRows /\ row \in loaded /\ row \in ToStore
  <2>1. 1 \in 1..Len(rowsLeft)
    BY <1>4, <1>6
  <2>2. rowsLeft[1] \in PitRows
    BY <1>4, <2>1
  <2> HIDE DEF row
  <2> QED BY <1>5, <1>6, <2>1, <2>2 DEF ToStore
<1>8. q \in Quarters /\ q \in Nat /\ row.date \in 1..LastDate /\ row = [date |-> row.date, period |-> q]
  <2>1. \A r \in PitRows : r.period \in Quarters /\ r.date \in 1..LastDate /\ r = [date |-> r.date, period |-> r.period]
    BY DEF PitRows
  <2> HIDE DEF row
  <2> QED BY <1>7, <2>1, QuarterIs
<1>9. firstYear \in Nat /\ Offset(q) \in 1..Len(index)
  <2> HIDE DEF row
  <2> QED BY <1>5, <1>7
<1>10. /\ Len(rowsLeft') = Len(rowsLeft) - 1 /\ rowsLeft' \in Seq(PitRows)
       /\ \A k \in 1..(Len(rowsLeft) - 1) : rowsLeft'[k] = rowsLeft[k + 1]
  BY <1>1, <1>4, <1>6
<1>11. rec \in RecordSet /\ rec.date = row.date /\ rec.period = q /\ rec.next = Nowhere
  BY <1>8 DEF RecordSet, Nowhere
<1> HIDE DEF row, q
<1>12. \/ first = Nowhere /\ \A i \in 1..n : records[i].period # q
       \/ /\ first \in 1..n /\ first # Nowhere /\ records[first].period = q
          /\ \A i \in 1..n : records[i].period = q => i >= first
  <2>1. FirstOf(q) = first
    BY DEF FirstOf
  <2>2. \/ FirstOf(q) = Nowhere /\ \A i \in 1..n : records[i].period # q
        \/ /\ FirstOf(q) \in 1..n /\ records[FirstOf(q)].period = q
           /\ \A i \in 1..n : records[i].period = q => i >= FirstOf(q)
    BY <1>5, <1>8, <1>9 DEF Indexed
  <2>3. FirstOf(q) \in 1..n => FirstOf(q) # Nowhere
    BY <1>4 DEF Nowhere
  <2> QED BY <2>1, <2>2, <2>3
<1> HIDE DEF first
<1>13. first # Nowhere =>
          l \in 1..n /\ records[l].period = q /\ \A j \in 1..n : records[j].period = q => j <= l
  <2> SUFFICES ASSUME first # Nowhere
               PROVE  l \in 1..n /\ records[l].period = q /\ \A j \in 1..n : records[j].period = q => j <= l
    OBVIOUS
  <2>1. first \in 1..n /\ records[first].period = q
    BY <1>12
  <2>2. l \in 1..n /\ SamePeriod(first, l) /\ \A j \in 1..n : SamePeriod(first, j) => j <= l
    BY <1>4, <1>5, <2>1, LastRevisionIs
  <2> HIDE DEF l
  <2> QED BY <2>1, <2>2 DEF SamePeriod
<1> HIDE DEF l
<1> DEFINE Next(i) == IF first # Nowhere /\ i = l THEN n + 1 ELSE records[i].next
<1>14. /\ linked \in Seq(RecordSet) /\ Len(linked) = n
       /\ \A i \in 1..n : linked[i].date = records[i].date /\ linked[i].period = records[i].period
                          /\ linked[i].next = Next(i)
  <2>1. CASE first = Nowhere
    BY <1>4, <2>1
  <2>2. CASE first # Nowhere
    <3> DEFINE changed == [records[l] EXCEPT !.next = fdAt]
    <3>1. l \in 1..n /\ records[l] \in RecordSet
      BY <1>4, <1>13, <2>2
    <3>2. changed \in RecordSet /\ changed.date = records[l].date /\ changed.period = records[l].period
          /\ changed.next = n + 1
      <4>1. fdAt \in Nat /\ fdAt = n + 1
        BY <1>4
      <4> QED BY <3>1, <4>1, PointedIs
    <3>3. linked = [records EXCEPT ![l] = changed]
      BY <2>2
    <3> HIDE DEF changed, linked
    <3>4. /\ linked \in Seq(RecordSet) /\ Len(linked) = n
          /\ \A i \in 1..n : linked[i] = IF i = l THEN changed ELSE records[i]
      BY <1>4, <3>1, <3>2, <3>3, ExceptSeq
    <3> QED BY <2>2, <3>2, <3>4
  <2> QED BY <2>1, <2>2
<1> HIDE DEF linked, rec
<1>15. /\ records' \in Seq(RecordSet) /\ Len(records') = n + 1 /\ records'[n + 1] = rec
       /\ \A i \in 1..n : records'[i] = linked[i]
  <2>1. records' = Append(linked, rec)
    BY <1>1, <1>4, <1>14 DEF Written
  <2> QED BY <1>11, <1>14, <2>1, AppendProperties
<1>16. \A i \in 1..(n + 1) : i \in 1..n \/ i = n + 1
  BY <1>4
<1>17. /\ records'[n + 1].date = row.date /\ records'[n + 1].period = q /\ records'[n + 1].next = Nowhere
       /\ \A i \in 1..n : /\ records'[i].date = records[i].date
                          /\ records'[i].period = records[i].period
                          /\ records'[i].next = Next(i)
  BY <1>11, <1>14, <1>15
<1> HIDE DEF Next
<1>18. Linked'
  <2> SUFFICES ASSUME NEW i \in 1..(n + 1)
               PROVE  \/ /\ records'[i].next = Nowhere
                         /\ \A j \in 1..(n + 1) : records'[i].period = records'[j].period => j <= i
                      \/ /\ records'[i].next \in (i + 1)..(n + 1)
                         /\ records'[i].period = records'[records'[i].next].period
                         /\ \A j \in 1..(n + 1) : records'[i].period = records'[j].period =>
                               j <= i \/ j >= records'[i].next
    BY <1>15 DEF Linked, SamePeriod
  <2>1. CASE i = n + 1
    BY <1>4, <1>17, <2>1
  <2>2. CASE i \in 1..n /\ first # Nowhere /\ i = l
    <3>1. records'[i].next = n + 1 /\ records'[i].period = q /\ n + 1 \in (i + 1)..(n + 1)
      BY <1>4, <1>13, <1>17, <2>2 DEF Next
    <3>2. \A j \in 1..(n + 1) : records'[j].period = q => j <= i \/ j >= n + 1
      <4> TAKE j \in 1..(n + 1)
      <4>1. j = n + 1 => j >= n + 1
        BY <1>4
      <4>2. j \in 1..n /\ records'[j].period = q => j <= l
        BY <1>13, <1>17, <2>2
      <4> QED BY <1>16, <2>2, <4>1, <4>2
    <3> QED BY <1>17, <3>1, <3>2
  <2>3. CASE i \in 1..n /\ ~(first # Nowhere /\ i = l)
    <3>1. records'[i].next = records[i].next /\ records'[i].period = records[i].period
      BY <1>17, <2>3 DEF Next
    <3>2. CASE records[i].next = Nowhere /\ \A j \in 1..n : SamePeriod(i, j) => j <= i
      <4>1. records[i].period # q
        <5> SUFFICES ASSUME records[i].period = q PROVE FALSE
          OBVIOUS
        <5>1. first # Nowhere
          BY <1>12, <2>3
        <5>2. i <= l /\ l <= i
          BY <1>13, <2>3, <3>2, <5>1 DEF SamePeriod
        <5> QED BY <1>4, <1>13, <2>3, <5>1, <5>2
      <4>2. \A j \in 1..(n + 1) : records'[i].period = records'[j].period => j <= i
        BY <1>16, <1>17, <3>1, <3>2, <4>1 DEF SamePeriod
      <4> QED BY <3>1, <3>2, <4>2
    <3>3. CASE /\ records[i].next \in (i + 1)..n /\ SamePeriod(i, records[i].next)
               /\ \A j \in 1..n : SamePeriod(i, j) => j <= i \/ j >= records[i].next
      <4> DEFINE k == records[i].next
      <4>1. k \in 1..n /\ k \in (i + 1)..(n + 1) /\ n + 1 >= k
        BY <1>4, <2>3, <3>3
      <4>2. records'[i].period = records'[k].period
        BY <1>17, <3>1, <3>3, <4>1 DEF SamePeriod
      <4>3. \A j \in 1..(n + 1) : records'[i].period = records'[j].period => j <= i \/ j >= k
        BY <1>16, <1>17, <3>1, <3>3, <4>1 DEF SamePeriod
      <4> HIDE DEF k
      <4> QED BY <3>1, <4>1, <4>2, <4>3 DEF k
    <3> QED BY <1>5, <2>3, <3>2, <3>3 DEF Linked
  <2> QED BY <1>16, <2>1, <2>2, <2>3
<1>19. /\ index' \in Seq(Nat) /\ Len(index') = Len(index)
       /\ index'[Offset(q)] = IF first = Nowhere THEN n + 1 ELSE first
       /\ \A i \in 1..Len(index) : i # Offset(q) => index'[i] = index[i]
  <2>1. n + 1 \in Nat /\ index[Offset(q)] = first
    BY <1>4 DEF first
  <2> QED BY <1>1, <1>4, <1>9, <2>1, ExceptSeq
<1>20. Indexed'
  <2>1. \A p \in Nat : Offset(p)' = Offset(p)
    BY <1>1 DEF Offset
  <2> SUFFICES ASSUME NEW p \in Quarters, Offset(p) \in 1..Len(index)
               PROVE  \/ index'[Offset(p)] = Nowhere /\ \A i \in 1..(n + 1) : records'[i].period # p
                      \/ /\ index'[Offset(p)] \in 1..(n + 1) /\ records'[index'[Offset(p)]].period = p
                         /\ \A i \in 1..(n + 1) : records'[i].period = p => i >= index'[Offset(p)]
    BY <1>15, <1>19, <2>1, QuarterIs DEF Indexed, FirstOf
  <2>2. CASE p = q /\ first = Nowhere
    <3>1. \A i \in 1..(n + 1) : records'[i].period = q => i >= n + 1
      BY <1>4, <1>12, <1>16, <1>17, <2>2 DEF Nowhere
    <3> QED BY <1>4, <1>17, <1>19, <2>2, <3>1
  <2>3. CASE p = q /\ first # Nowhere
    <3>1. first \in 1..n /\ first \in 1..(n + 1) /\ records'[first].period = q
      BY <1>4, <1>12, <1>17, <2>3
    <3>2. \A i \in 1..(n + 1) : records'[i].period = q => i >= first
      <4> TAKE i \in 1..(n + 1)
      <4>1. i = n + 1 => i >= first
        BY <1>4, <3>1
      <4>2. i \in 1..n /\ records'[i].period = q => i >= first
        BY <1>12, <1>17, <2>3
      <4> QED BY <1>16, <4>1, <4>2
    <3> QED BY <1>19, <2>3, <3>1, <3>2
  <2>4. CASE p # q
    <3>1. Offset(p) # Offset(q)
      <4> DEFINE c == firstYear * QuartersPerYear
      <4>1. p \in Nat /\ c \in Nat /\ Offset(p) = p - c + 1 /\ Offset(q) = q - c + 1
        BY <1>8, <1>9, QuarterIs, OffsetIs
      <4> HIDE DEF c
      <4> QED BY <1>8, <2>4, <4>1
    <3>2. index'[Offset(p)] = FirstOf(p)
      BY <1>19, <3>1 DEF FirstOf
    <3>3. CASE FirstOf(p) = Nowhere /\ \A i \in 1..n : records[i].period # p
      BY <1>16, <1>17, <2>4, <3>2, <3>3
    <3>4. CASE /\ FirstOf(p) \in 1..n /\ records[FirstOf(p)].period = p
               /\ \A i \in 1..n : records[i].period = p => i >= FirstOf(p)
      <4>1. FirstOf(p) \in 1..(n + 1) /\ records'[FirstOf(p)].period = p
        BY <1>4, <1>17, <3>4
      <4>2. \A i \in 1..(n + 1) : records'[i].period = p => i >= FirstOf(p)
        BY <1>16, <1>17, <2>4, <3>4
      <4> QED BY <3>2, <4>1, <4>2
    <3> QED BY <1>5, <3>3, <3>4 DEF Indexed
  <2> QED BY <2>2, <2>3, <2>4
<1>21. ByDate(records')
  <2> SUFFICES ASSUME NEW i \in 1..(n + 1), NEW j \in 1..(n + 1), i < j
               PROVE  records'[i].date <= records'[j].date
    BY <1>15 DEF ByDate
  <2>1. i \in 1..n
    BY <1>4
  <2>2. CASE j = n + 1
    <3>1. 1 \in 1..Len(rowsLeft)
      BY <1>4, <1>6
    <3>2. records[i].date <= rowsLeft[1].date
      BY <1>5, <2>1, <3>1 DEF NotAfter
    <3> QED BY <1>6, <1>17, <2>1, <2>2, <3>2
  <2>3. CASE j \in 1..n
    BY <1>5, <1>17, <2>1, <2>3 DEF ByDate
  <2> QED BY <1>16, <2>2, <2>3
<1>22. ByDate(rowsLeft') /\ NotAfter(records', rowsLeft')
  <2>1. ByDate(rowsLeft')
    <3> SUFFICES ASSUME NEW i \in 1..(Len(rowsLeft) - 1), NEW j \in 1..(Len(rowsLeft) - 1), i < j
                 PROVE  rowsLeft'[i].date <= rowsLeft'[j].date
      BY <1>10 DEF ByDate
    <3>1. i + 1 \in 1..Len(rowsLeft) /\ j + 1 \in 1..Len(rowsLeft) /\ i + 1 < j + 1
      BY <1>4
    <3> QED BY <1>5, <1>10, <3>1 DEF ByDate
  <2>2. NotAfter(records', rowsLeft')
    <3> SUFFICES ASSUME NEW i \in 1..(n + 1), NEW k \in 1..(Len(rowsLeft) - 1)
                 PROVE  records'[i].date <= rowsLeft[k + 1].date
      BY <1>10, <1>15 DEF NotAfter
    <3>1. k + 1 \in 1..Len(rowsLeft) /\ 1 \in 1..Len(rowsLeft) /\ 1 < k + 1
      BY <1>4
    <3>2. CASE i \in 1..n
      BY <1>5, <1>17, <3>1, <3>2 DEF NotAfter
    <3>3. CASE i = n + 1
      BY <1>5, <1>6, <1>17, <3>1, <3>3 DEF ByDate
    <3> QED BY <1>16, <3>2, <3>3
  <2> QED BY <2>1, <2>2
<1>23. loaded' = Stored' \union ToStore'
  <2>1. RowOf(records'[n + 1]) = row /\ \A i \in 1..n : RowOf(records'[i]) = RowOf(records[i])
    BY <1>8, <1>17 DEF RowOf
  <2>2. Stored' = {RowOf(records'[i]) : i \in 1..(n + 1)}
    BY <1>15 DEF Stored, RowOf
  <2>3. Stored' = Stored \union {row}
    <3>1. n + 1 \in 1..(n + 1) /\ \A i \in 1..n : i \in 1..(n + 1)
      BY <1>4
    <3>2. \A x : x \in Stored' <=> x \in Stored \/ x = row
      <4> SUFFICES \A x : (\E i \in 1..(n + 1) : x = RowOf(records'[i])) <=>
                          (\E i \in 1..n : x = RowOf(records[i])) \/ x = row
        BY <2>2 DEF Stored
      <4> QED BY <1>16, <2>1, <3>1
    <3> QED BY <3>2
  <2>4. ToStore = {row} \union ToStore'
    <3>1. \A k \in 1..Len(rowsLeft) : k = 1 \/ (k - 1 \in 1..(Len(rowsLeft) - 1) /\ rowsLeft[k] = rowsLeft'[k - 1])
      BY <1>4, <1>10
    <3>2. \A k \in 1..(Len(rowsLeft) - 1) : k + 1 \in 1..Len(rowsLeft)
      BY <1>4
    <3>3. ToStore' = {rowsLeft'[k] : k \in 1..(Len(rowsLeft) - 1)}
      BY <1>10 DEF ToStore
    <3>4. ASSUME NEW x \in ToStore PROVE x = row \/ x \in ToStore'
      BY <1>6, <3>1, <3>3 DEF ToStore
    <3>5. ASSUME NEW x \in ToStore' PROVE x \in ToStore
      BY <1>10, <3>2, <3>3 DEF ToStore
    <3> QED BY <1>7, <3>4, <3>5
  <2> QED BY <1>1, <1>5, <2>3, <2>4
<1>24. \A r \in loaded' : firstYear' \in Nat /\ Offset(r.period)' \in 1..Len(index')
  <2>1. \A r \in loaded : Offset(r.period)' = Offset(r.period)
    BY <1>1 DEF Offset
  <2> QED BY <1>1, <1>5, <1>19, <2>1
<1>25. writing' /\ fdAt' = Len(records') + 1 /\ firstYear' \in Nat \union {NoYear}
  BY <1>1, <1>3, <1>4, <1>9, <1>15
<1> QED BY <1>10, <1>15, <1>18, <1>19, <1>20, <1>21, <1>22, <1>23, <1>24, <1>25 DEF Sound

LEMMA PitIsInductive == PitInv /\ [PitNext]_pitVars => PitInv'
<1> SUFFICES ASSUME PitInv, [PitNext]_pitVars PROVE PitInv'
  OBVIOUS
<1>1. PitShape
  BY DEF PitInv
\* What most steps leave alone is what Sound is about.
<1>2. ASSUME UNCHANGED <<firstYear, index, records, rowsLeft, loaded, damage>>, PitShape',
             \/ UNCHANGED <<fdAt, writing>>
             \/ writing' = FALSE /\ rowsLeft = <<>>
      PROVE  PitInv'
  <2> SUFFICES ASSUME damage = "no" PROVE Sound'
    BY <1>2 DEF PitInv
  <2>1. Sound
    BY DEF PitInv
  <2>2. Linked' /\ Indexed' /\ Stored' = Stored /\ ToStore' = ToStore
    <3>1. Linked /\ Indexed
      BY <2>1 DEF Sound
    <3>2. records' = records /\ index' = index /\ rowsLeft' = rowsLeft /\ firstYear' = firstYear
      BY <1>2
    <3>3. Linked'
      BY <3>1, <3>2 DEF Linked, SamePeriod
    <3>4. Indexed'
      BY <3>1, <3>2 DEF Indexed, FirstOf, Offset
    <3>5. Stored' = Stored /\ ToStore' = ToStore
      BY <3>2 DEF Stored, ToStore
    <3> QED BY <3>3, <3>4, <3>5
  <2>3. \A r \in loaded : Offset(r.period)' = Offset(r.period)
    BY <1>2 DEF Offset
  <2>4. IF writing' THEN rowsLeft' = <<>> \/ fdAt' = Len(records') + 1 ELSE rowsLeft' = <<>>
    BY <1>2, <2>1 DEF Sound
  <2>5. \A r \in loaded' : firstYear' \in Nat /\ Offset(r.period)' \in 1..Len(index')
    BY <1>2, <2>1, <2>3 DEF Sound
  <2>6. ByDate(records)' /\ ByDate(rowsLeft)' /\ NotAfter(records, rowsLeft)'
    BY <1>2, <2>1 DEF Sound, ByDate, NotAfter
  <2> QED BY <1>2, <2>1, <2>2, <2>4, <2>5, <2>6 DEF Sound
<1>3. CASE Publish
  <2>1. PICK q \in Quarters : published' = published \union {[date |-> ptoday, period |-> q]}
    BY <1>3 DEF Publish
  <2>2. [date |-> ptoday, period |-> q] \in PitRows
    BY <1>1 DEF PitShape, PitRows
  <2>3. PitShape'
    BY <1>1, <1>3, <2>1, <2>2 DEF PitShape, Publish
  <2> QED BY <1>2, <1>3, <2>3 DEF Publish
<1>4. CASE NextDate
  <2>1. PitShape'
    BY <1>1, <1>4, PitAssumption DEF PitShape, NextDate
  <2> QED BY <1>2, <1>4, <2>1 DEF NextDate
<1>5. CASE StartDump(TRUE)
  BY <1>5, DumpStarts
<1>6. CASE damage # "killed" /\ StartDump(FALSE)
  BY <1>6, DumpStarts
<1>7. CASE DumpRow
  BY <1>7, RowStep
<1>8. CASE DumpEnds
  <2>1. PitShape'
    BY <1>1, <1>8 DEF PitShape, DumpEnds
  <2> QED BY <1>2, <1>8, <2>1 DEF DumpEnds
<1>9. CASE DumpDies
  BY <1>1, <1>9 DEF PitInv, PitShape, DumpDies
<1>10. CASE UNCHANGED pitVars
  <2>1. PitShape'
    BY <1>1, <1>10 DEF PitShape, pitVars
  <2> QED BY <1>2, <1>10, <2>1 DEF pitVars
<1> QED BY <1>3, <1>4, <1>5, <1>6, <1>7, <1>8, <1>9, <1>10 DEF PitNext

\* For any quarters, days, revisions and dumps: a feature over the last quarters shows on each
\* day what had been published by then, each quarter with its newest revision of that day, as
\* long as the files were written in one go and no update wrote over them.
THEOREM KnownThen == PitSpec => []KnownByThen
<1>1. PitInv => KnownByThen
  <2> SUFFICES ASSUME PitInv, ~writing, damage = "no", NEW cur \in 1..LastDate, NEW back \in Quarters
               PROVE  PeriodFeature(cur, back) =
                         LET seen == {r \in loaded : r.date <= cur}
                         IN  IF seen = {} THEN <<>>
                             ELSE [q \in Window(PeriodList(seen), back) |-> Newest(q, cur)]
    BY DEF KnownByThen
  <2>1. Sound /\ rowsLeft = <<>>
    BY DEF PitInv, Sound
  <2> QED BY <2>1, FeatureIs
<1> QED BY <1>1, PitInits, PitIsInductive, PTL DEF PitSpec

-----------------------------------------------------------------------------
(* The type invariant of DumpBin.                                          *)

Values == AllDays \union {NaN}

\* The files stay typed in a run that has failed too: a symbol that is still to be written
\* has bars, and its csv file only days of the calendar.
DumpTypeInv ==
    /\ dumps \in 0..MaxDumps
    /\ calendarTxt \in Seq(AllDays)
    /\ ends \in [Code -> 0..DumpDays] /\ newEnds \in [Code -> 0..DumpDays]
    /\ features \in [Code -> Seq(Values)] /\ starts \in [Code -> 0..DumpDays]
    /\ \A s \in todo : dumping # "no" /\ Bars(s) # {} /\ csv[s] \subseteq 1..Length

LEMMA SortedTyped ==
    ASSUME NEW D, D \subseteq AllDays
    PROVE  /\ IsFiniteSet(D) /\ Cardinality(D) \in 0..DumpDays
           /\ Sorted(D) \in [1..Cardinality(D) -> D]
           /\ Sorted(D) \in Seq(AllDays) /\ Len(Sorted(D)) = Cardinality(D)
           /\ Range(Sorted(D)) = D
<1>1. IsFiniteSet(AllDays) /\ Cardinality(AllDays) = DumpDays /\ DumpDays \in Nat
  BY DumpAssumption, FS_Interval DEF AllDays
<1>2. IsFiniteSet(D) /\ Cardinality(D) <= DumpDays /\ Cardinality(D) \in Nat
  BY <1>1, FS_Subset, FS_CardinalityType
<1>3. D \in SUBSET Int
  BY DEF AllDays
<1> DEFINE n == Cardinality(D)
           q == Sorted(D)
<1>4. q \in [1..n -> D] /\ \A d \in D : \E i \in 1..n : q[i] = d
  BY <1>2, <1>3, SortedIs
<1> HIDE DEF q, n
<1>5. n \in Nat /\ q \in [1..n -> AllDays]
  BY <1>2, <1>4 DEF n
<1>6. q \in Seq(AllDays)
  BY <1>5
<1>7. Len(q) = n
  BY <1>5, <1>6, LenProperties
<1>8. Range(q) = D
  BY <1>4 DEF Range
<1> QED BY <1>1, <1>2, <1>4, <1>6, <1>7, <1>8 DEF q, n

LEMMA MergeTyped ==
    ASSUME NEW D, D \subseteq AllDays, NEW cal \in Seq(AllDays)
    PROVE  Merge(D, cal) \in Seq(Values)
<1> DEFINE n == Len(cal)
           m == [i \in 1..n |-> IF cal[i] \in D THEN cal[i] ELSE NaN]
<1>1. n \in Nat /\ DOMAIN cal = 1..n
  BY LenProperties
<1>2. Merge(D, cal) = m
  BY <1>1 DEF Merge
<1>3. m \in [1..n -> Values]
  BY DEF Values
<1> HIDE DEF m, n
<1>4. m \in Seq(Values)
  BY <1>1, <1>3
<1> QED BY <1>2, <1>4

\* The days a symbol is merged with are days there can be, whatever rows are there twice.
LEMMA CoveredTyped ==
    ASSUME NEW D, D \subseteq AllDays, NEW cal, Range(cal) \subseteq AllDays
    PROVE  CoveredDays(D, cal) \in Seq(AllDays)
<1> DEFINE C == {d \in Range(cal) : Min(D) <= d /\ d <= Max(D)}
<1>1. C \subseteq AllDays
  OBVIOUS
<1> HIDE DEF C
<1>2. Sorted(C) \in Seq(AllDays)
  BY <1>1, SortedTyped
<1> QED BY <1>2 DEF CoveredDays, C

LEMMA OwnTyped ==
    ASSUME NEW s \in Code, Bars(s) \subseteq AllDays, Bars(s) # {}, twice[s] \subseteq AllDays
    PROVE  UpdateCalendar(s) \in Seq(AllDays)
<1> DEFINE m == RowCount(s, Max(Bars(s)))
           f == UpdateCalendar(s)
<1>1. m \in Nat
  <2> DEFINE A == UpTo(Bars(s), Max(Bars(s)))
             B == UpTo(twice[s], Max(Bars(s)))
  <2>1. A \subseteq AllDays /\ B \subseteq AllDays
    BY DEF UpTo
  <2> HIDE DEF A, B
  <2>2. Cardinality(A) \in Nat /\ Cardinality(B) \in Nat
    BY <2>1, SortedTyped, DumpAssumption
  <2>3. m = Cardinality(A) + Cardinality(B)
    BY DEF RowCount, A, B
  <2> HIDE DEF m
  <2> QED BY <2>2, <2>3
<1>2. Max(Bars(s)) \in Bars(s)
  BY DumpAssumption, Extremes DEF AllDays
<1>3. ASSUME NEW i \in 1..m PROVE Min({d \in Bars(s) : RowCount(s, d) >= i}) \in AllDays
  <2> DEFINE C == {d \in Bars(s) : RowCount(s, d) >= i}
  <2>1. m >= i
    BY <1>1
  <2>2. Max(Bars(s)) \in C
    BY <1>2, <2>1
  <2>3. C \subseteq AllDays /\ C # {}
    BY <2>2
  <2> HIDE DEF C
  <2>4. C \in SUBSET Nat
    BY <2>3 DEF AllDays
  <2>5. Min(C) \in C
    BY <2>3, <2>4, MinIsLeast
  <2>6. Min(C) \in AllDays
    BY <2>3, <2>5
  <2> QED BY <2>6 DEF C
<1>4. f \in [1..m -> AllDays]
  BY <1>3 DEF UpdateCalendar
<1> HIDE DEF m, f
<1>5. f \in Seq(AllDays)
  BY <1>1, <1>4
<1> QED BY <1>5 DEF f

LEMMA LastTyped ==
    ASSUME NEW D, D \subseteq AllDays
    PROVE  LastOf(D) \in 0..DumpDays
<1>1. LastOf(D) \in Nat /\ (D = {} => LastOf(D) = 0) /\ (D # {} => LastOf(D) \in D)
  BY LastOfIs
<1> QED BY <1>1, DumpAssumption DEF AllDays

\* All days of the calendar are days there can be.
LEMMA LengthTyped ==
    ASSUME CalendarPlain, calendarTxt \in Seq(AllDays)
    PROVE  /\ Length \in Nat /\ Length \in 0..DumpDays /\ 1..Length \subseteq AllDays
           /\ Range(calendarTxt) = 1..Length
<1>1. Length \in Nat /\ Range(calendarTxt) = 1..Length /\ DumpDays \in Nat
  BY PlainRange, DumpAssumption
<1>2. Length <= DumpDays
  <2>1. CASE Length = 0
    BY <1>1, <2>1
  <2>2. CASE Length # 0
    <3>1. Length \in 1..Length /\ Length \in 1..Len(calendarTxt)
      BY <1>1, <2>2 DEF Length
    <3>2. calendarTxt[Length] \in AllDays
      BY <3>1, ElementOfSeq
    <3>3. calendarTxt[Length] = Length
      BY <3>1 DEF CalendarPlain
    <3> QED BY <3>2, <3>3 DEF AllDays
  <2> QED BY <2>1, <2>2
<1> QED BY <1>1, <1>2 DEF AllDays

LEMMA DumpTypeInit == DumpInit => DumpTypeInv
<1> SUFFICES ASSUME DumpInit PROVE DumpTypeInv
  OBVIOUS
<1>1. <<>> \in Seq(AllDays) /\ <<>> \in Seq(Values)
  BY EmptySeq
<1>2. DumpDays \in Nat /\ MaxDumps \in Nat
  BY DumpAssumption
<1> QED BY <1>1, <1>2 DEF DumpInit, DumpTypeInv

\* The calendars of runs, whole or cut.
LEMMA PlainTyped ==
    ASSUME NEW q, NEW n \in Nat, UpToDay(q, n), n <= DumpDays
    PROVE  q \in Seq(AllDays)
<1>1. q \in Seq(Nat) /\ Len(q) = n /\ \A i \in 1..n : q[i] = i
  BY DEF UpToDay
<1>2. DOMAIN q = 1..n /\ q = [i \in 1..n |-> q[i]]
  BY <1>1, LenProperties
<1>3. \A i \in 1..n : q[i] \in AllDays
  BY <1>1, DumpAssumption DEF AllDays
<1>4. q \in [1..n -> AllDays]
  BY <1>2, <1>3
<1> QED BY <1>4

LEMMA CutTypes ==
    ASSUME DumpInv, DumpTypeInv, NEW files \in [Code -> SUBSET AllDays], CalendarCut(files)
    PROVE  DumpTypeInv'
<1>1. /\ MayRun(files) /\ dumps < MaxDumps /\ dumps' = dumps + 1 /\ dumping = "no"
      /\ UNCHANGED <<dumping, todo, ends, newEnds, features, starts>>
  BY DEF CalendarCut, MayRun
<1>2. Length \in Nat /\ Length <= DumpDays
  BY LengthTyped, DumpAssumption DEF DumpInv, DumpTypeInv
<1>3. PICK n \in Nat : UpToDay(NewCalendar(files), n) /\ n <= DumpDays
  BY <1>1, <1>2, NewCalendarIs DEF DumpInv
<1>4. PICK k \in 0..n : calendarTxt' = SubSeq(NewCalendar(files), 1, k)
  BY <1>3 DEF CalendarCut, UpToDay
<1>5. UpToDay(calendarTxt', k) /\ k \in Nat /\ k <= DumpDays
  BY <1>3, <1>4, CutIs, DumpAssumption
<1>6. calendarTxt' \in Seq(AllDays)
  BY <1>5, PlainTyped
<1>7. todo = {}
  BY <1>1 DEF DumpTypeInv
<1>8. dumps' \in 0..MaxDumps
  BY <1>1, DumpAssumption DEF DumpTypeInv
<1> QED BY <1>1, <1>6, <1>7, <1>8 DEF DumpTypeInv

LEMMA AllTypes ==
    ASSUME DumpInv, DumpTypeInv, DumpInv', NEW files \in [Code -> SUBSET AllDays], DumpAll(files)
    PROVE  DumpTypeInv'
<1>1. /\ MayRun(files) /\ dumps < MaxDumps /\ dumps' = dumps + 1 /\ dumping' = "all"
      /\ csv' = files /\ todo' = {s \in Code : files[s] # {}}
      /\ calendarTxt' = NewCalendar(files)
      /\ ends' = [s \in Code |-> LastOf(files[s])] /\ newEnds' = ends'
      /\ features' = features /\ starts' = starts
  BY DEF DumpAll, MayRun
<1>2. Length \in Nat /\ Length <= DumpDays
  BY LengthTyped, DumpAssumption DEF DumpInv, DumpTypeInv
<1>3. PICK n \in Nat : /\ UpToDay(calendarTxt', n) /\ n <= DumpDays
                       /\ Downloaded(files) \subseteq 1..n
  BY <1>1, <1>2, NewCalendarIs DEF DumpInv
<1>4. calendarTxt' \in Seq(AllDays) /\ Length' = n
  BY <1>3, PlainTyped, PlainThen
<1>5. \A s \in Code : files[s] \subseteq AllDays /\ files[s] \subseteq 1..n
  BY <1>3, DownloadedDays
<1>6. ends' \in [Code -> 0..DumpDays]
  BY <1>1, <1>5, LastTyped
<1>7. \A s \in todo' : dumping' # "no" /\ Bars(s)' # {} /\ csv'[s] \subseteq 1..Length'
  BY <1>1, <1>4, <1>5 DEF Bars
<1>8. dumps' \in 0..MaxDumps
  BY <1>1, DumpAssumption DEF DumpTypeInv
<1> QED BY <1>1, <1>4, <1>6, <1>7, <1>8 DEF DumpTypeInv

LEMMA UpdateTypes ==
    ASSUME DumpInv, DumpTypeInv, DumpInv', NEW files \in [Code -> SUBSET AllDays],
           NEW rows \in [Code -> SUBSET AllDays], DumpUpdate(files, rows)
    PROVE  DumpTypeInv'
<1>1. /\ MayRun(files) /\ dumps < MaxDumps /\ dumps' = dumps + 1 /\ dumping' = "update"
      /\ csv' = files /\ todo' = {s \in Code : NewBars(files, s) # {}}
      /\ calendarTxt' = NewCalendar(files)
      /\ newEnds' = [s \in Code |-> IF s \in todo' THEN LastOf(files[s]) ELSE ends[s]]
      /\ ends' = ends /\ features' = features /\ starts' = starts
  BY DEF DumpUpdate, MayRun
<1>2. Length \in Nat /\ Length <= DumpDays
  BY LengthTyped, DumpAssumption DEF DumpInv, DumpTypeInv
<1>3. PICK n \in Nat : /\ UpToDay(calendarTxt', n) /\ n <= DumpDays
                       /\ Downloaded(files) \subseteq 1..n
  BY <1>1, <1>2, NewCalendarIs DEF DumpInv
<1>4. calendarTxt' \in Seq(AllDays) /\ Length' = n
  BY <1>3, PlainTyped, PlainThen
<1>5. \A s \in Code : files[s] \subseteq AllDays /\ files[s] \subseteq 1..n
  BY <1>3, DownloadedDays
<1>8. \A s \in todo' : dumping' # "no" /\ Bars(s)' # {} /\ csv'[s] \subseteq 1..Length'
  <2> TAKE s \in todo'
  <2>1. s \in Code /\ NewBars(files, s) # {}
    BY <1>1
  <2>2. Bars(s)' = NewBars(files, s)
    BY <1>1 DEF Bars, NewBars
  <2>3. csv'[s] \subseteq 1..Length'
    BY <1>1, <1>4, <1>5, <2>1
  <2> QED BY <1>1, <2>1, <2>2, <2>3
<1>9. newEnds' \in [Code -> 0..DumpDays]
  <2>1. \A s \in Code : LastOf(files[s]) \in 0..DumpDays /\ ends[s] \in 0..DumpDays
    BY <1>5, LastTyped DEF DumpTypeInv
  <2> QED BY <1>1, <2>1
<1>10. dumps' \in 0..MaxDumps
  BY <1>1, DumpAssumption DEF DumpTypeInv
<1> QED BY <1>1, <1>4, <1>8, <1>9, <1>10 DEF DumpTypeInv

LEMMA SymbolTypes ==
    ASSUME DumpInv, DumpTypeInv, NEW s \in Code, DumpSymbol(s)
    PROVE  DumpTypeInv'
<1> DEFINE D == Bars(s)
           own == Merge(D, UpdateCalendar(s))
           other == Merge(D, CoveredDays(D, calendarTxt))
           place == IndexIn(calendarTxt, Min(D))
<1>1. /\ s \in todo /\ todo' = todo \ {s}
      /\ WriteBin(s, own, 0) \/ WriteBin(s, other, place)
      /\ UNCHANGED <<dumps, dumping, csv, calendarTxt, ends, newEnds>>
  BY DEF DumpSymbol
<1>2. /\ Length \in Nat /\ Length \in 0..DumpDays /\ 1..Length \subseteq AllDays /\ Range(calendarTxt) = 1..Length
      /\ calendarTxt \in Seq(AllDays)
  BY LengthTyped DEF DumpInv, DumpTypeInv
<1>3. D # {} /\ D \subseteq 1..Length /\ D \subseteq AllDays
  <2>1. csv[s] \subseteq 1..Length /\ D # {} /\ D \subseteq csv[s]
    BY <1>1 DEF DumpTypeInv, Bars, NewBars
  <2> QED BY <1>2, <2>1
<1>4. Min(D) \in D
  BY <1>2, <1>3, Extremes
<1>5. own \in Seq(Values)
  <2>1. twice[s] \subseteq AllDays /\ s \in Code
    BY <1>1 DEF DumpInv, DumpShape
  <2>2. UpdateCalendar(s) \in Seq(AllDays)
    BY <1>3, <2>1, OwnTyped
  <2> HIDE DEF D
  <2> QED BY <1>3, <2>2, MergeTyped
<1>6. other \in Seq(Values)
  <2> HIDE DEF D
  <2>1. CoveredDays(D, calendarTxt) \in Seq(AllDays)
    BY <1>2, <1>3, CoveredTyped
  <2> QED BY <1>3, <2>1, MergeTyped
<1> HIDE DEF D
<1>7. place \in 0..DumpDays /\ 0 \in 0..DumpDays
  <2>1. DOMAIN calendarTxt = 1..Length /\ DumpDays \in Nat
    BY <1>2, LenProperties, DumpAssumption DEF Length
  <2>2. \E i \in DOMAIN calendarTxt : calendarTxt[i] = Min(D)
    BY <1>2, <1>3, <1>4 DEF Range
  <2> DEFINE i == CHOOSE i \in DOMAIN calendarTxt : calendarTxt[i] = Min(D)
  <2>3. i \in DOMAIN calendarTxt
    BY <2>2
  <2>4. place = i - 1
    BY DEF IndexIn
  <2> HIDE DEF i, place
  <2> QED BY <1>2, <2>1, <2>3, <2>4
<1>8. features \in [Code -> Seq(Values)] /\ starts \in [Code -> 0..DumpDays]
  BY DEF DumpTypeInv
<1> HIDE DEF own, other, place
<1>9. features' \in [Code -> Seq(Values)] /\ starts' \in [Code -> 0..DumpDays]
  <2>1. PICK values \in Seq(Values), first \in 0..DumpDays : WriteBin(s, values, first)
    BY <1>1, <1>5, <1>6, <1>7
  <2>2. CASE dumping = "update" /\ features[s] # <<>>
    <3>1. features' = [features EXCEPT ![s] = features[s] \o values] /\ starts' = starts
      BY <2>1, <2>2 DEF WriteBin
    <3>2. features[s] \o values \in Seq(Values)
      BY <1>8, <2>1, ConcatProperties
    <3> QED BY <1>8, <3>1, <3>2
  <2>3. CASE ~(dumping = "update" /\ features[s] # <<>>)
    <3>1. features' = [features EXCEPT ![s] = values] /\ starts' = [starts EXCEPT ![s] = first]
      BY <2>1, <2>3 DEF WriteBin
    <3> QED BY <1>8, <2>1, <3>1
  <2> QED BY <2>2, <2>3
<1>10. \A t \in todo' : dumping' # "no" /\ Bars(t)' # {} /\ csv'[t] \subseteq 1..Length'
  BY <1>1 DEF DumpTypeInv, Bars, NewBars, Length
<1> QED BY <1>1, <1>9, <1>10 DEF DumpTypeInv

LEMMA EndTypes ==
    ASSUME DumpTypeInv, DumpDone \/ DumpKilled
    PROVE  DumpTypeInv'
<1>1. /\ todo' = {} /\ newEnds' = [s \in Code |-> 0] /\ UNCHANGED <<dumps, calendarTxt>>
  BY DEF DumpDone, DumpKilled, diskFilesVars
<1>2. DumpDays \in Nat /\ <<>> \in Seq(Values)
  BY DumpAssumption, EmptySeq
<1>3. CASE UNCHANGED <<ends, features, starts>>
  BY <1>1, <1>2, <1>3 DEF DumpTypeInv
<1>4. CASE /\ ends' = [s \in Code |-> IF Stale(s) THEN 0 ELSE newEnds[s]]
           /\ features' = [s \in Code |-> IF Stale(s) THEN <<>> ELSE features[s]]
           /\ starts' = [s \in Code |-> IF Stale(s) THEN 0 ELSE starts[s]]
  <2>1. \A s \in Code : /\ newEnds[s] \in 0..DumpDays /\ features[s] \in Seq(Values)
                        /\ starts[s] \in 0..DumpDays /\ 0 \in 0..DumpDays
    BY <1>2 DEF DumpTypeInv
  <2>2. ends' \in [Code -> 0..DumpDays] /\ starts' \in [Code -> 0..DumpDays]
    BY <1>4, <2>1
  <2>3. features' \in [Code -> Seq(Values)]
    BY <1>2, <1>4, <2>1
  <2>4. newEnds' \in [Code -> 0..DumpDays]
    BY <1>1, <1>2
  <2> QED BY <1>1, <2>2, <2>3, <2>4 DEF DumpTypeInv
<1> QED BY <1>3, <1>4 DEF DumpDone, DumpKilled, diskFilesVars

LEMMA DumpTypeNext ==
    ASSUME DumpInv, DumpTypeInv, DumpInv', [DumpNext]_dumpVars
    PROVE  DumpTypeInv'
<1>1. ASSUME NEW s \in Code, WorkerRaises(s) PROVE DumpTypeInv'
  <2>1. /\ UNCHANGED <<dumps, csv, calendarTxt, ends, features, starts, newEnds>>
        /\ todo' = {} \/ (todo' \subseteq todo /\ dumping' = dumping)
    BY <1>1 DEF WorkerRaises, diskFilesVars
  <2>2. \A t \in todo' : dumping' # "no" /\ Bars(t)' # {} /\ csv'[t] \subseteq 1..Length'
    BY <2>1 DEF DumpTypeInv, Bars, NewBars, Length
  <2> QED BY <2>1, <2>2 DEF DumpTypeInv
<1>2. CASE UNCHANGED dumpVars
  <2>1. UNCHANGED <<dumps, dumping, csv, todo, calendarTxt, ends, features, starts, newEnds>>
    BY <1>2 DEF dumpVars, diskFilesVars
  <2> QED BY <2>1 DEF DumpTypeInv, Bars, NewBars, Length
<1> QED BY <1>1, <1>2, CutTypes, AllTypes, UpdateTypes, SymbolTypes, EndTypes DEF DumpNext

\* The files of the dump scripts stay typed even in runs that fail half-way: all values,
\* end dates and places in headers are within the days there are.
THEOREM DumpTypeCorrect == DumpSpec => []DumpTypeOK
<1>1. DumpInit => DumpInv /\ DumpTypeInv
  BY DumpInits, DumpTypeInit
<1>2. DumpInv /\ DumpTypeInv /\ [DumpNext]_dumpVars => DumpInv' /\ DumpTypeInv'
  BY DumpKeeps, DumpTypeNext
<1>3. DumpInv /\ DumpTypeInv => DumpTypeOK
  BY DEF DumpInv, DumpShape, DumpTypeInv, DumpTypeOK, Values
<1> QED BY <1>1, <1>2, <1>3, PTL DEF DumpSpec

-----------------------------------------------------------------------------
(* The type invariant of YahooUpdate.                                      *)

YahooTypeInv ==
    /\ Len(market) <= LastTradeDay
    /\ latestMap.date <= Len(market)
    /\ updates \in 0..MaxUpdates

LEMMA YahooTypeNext ==
    ASSUME YahooInv, YahooTypeInv, [YahooNext]_yahooVars
    PROVE  YahooTypeInv'
<1>0. /\ Len(market) \in Nat /\ Len(kept) \in Nat /\ Len(kept) <= Len(market)
      /\ latestMap.date \in Nat /\ LastTradeDay \in Nat /\ MaxUpdates \in Nat
      /\ market \in Seq(Events)
  <2>1. market \in Seq(Events) /\ kept \in Seq(BarSet) /\ Len(kept) <= dayEnd /\ dayEnd \in 0..Len(market)
    BY DEF YahooInv, YahooShape
  <2>2. Len(market) \in Nat /\ Len(kept) \in Nat
    BY <2>1, LenProperties
  <2>3. latestMap.date \in Nat
    BY DEF YahooInv, YahooShape
  <2> QED BY <2>1, <2>2, <2>3, YahooAssumption
<1>1. CASE TradeDayEnds
  <2>1. PICK event \in Events : market' = Append(market, event)
    BY <1>1 DEF TradeDayEnds
  <2>2. Len(market') = Len(market) + 1
    BY <1>0, <2>1, AppendProperties
  <2>3. Len(market) < LastTradeDay /\ UNCHANGED <<latestMap, updates>>
    BY <1>1 DEF TradeDayEnds
  <2>4. Len(market') <= LastTradeDay /\ latestMap'.date <= Len(market')
    BY <1>0, <2>2, <2>3 DEF YahooTypeInv
  <2> QED BY <2>3, <2>4 DEF YahooTypeInv
<1>2. CASE FromScratch
  BY <1>0, <1>2 DEF FromScratch, YahooTypeInv
<1>3. ASSUME NEW to \in 1..LastTradeDay, NEW fails \in BOOLEAN, UpdateToBin(to, fails)
      PROVE  YahooTypeInv'
  <2>1. updates < MaxUpdates /\ updates' = updates + 1 /\ market' = market /\ latestMap' = Latest
    BY <1>3 DEF UpdateToBin
  <2>2. Latest.date <= Len(market)
    <3>1. CASE latestMap.calendar = dayEnd
      BY <3>1 DEF Latest, YahooTypeInv
    <3>2. CASE latestMap.calendar # dayEnd
      <4>1. Latest.date = Len(kept)
        BY <3>2 DEF Latest
      <4> QED BY <1>0, <4>1
    <3> QED BY <3>1, <3>2
  <2> QED BY <1>0, <2>1, <2>2 DEF YahooTypeInv
<1>4. CASE UNCHANGED yahooVars
  BY <1>4 DEF yahooVars, YahooTypeInv
<1> QED BY <1>1, <1>2, <1>3, <1>4 DEF YahooNext

\* What is stored of the symbol is never longer than the calendar, and the file of latest
\* bars never names a day or a calendar that has not been.
THEOREM YahooTypeCorrect == YahooSpec => []YahooTypeOK
<1>1. YahooInit => YahooInv /\ YahooTypeInv
  <2> SUFFICES ASSUME YahooInit PROVE YahooTypeInv
    BY YahooInits
  <2>1. market = <<"flat">> /\ latestMap.date = 0 /\ updates = 0
    BY DEF YahooInit
  <2>2. Len(market) = 1
    BY <2>1
  <2> QED BY <2>1, <2>2, YahooAssumption DEF YahooTypeInv
<1>2. YahooInv /\ YahooTypeInv /\ [YahooNext]_yahooVars => YahooInv' /\ YahooTypeInv'
  BY YahooKeeps, YahooTypeNext
<1>3. YahooInv /\ YahooTypeInv => YahooTypeOK
  <2> SUFFICES ASSUME YahooInv, YahooTypeInv PROVE YahooTypeOK
    OBVIOUS
  <2>1. YahooShape /\ MapTrue
    BY DEF YahooInv
  <2>2. Len(market) \in Nat /\ Len(market) \in 1..LastTradeDay
    BY LenProperties, <2>1, YahooAssumption DEF YahooShape, YahooTypeInv
  <2>3. latestMap.calendar \in 0..LastTradeDay /\ latestMap.date \in 0..LastTradeDay
    BY <2>1, <2>2, YahooAssumption DEF YahooShape, YahooTypeInv, MapTrue
  <2>4. latestMap \in [calendar : 0..LastTradeDay, date : 0..LastTradeDay, bar : BarSet]
    BY <2>1, <2>3 DEF YahooShape
  <2> QED BY <2>1, <2>2, <2>4 DEF YahooTypeOK, YahooShape, YahooTypeInv
<1> QED BY <1>1, <1>2, <1>3, PTL DEF YahooSpec

-----------------------------------------------------------------------------
\* The personal pool: the inductive invariant says all of the type but the count of updates.
PoolTypeInv == PoolInv /\ started \in 0..MaxPoolUpdates

LEMMA PoolTypeInit == PoolInit => PoolTypeInv
BY PoolInits, PoolAssumption DEF PoolTypeInv, PoolInit

LEMMA PoolTypeNext == PoolTypeInv /\ [PoolNext]_poolVars => PoolTypeInv'
<1> SUFFICES ASSUME PoolTypeInv, [PoolNext]_poolVars PROVE PoolTypeInv'
  OBVIOUS
<1>1. started' = started \/ (started < MaxPoolUpdates /\ started' = started + 1)
  BY DEF PoolNext, poolVars, DayPasses, StartUpdate, LoadDailyStates, ReadSpans, WriteOutput,
         WriteMetadata, UpdateDies
<1>2. started' \in 0..MaxPoolUpdates
  BY <1>1, PoolAssumption DEF PoolTypeInv
<1> QED BY <1>2, PoolIsInductive DEF PoolTypeInv

\* Whatever updates of the personal pool overlap and die, its files and what each update
\* knows stay what they are to be.
THEOREM PoolTypeCorrect == PoolSpec => []PoolTypeOK
<1>1. PoolTypeInv => PoolTypeOK
  BY DEF PoolTypeInv, PoolInv, PoolShape, PoolTypeOK
<1> QED BY <1>1, PoolTypeInit, PoolTypeNext, PTL DEF PoolSpec

-----------------------------------------------------------------------------
(* The point-in-time store, after a dump that was killed or an update too. *)

PitTypeInv ==
    /\ published \subseteq PitRows /\ loaded \subseteq PitRows
    /\ ptoday \in 1..LastDate
    /\ firstYear \in {NoYear} \union {Year(q) : q \in Quarters}
    /\ index \in Seq(Nat)
    /\ records \in Seq(RecordSet) /\ flushed \in Seq(RecordSet)
    /\ rowsLeft \in Seq(PitRows)
    /\ fdAt \in Nat \ {0} /\ writing \in BOOLEAN
    /\ damage \in {"no", "killed", "patched"}
    /\ pitDumps \in 0..MaxPitDumps

LEMMA PitTypeInit == PitInit => PitTypeInv
<1> SUFFICES ASSUME PitInit PROVE PitTypeInv
  OBVIOUS
<1>1. index \in Seq(Nat) /\ records \in Seq(RecordSet) /\ flushed \in Seq(RecordSet)
      /\ rowsLeft \in Seq(PitRows)
  BY DEF PitInit
<1>2. ptoday \in 1..LastDate /\ pitDumps \in 0..MaxPitDumps /\ fdAt \in Nat \ {0}
  BY PitAssumption DEF PitInit
<1>3. writing \in BOOLEAN
  BY DEF PitInit
<1> QED BY <1>1, <1>2, <1>3 DEF PitInit, PitTypeInv

\* The first quarter that was published, and the last one.
LEMMA PeriodsAre ==
    ASSUME NEW rows \in SUBSET PitRows, rows # {}
    PROVE  /\ Min(Periods(rows)) \in Quarters /\ Max(Periods(rows)) \in Quarters
<1>1. Periods(rows) \subseteq 0..MaxQuarter /\ Periods(rows) # {}
  BY DEF Periods, PitRows, Quarters
<1>2. MaxQuarter \in Nat
  BY PitAssumption
<1> HIDE DEF Periods
<1>3. Min(Periods(rows)) \in Periods(rows)
  BY <1>1, <1>2, MinIsLeast
<1>4. Max(Periods(rows)) \in Periods(rows)
  BY <1>1, <1>2, MaxIsGreatest
<1> QED BY <1>1, <1>3, <1>4 DEF Quarters

LEMMA FirstYearIs ==
    ASSUME NEW y \in {NoYear} \union {Year(q) : q \in Quarters}, y # NoYear
    PROVE  y \in Nat
BY YearOf, QuarterIs

\* The index is longer by the years that are missing.
LEMMA IndexGrows ==
    ASSUME NEW ix \in Seq(Nat), NEW start \in Nat, NEW end \in Nat, start <= end
    PROVE  ix \o [i \in 1..((end - start + 1) * QuartersPerYear) |-> Nowhere] \in Seq(Nat)
<1> DEFINE n == (end - start + 1) * QuartersPerYear
           empty == [i \in 1..n |-> Nowhere]
<1>1. n \in Nat
  <2>1. QuartersPerYear \in Nat /\ end - start + 1 \in Nat
    BY PitAssumption
  <2> QED BY <2>1
<1> HIDE DEF n
<1>2. empty \in [1..n -> Nat]
  BY DEF Nowhere
<1>3. empty \in Seq(Nat)
  <2> HIDE DEF empty
  <2> QED BY <1>1, <1>2
<1> HIDE DEF empty
<1>4. ix \o empty \in Seq(Nat)
  BY <1>3
<1> QED BY <1>4 DEF empty, n

LEMMA StartTypes == ASSUME PitTypeInv, NEW ow \in BOOLEAN, StartDump(ow) PROVE PitTypeInv'
<1> DEFINE fresh == ow \/ firstYear = NoYear
           start == IF fresh THEN Year(Min(Periods(published)))
                    ELSE firstYear + Len(index) \div QuartersPerYear
           end   == Year(Max(Periods(published)))
           new   == IF fresh THEN published
                    ELSE {r \in published : r.date > Last(records).date}
           base  == IF fresh THEN <<>> ELSE index
<1>1. /\ start <= end /\ firstYear' = (IF fresh THEN start ELSE firstYear)
      /\ index' = base \o [i \in 1..((end - start + 1) * QuartersPerYear) |-> Nowhere]
      /\ records' = (IF fresh THEN <<>> ELSE records)
      /\ flushed' = records'
      /\ rowsLeft' \in Sortings(new)
      /\ loaded' = (IF fresh THEN new ELSE loaded \union new)
      /\ damage' = (IF fresh THEN "no" ELSE IF new = {} THEN damage ELSE "patched")
      /\ fdAt' = 1 /\ writing' = TRUE /\ pitDumps' = pitDumps + 1
      /\ UNCHANGED <<published, ptoday>>
      /\ pitDumps < MaxPitDumps /\ published # {}
  BY DEF StartDump
<1>2. Min(Periods(published)) \in Quarters /\ Max(Periods(published)) \in Quarters
  BY <1>1, PeriodsAre DEF PitTypeInv
<1>3. end \in Nat /\ Year(Min(Periods(published))) \in Nat
  BY <1>2, YearOf, QuarterIs
<1>4. ~fresh => start \in Nat
  <2> SUFFICES ASSUME ~fresh PROVE start \in Nat
    OBVIOUS
  <2>1. firstYear \in Nat
    BY FirstYearIs DEF PitTypeInv
  <2>2. Len(index) \in Nat /\ QuartersPerYear \in Nat \ {0}
    BY PitAssumption DEF PitTypeInv
  <2>3. Len(index) \div QuartersPerYear \in Nat
    BY <2>2, DivisionIs
  <2>4. start = firstYear + Len(index) \div QuartersPerYear
    OBVIOUS
  <2> HIDE DEF start, fresh
  <2> QED BY <2>1, <2>3, <2>4
<1>5. start \in Nat
  BY <1>3, <1>4
<1>6. base \in Seq(Nat)
  BY DEF PitTypeInv
<1>7. new \subseteq PitRows
  BY DEF PitTypeInv
<1>8. fresh => start \in {Year(q) : q \in Quarters}
  BY <1>2
<1> HIDE DEF fresh, start, end, new, base
<1>9. index' \in Seq(Nat)
  BY <1>1, <1>3, <1>5, <1>6, IndexGrows
<1>10. rowsLeft' \in Seq(PitRows)
  BY <1>1, <1>7, SortingIs
<1>11. firstYear' \in {NoYear} \union {Year(q) : q \in Quarters}
  BY <1>1, <1>8 DEF PitTypeInv
<1>12. loaded' \subseteq PitRows
  BY <1>1, <1>7 DEF PitTypeInv
<1>13. records' \in Seq(RecordSet) /\ flushed' \in Seq(RecordSet)
  BY <1>1 DEF PitTypeInv
<1>14. pitDumps' \in 0..MaxPitDumps
  BY <1>1, PitAssumption DEF PitTypeInv
<1>15. damage' \in {"no", "killed", "patched"}
  BY <1>1 DEF PitTypeInv
<1> QED BY <1>1, <1>9, <1>10, <1>11, <1>12, <1>13, <1>14, <1>15 DEF PitTypeInv

\* A record is put at the end, or over one that is there.
LEMMA WrittenTyped ==
    ASSUME NEW file \in Seq(RecordSet), NEW place \in Nat \ {0}, NEW r \in RecordSet
    PROVE  Written(file, place, r) \in Seq(RecordSet)
<1>1. CASE place > Len(file)
  BY <1>1 DEF Written
<1>2. CASE ~(place > Len(file))
  BY <1>2 DEF Written
<1> QED BY <1>1, <1>2

LEMMA LinkTyped ==
    ASSUME NEW file \in Seq(RecordSet), NEW i, NEW place \in Nat
    PROVE  [file EXCEPT ![i].next = place] \in Seq(RecordSet)
<1> DEFINE new == [file EXCEPT ![i].next = place]
<1>1. Len(file) \in Nat /\ file \in [1..Len(file) -> RecordSet]
  OBVIOUS
<1>2. \A r \in RecordSet : [r EXCEPT !.next = place] \in RecordSet
  BY DEF RecordSet
<1>3. new \in [1..Len(file) -> RecordSet]
  BY <1>1, <1>2
<1> HIDE DEF new
<1>4. new \in Seq(RecordSet)
  BY <1>1, <1>3
<1> QED BY <1>4 DEF new

LEMMA EntryTyped ==
    ASSUME NEW ix \in Seq(Nat), NEW i, NEW place \in Nat
    PROVE  [ix EXCEPT ![i] = place] \in Seq(Nat)
<1> DEFINE new == [ix EXCEPT ![i] = place]
<1>1. Len(ix) \in Nat /\ ix \in [1..Len(ix) -> Nat]
  OBVIOUS
<1>2. new \in [1..Len(ix) -> Nat]
  BY <1>1
<1> HIDE DEF new
<1>3. new \in Seq(Nat)
  BY <1>1, <1>2
<1> QED BY <1>3 DEF new

LEMMA RowTypes == ASSUME PitTypeInv, DumpRow PROVE PitTypeInv'
<1> DEFINE row   == Head(rowsLeft)
           first == index[Offset(row.period)]
           linked == IF first = Nowhere THEN records
                     ELSE [records EXCEPT ![LastRevision(first)].next = fdAt]
           rec == [date |-> row.date, period |-> row.period, next |-> Nowhere]
<1>1. /\ rowsLeft # <<>>
      /\ index' = (IF first # Nowhere THEN index ELSE [index EXCEPT ![Offset(row.period)] = fdAt])
      /\ flushed' = (IF first = Nowhere THEN flushed ELSE linked)
      /\ records' = Written(linked, fdAt, rec)
      /\ fdAt' = fdAt + 1 /\ rowsLeft' = Tail(rowsLeft)
      /\ UNCHANGED <<published, ptoday, firstYear, writing, loaded, damage, pitDumps>>
  BY DEF DumpRow
<1>2. row \in PitRows /\ Tail(rowsLeft) \in Seq(PitRows)
  BY <1>1 DEF PitTypeInv
<1>3. rec \in RecordSet
  BY <1>2 DEF PitRows, RecordSet, Nowhere
<1>4. fdAt \in Nat \ {0}
  BY DEF PitTypeInv
<1>5. linked \in Seq(RecordSet)
  <2>1. [records EXCEPT ![LastRevision(first)].next = fdAt] \in Seq(RecordSet)
    BY <1>4, LinkTyped DEF PitTypeInv
  <2> QED BY <2>1 DEF PitTypeInv
<1>6. index' \in Seq(Nat)
  <2>1. index \in Seq(Nat)
    BY DEF PitTypeInv
  <2>2. [index EXCEPT ![Offset(row.period)] = fdAt] \in Seq(Nat)
    BY <1>4, <2>1, EntryTyped
  <2> QED BY <1>1, <2>1, <2>2
<1> HIDE DEF row, first, linked, rec
<1>7. records' \in Seq(RecordSet)
  BY <1>1, <1>3, <1>4, <1>5, WrittenTyped
<1>8. flushed' \in Seq(RecordSet)
  BY <1>1, <1>5 DEF PitTypeInv
<1>9. fdAt' \in Nat \ {0}
  BY <1>1, <1>4
<1> QED BY <1>1, <1>2, <1>6, <1>7, <1>8, <1>9 DEF PitTypeInv

LEMMA PitTypeNext == PitTypeInv /\ [PitNext]_pitVars => PitTypeInv'
<1> SUFFICES ASSUME PitTypeInv, [PitNext]_pitVars PROVE PitTypeInv'
  OBVIOUS
<1>1. CASE Publish
  <2>1. PICK q \in Quarters : published' = published \union {[date |-> ptoday, period |-> q]}
    BY <1>1 DEF Publish
  <2>2. [date |-> ptoday, period |-> q] \in PitRows
    BY DEF PitRows, PitTypeInv
  <2> QED BY <1>1, <2>1, <2>2 DEF Publish, PitTypeInv
<1>2. CASE NextDate
  <2>1. ptoday' \in 1..LastDate
    BY <1>2, PitAssumption DEF NextDate, PitTypeInv
  <2> QED BY <1>2, <2>1 DEF NextDate, PitTypeInv
<1>3. CASE StartDump(TRUE) \/ StartDump(FALSE)
  BY <1>3, StartTypes
<1>4. CASE DumpRow
  BY <1>4, RowTypes
<1>5. CASE DumpEnds
  BY <1>5 DEF DumpEnds, PitTypeInv
<1>6. CASE DumpDies
  <2>1. <<>> \in Seq(PitRows)
    OBVIOUS
  <2> QED BY <1>6, <2>1 DEF DumpDies, PitTypeInv
<1>7. CASE UNCHANGED pitVars
  BY <1>7 DEF pitVars, PitTypeInv
<1> QED BY <1>1, <1>2, <1>3, <1>4, <1>5, <1>6, <1>7 DEF PitNext

\* Whatever is published, dumped, killed and dumped again, the index stays a table of places,
\* the data file one of records, and the header the year of a quarter.
THEOREM PitTypeCorrect == PitSpec => []PitTypeOK
<1>1. PitTypeInv => PitTypeOK
  BY DEF PitTypeInv, PitTypeOK, RecordSet
<1> QED BY <1>1, PitTypeInit, PitTypeNext, PTL DEF PitSpec

-----------------------------------------------------------------------------
(* DatasetPreparation: one stage of the processing.                         *)

FrameEnds == 0..LastFrameDay
StatsSet == [Stages -> [1..MaxProcs -> FrameEnds]]

\* A list of frames in memory, one of which is being worked on.
WorkOK(w) ==
    /\ w = [heap |-> w.heap, at |-> w.at, stats |-> w.stats]
    /\ w.heap \in Seq(Frames) /\ w.stats \in StatsSet
    /\ w.at \in 1..Len(w.heap)

InWork(w) == w.heap[w.at]

\* No statistic in a frame, or of the processors of a stage, has seen a day behind B.
Bounded(f, B) == \A i \in DOMAIN f.steps : f.steps[i][3] <= B
StatsWithin(s, g, B) == \A i \in DOMAIN pipeline[g] : pipeline[g][i] = "norm" => s[g][i] <= B

\* Frame f is f0 after the first n processors of the stage.
StagePasses(f0, f, stage, n) ==
         /\ f.last = f0.last
         /\ Len(f.steps) = Len(f0.steps) + n
         /\ \A i \in 1..Len(f0.steps) : f.steps[i] = f0.steps[i]
         /\ \A i \in 1..n : f.steps[Len(f0.steps) + i][1] = stage /\ f.steps[Len(f0.steps) + i][2] = i

\* What was in memory before is as it was.
HeapKept(w0, w) ==
    /\ Len(w0.heap) <= Len(w.heap)
    /\ \A i \in 1..Len(w0.heap) : w.heap[i] = w0.heap[i]

\* What a stage works on is its own as soon as a processor writes.
OnCopy(w0, w, stage) == w.at > Len(w0.heap) \/ Readonly(stage)

\* Statistics for a fit up to B, or those there are, see nothing behind B.
Allowed(w0, stage, with_fit, end, B) ==
    /\ Bounded(InWork(w0), B)
    /\ IF with_fit THEN end = B /\ B # NoDay ELSE StatsWithin(w0.stats, stage, B)

\* What a stage has made of w0 after its first n processors.
StageOK(w0, w, stage, n, with_fit, end) ==
    /\ WorkOK(w) /\ HeapKept(w0, w) /\ OnCopy(w0, w, stage)
    /\ StagePasses(InWork(w0), InWork(w), stage, n)
    /\ \A g \in Stages \ {stage} : w.stats[g] = w0.stats[g]
    /\ ~with_fit => w.stats = w0.stats
    /\ \A B \in FrameEnds : Allowed(w0, stage, with_fit, end, B) =>
          /\ Bounded(InWork(w), B)
          /\ with_fit => \A i \in 1..n : pipeline[stage][i] = "norm" => w.stats[stage][i] <= B

LEMMA FrameParameters == LastFrameDay \in Nat \ {0} /\ MaxProcs \in Nat
BY FrameAssumption DEF FrameAssumption

PipelineOK == \A g \in Stages :
                 /\ Len(pipeline[g]) \in 0..MaxProcs
                 /\ pipeline[g] \in [1..Len(pipeline[g]) -> {"norm", "drop", "label"}]

LEMMA PipelineIs == pipeline \in Pipelines => PipelineOK /\ pipeline.append \in BOOLEAN
<1> SUFFICES ASSUME pipeline \in Pipelines PROVE PipelineOK /\ pipeline.append \in BOOLEAN
  OBVIOUS
<1> DEFINE K == {"norm", "drop", "label"}
<1>1. \A kinds \in SUBSET K : \A q \in Lists(kinds) :
         Len(q) \in 0..MaxProcs /\ q \in [1..Len(q) -> K]
  <2> TAKE kinds \in SUBSET K
  <2> TAKE q \in Lists(kinds)
  <2>1. PICK n \in 0..MaxProcs : q \in [1..n -> kinds]
    BY DEF Lists
  <2>2. n \in Nat
    BY FrameParameters
  <2>3. q \in Seq(kinds)
    BY <2>1, <2>2
  <2>4. Len(q) = n
    BY <2>1, <2>2, <2>3, LenProperties
  <2> QED BY <2>1, <2>4
<1>2. /\ pipeline.shared \in Lists({"norm", "drop"}) /\ pipeline.infer \in Lists({"norm", "drop"})
      /\ pipeline.learn \in Lists({"norm", "label"}) /\ pipeline.append \in BOOLEAN
      /\ pipeline = [shared |-> pipeline.shared, infer |-> pipeline.infer,
                     learn |-> pipeline.learn, append |-> pipeline.append]
  BY DEF Pipelines
<1>3. /\ Len(pipeline.shared) \in 0..MaxProcs /\ pipeline.shared \in [1..Len(pipeline.shared) -> K]
      /\ Len(pipeline.infer) \in 0..MaxProcs /\ pipeline.infer \in [1..Len(pipeline.infer) -> K]
      /\ Len(pipeline.learn) \in 0..MaxProcs /\ pipeline.learn \in [1..Len(pipeline.learn) -> K]
  BY <1>1, <1>2
<1>4. /\ pipeline["shared"] = pipeline.shared /\ pipeline["infer"] = pipeline.infer
      /\ pipeline["learn"] = pipeline.learn
  OBVIOUS
<1> QED BY <1>2, <1>3, <1>4 DEF PipelineOK, Stages

LEMMA StepsAre ==
    ASSUME NEW f \in Frames
    PROVE  /\ f = [last |-> f.last, steps |-> f.steps] /\ f.last \in FrameEnds
           /\ Len(f.steps) \in Nat /\ DOMAIN f.steps = 1..Len(f.steps)
           /\ f.steps \in Seq(Stages \X (1..MaxProcs) \X FrameEnds)
           /\ \A i \in 1..Len(f.steps) :
                 /\ f.steps[i][1] \in Stages /\ f.steps[i][2] \in 1..MaxProcs
                 /\ f.steps[i][3] \in FrameEnds
<1>1. f = [last |-> f.last, steps |-> f.steps] /\ f.last \in FrameEnds
      /\ f.steps \in Seq(Stages \X (1..MaxProcs) \X FrameEnds)
  BY DEF Frames, FrameEnds
<1> DEFINE T == Stages \X (1..MaxProcs) \X FrameEnds
           q == f.steps
<1>2. q \in Seq(T)
  BY <1>1
<1>3. \A t \in T : t[1] \in Stages /\ t[2] \in 1..MaxProcs /\ t[3] \in FrameEnds
  OBVIOUS
<1> HIDE DEF T, q
<1>4. Len(q) \in Nat /\ DOMAIN q = 1..Len(q) /\ \A i \in 1..Len(q) : q[i] \in T
  BY <1>2, LenProperties
<1> QED BY <1>1, <1>3, <1>4 DEF q

\* A fit sees days of the frame, and none behind its end.
LEMMA LearntIs ==
    ASSUME NEW f \in Frames, NEW end \in FrameEnds
    PROVE  /\ LearntUpTo(f, end) \in FrameEnds
           /\ \A B \in FrameEnds : Bounded(f, B) /\ end = B /\ B # NoDay => LearntUpTo(f, end) <= B
<1> DEFINE m == Len(f.steps)
           a == IF end = NoDay \/ end > f.last THEN f.last ELSE end
           E == {f.steps[i][3] : i \in DOMAIN f.steps}
           D == {a} \union E
<1>1. m \in Nat /\ DOMAIN f.steps = 1..m /\ f.last \in FrameEnds
      /\ \A i \in 1..m : f.steps[i][3] \in FrameEnds
  BY StepsAre
<1>2. FrameEnds \in SUBSET Nat
  BY FrameParameters DEF FrameEnds
<1>3. D \in SUBSET FrameEnds /\ D # {}
  BY <1>1
<1>4. LearntUpTo(f, end) = Max(D)
  BY DEF LearntUpTo
<1>5. \A d \in E : \E i \in 1..m : d = f.steps[i][3]
  BY <1>1
<1> HIDE DEF D
<1>6. D \subseteq 0..LastFrameDay /\ LastFrameDay \in Nat
  BY <1>3, FrameParameters DEF FrameEnds
<1>7. Max(D) \in D
  BY <1>3, <1>6, MaxIsGreatest
<1>8. ASSUME NEW B \in FrameEnds, Bounded(f, B), end = B, B # NoDay
      PROVE  Max(D) <= B
  <2>1. a <= B
    <3>1. B \in Nat /\ f.last \in Nat /\ end = B /\ end # NoDay
      BY <1>1, <1>2, <1>8
    <3>2. a = IF end > f.last THEN f.last ELSE end
      BY <3>1
    <3> HIDE DEF a
    <3> QED BY <3>1, <3>2
  <2>2. \A d \in E : d <= B
    BY <1>1, <1>5, <1>8 DEF Bounded
  <2> QED BY <1>7, <2>1, <2>2 DEF D
<1> QED BY <1>3, <1>4, <1>7, <1>8

\* One processor: the frame it works on has one more step, in place or as a new frame.
ProcDone(w, r, stage, i, with_fit, end) ==
    LET norm == pipeline[stage][i] = "norm"
        old  == InWork(w)
    IN  /\ WorkOK(r)
        /\ r.stats = IF norm /\ with_fit THEN [w.stats EXCEPT ![stage][i] = LearntUpTo(old, end)]
                                         ELSE w.stats
        /\ InWork(r) = [last |-> old.last,
                         steps |-> Append(old.steps, <<stage, i, IF norm THEN r.stats[stage][i] ELSE NoDay>>)]
        /\ Len(w.heap) <= Len(r.heap)
        /\ \A k \in 1..Len(w.heap) : k # w.at \/ ~norm => r.heap[k] = w.heap[k]
        /\ norm => r.at = w.at
        /\ ~norm => r.at > Len(w.heap)

LEMMA RunProcIs ==
    ASSUME pipeline \in Pipelines, NEW stage \in Stages, NEW i \in 1..Len(pipeline[stage]),
           NEW with_fit \in BOOLEAN, NEW end \in FrameEnds, NEW w, WorkOK(w)
    PROVE  ProcDone(w, RunProc(w, stage, i, with_fit, end), stage, i, with_fit, end)
<1> DEFINE norm == pipeline[stage][i] = "norm"
           old == w.heap[w.at]
           s == IF norm /\ with_fit THEN [w.stats EXCEPT ![stage][i] = LearntUpTo(old, end)] ELSE w.stats
           x == IF norm THEN s[stage][i] ELSE NoDay
           f == [last |-> old.last, steps |-> Append(old.steps, <<stage, i, x>>)]
           put == [w.heap EXCEPT ![w.at] = f]
           add == Append(w.heap, f)
           l == Len(w.heap)
           r == RunProc(w, stage, i, with_fit, end)
<1>1. /\ w.heap \in Seq(Frames) /\ w.stats \in StatsSet /\ w.at \in 1..l
      /\ i \in 1..MaxProcs /\ l \in Nat /\ old \in Frames
  <2>1. w.heap \in Seq(Frames) /\ w.stats \in StatsSet /\ w.at \in 1..l
    BY DEF WorkOK
  <2>2. i \in 1..MaxProcs
    BY PipelineIs, FrameParameters DEF PipelineOK
  <2> QED BY <2>1, <2>2, LenProperties
<1>2. r = IF norm THEN [heap |-> put, at |-> w.at, stats |-> s]
                  ELSE [heap |-> add, at |-> l + 1, stats |-> s]
  BY DEF RunProc
<1>3. s \in StatsSet
  <2>1. LearntUpTo(old, end) \in FrameEnds
    BY <1>1, LearntIs
  <2> DEFINE y == LearntUpTo(old, end)
  <2>2. y \in FrameEnds
    BY <2>1
  <2> HIDE DEF y, old
  <2>3. [w.stats EXCEPT ![stage][i] = y] \in StatsSet
    BY <1>1, <2>2 DEF StatsSet
  <2> QED BY <1>1, <2>3 DEF y
<1>4. x \in FrameEnds
  <2> HIDE DEF s
  <2> QED BY <1>1, <1>3, FrameParameters DEF StatsSet, FrameEnds, NoDay
<1>5. f \in Frames
  <2>1. old.steps \in Seq(Stages \X (1..MaxProcs) \X FrameEnds) /\ old.last \in FrameEnds
    BY <1>1, StepsAre
  <2> HIDE DEF x, old
  <2>2. <<stage, i, x>> \in Stages \X (1..MaxProcs) \X FrameEnds
    BY <1>1, <1>4
  <2>3. Append(old.steps, <<stage, i, x>>) \in Seq(Stages \X (1..MaxProcs) \X FrameEnds)
    BY <2>1, <2>2, AppendProperties
  <2> QED BY <2>1, <2>3 DEF Frames, FrameEnds
<1> HIDE DEF norm, s, x
<1>6. /\ put \in Seq(Frames) /\ Len(put) = l /\ put[w.at] = f
      /\ \A k \in 1..l : k # w.at => put[k] = w.heap[k]
  <2> HIDE DEF f, l, old
  <2> QED BY <1>1, <1>5, ExceptSeq DEF l
<1>7. /\ add \in Seq(Frames) /\ Len(add) = l + 1 /\ add[l + 1] = f
      /\ \A k \in 1..l : add[k] = w.heap[k]
  <2> HIDE DEF f, old
  <2> QED BY <1>1, <1>5, AppendProperties
<1> HIDE DEF put, add, f
<1>8. CASE norm
  <2>1. r.heap = put /\ r.at = w.at /\ r.stats = s /\ r = [heap |-> r.heap, at |-> r.at, stats |-> r.stats]
    BY <1>2, <1>8
  <2> HIDE DEF r, l, old
  <2>2. WorkOK(r)
    BY <2>1, <1>1, <1>3, <1>6 DEF WorkOK
  <2>3. InWork(r) = f
    BY <2>1, <1>6 DEF InWork
  <2>4. \A k \in 1..l : k # w.at \/ ~norm => r.heap[k] = w.heap[k]
    BY <1>6, <1>8, <2>1
  <2>5. l <= Len(r.heap)
    BY <1>1, <1>6, <2>1
  <2> QED BY <1>8, <2>1, <2>2, <2>3, <2>4, <2>5 DEF ProcDone, r, l, old, f, x, s, norm, InWork
<1>9. CASE ~norm
  <2>1. r.heap = add /\ r.at = l + 1 /\ r.stats = s /\ r = [heap |-> r.heap, at |-> r.at, stats |-> r.stats]
    BY <1>2, <1>9
  <2>2. l \in Nat
    BY <1>1
  <2> HIDE DEF r, l, old
  <2>3. WorkOK(r)
    BY <2>1, <2>2, <1>3, <1>7 DEF WorkOK
  <2>4. InWork(r) = f
    BY <2>1, <1>7 DEF InWork
  <2>5. \A k \in 1..l : k # w.at \/ ~norm => r.heap[k] = w.heap[k]
    BY <1>7, <2>1
  <2>6. l <= Len(r.heap) /\ r.at > l
    BY <2>2, <1>7, <2>1
  <2> QED BY <1>9, <2>1, <2>3, <2>4, <2>5, <2>6 DEF ProcDone, r, l, old, f, x, s, norm, InWork
<1> QED BY <1>8, <1>9

\* What StageOK says after n - 1 processors it says after n.
LEMMA RunProcKeeps ==
    ASSUME pipeline \in Pipelines, NEW stage \in Stages, NEW n \in 1..Len(pipeline[stage]),
           NEW with_fit \in BOOLEAN, NEW end \in FrameEnds, NEW w0, WorkOK(w0),
           NEW w, StageOK(w0, w, stage, n - 1, with_fit, end)
    PROVE  StageOK(w0, RunProc(w, stage, n, with_fit, end), stage, n, with_fit, end)
<1> DEFINE r == RunProc(w, stage, n, with_fit, end)
           norm == pipeline[stage][n] = "norm"
           f0 == InWork(w0)
           old == InWork(w)
           f == InWork(r)
           x == IF norm THEN r.stats[stage][n] ELSE NoDay
           L == LearntUpTo(old, end)
<1>1. WorkOK(w) /\ n \in Nat /\ n >= 1 /\ n \in 1..MaxProcs /\ DOMAIN pipeline[stage] = 1..Len(pipeline[stage])
  BY PipelineIs, FrameParameters DEF StageOK, PipelineOK
<1>2. /\ WorkOK(r)
      /\ r.stats = IF norm /\ with_fit THEN [w.stats EXCEPT ![stage][n] = L] ELSE w.stats
      /\ f = [last |-> old.last, steps |-> Append(old.steps, <<stage, n, x>>)]
      /\ Len(w.heap) <= Len(r.heap)
      /\ \A k \in 1..Len(w.heap) : k # w.at \/ ~norm => r.heap[k] = w.heap[k]
      /\ norm => r.at = w.at
      /\ ~norm => r.at > Len(w.heap)
  <2>1. ProcDone(w, r, stage, n, with_fit, end)
    <3> HIDE DEF L
    <3> QED BY <1>1, RunProcIs
  <2> HIDE DEF r
  <2> QED BY <2>1 DEF ProcDone
<1> HIDE DEF r, L
<1>3. f0 \in Frames /\ old \in Frames /\ f \in Frames /\ Len(w.heap) \in Nat /\ Len(w0.heap) \in Nat
      /\ Len(r.heap) \in Nat /\ w.at \in Nat /\ r.at \in Nat
  BY <1>1, <1>2, LenProperties DEF WorkOK, InWork
<1>4. HeapKept(w0, r) /\ OnCopy(w0, r, stage)
  <2>1. HeapKept(w0, w) /\ OnCopy(w0, w, stage)
    BY DEF StageOK
  <2>2. norm => w.at > Len(w0.heap)
    BY <1>1, <2>1 DEF OnCopy, Readonly
  <2>3. \A k \in 1..Len(w0.heap) : k \in 1..Len(w.heap) /\ (k # w.at \/ ~norm)
    BY <1>3, <2>1, <2>2 DEF HeapKept
  <2>4. HeapKept(w0, r)
    BY <1>2, <1>3, <2>1, <2>3 DEF HeapKept
  <2>5. OnCopy(w0, r, stage)
    BY <1>2, <1>3, <2>1, <2>2 DEF OnCopy, HeapKept
  <2> QED BY <2>4, <2>5
<1> DEFINE m == Len(old.steps)
           m0 == Len(f0.steps)
           t == <<stage, n, x>>
<1>5. m \in Nat /\ m0 \in Nat /\ m = m0 + n - 1 /\ f.last = old.last
      /\ Len(f.steps) = m + 1 /\ f.steps[m + 1] = t /\ \A k \in 1..m : f.steps[k] = old.steps[k]
      /\ DOMAIN f.steps = 1..(m + 1) /\ DOMAIN old.steps = 1..m /\ DOMAIN f0.steps = 1..m0
  <2>1. old.steps \in Seq(Stages \X (1..MaxProcs) \X FrameEnds) /\ m \in Nat /\ m0 \in Nat
        /\ DOMAIN old.steps = 1..m /\ DOMAIN f0.steps = 1..m0
    BY <1>3, StepsAre
  <2>2. StagePasses(f0, old, stage, n - 1)
    BY DEF StageOK
  <2>3. f.steps = Append(old.steps, t) /\ f.last = old.last
    BY <1>2
  <2>4. f.steps \in Seq(Stages \X (1..MaxProcs) \X FrameEnds) /\ DOMAIN f.steps = 1..Len(f.steps)
    BY <1>3, StepsAre
  <2>6. m = m0 + n - 1
    BY <1>1, <2>1, <2>2 DEF StagePasses
  <2>7. x \in FrameEnds
    <3>1. r.stats \in StatsSet /\ NoDay \in FrameEnds
      BY <1>2, FrameParameters DEF WorkOK, NoDay, FrameEnds
    <3> QED BY <1>1, <3>1 DEF StatsSet
  <2> HIDE DEF x
  <2>8. t \in Stages \X (1..MaxProcs) \X FrameEnds
    BY <1>1, <2>7
  <2> HIDE DEF t, m, m0, f, old
  <2>5. Len(f.steps) = m + 1 /\ f.steps[m + 1] = t /\ \A k \in 1..m : f.steps[k] = old.steps[k]
    BY <2>1, <2>3, <2>8, AppendProperties DEF m
  <2> QED BY <2>1, <2>3, <2>4, <2>5, <2>6
<1>6. t[1] = stage /\ t[2] = n /\ t[3] = x
  OBVIOUS
<1>7. StagePasses(f0, f, stage, n)
  <2>1. StagePasses(f0, old, stage, n - 1)
    BY DEF StageOK
  <2> HIDE DEF t, f, f0, old
  <2>2. \A k \in 1..m0 : f.steps[k] = f0.steps[k]
    BY <1>1, <1>5, <2>1 DEF StagePasses
  <2>3. \A k \in 1..n : f.steps[m0 + k][1] = stage /\ f.steps[m0 + k][2] = k
    <3> TAKE k \in 1..n
    <3> HIDE DEF m, m0
    <3>1. CASE k = n
      BY <1>1, <1>5, <1>6, <3>1
    <3>2. CASE k # n
      <4>1. k \in 1..(n - 1) /\ m0 + k \in 1..m
        BY <1>1, <1>5, <3>2
      <4>2. f.steps[m0 + k] = old.steps[m0 + k]
        BY <1>5, <4>1
      <4> QED BY <2>1, <4>1, <4>2 DEF StagePasses, m0
    <3> QED BY <3>1, <3>2
  <2>4. f.last = f0.last /\ Len(f.steps) = m0 + n
    BY <1>1, <1>5, <2>1 DEF StagePasses
  <2> QED BY <2>2, <2>3, <2>4 DEF StagePasses
<1>8. w.stats \in StatsSet /\ r.stats \in StatsSet
  BY <1>1, <1>2 DEF WorkOK
<1>9. \A g \in Stages \ {stage} : r.stats[g] = w0.stats[g]
  <2>1. \A g \in Stages \ {stage} : w.stats[g] = w0.stats[g]
    BY DEF StageOK
  <2> QED BY <1>2, <1>8, <2>1 DEF StatsSet
<1>10. ~with_fit => r.stats = w0.stats
  <2>1. ~with_fit => w.stats = w0.stats
    BY DEF StageOK
  <2> QED BY <1>2, <2>1
<1>11. ASSUME NEW B \in FrameEnds, Allowed(w0, stage, with_fit, end, B)
       PROVE  /\ Bounded(f, B)
              /\ with_fit => \A i \in 1..n : pipeline[stage][i] = "norm" => r.stats[stage][i] <= B
  <2>1. /\ Bounded(old, B)
        /\ with_fit => \A i \in 1..(n - 1) : pipeline[stage][i] = "norm" => w.stats[stage][i] <= B
    BY <1>11 DEF StageOK
  <2>2. with_fit => L <= B
    BY <1>3, <1>11, <2>1, LearntIs DEF L, Allowed
  <2>3. with_fit /\ norm => r.stats[stage][n] = L
    BY <1>1, <1>2, <1>8, ZenonT(60) DEF StatsSet
  <2>4. \A i \in 1..n : i # n => r.stats[stage][i] = w.stats[stage][i] /\ i \in 1..(n - 1)
    <3>1. \A i \in 1..n : i # n => i \in 1..(n - 1) /\ i \in 1..MaxProcs
      BY <1>1, FrameParameters
    <3> QED BY <1>2, <1>8, <3>1 DEF StatsSet
  <2>5. ~with_fit /\ norm => r.stats[stage][n] <= B
    BY <1>1, <1>10, <1>11 DEF Allowed, StatsWithin
  <2>6. x <= B
    <3>1. NoDay <= B
      BY <1>11, FrameParameters DEF NoDay, FrameEnds
    <3> QED BY <2>2, <2>3, <2>5, <3>1
  <2>7. Bounded(f, B)
    <3> HIDE DEF t, f, old, x
    <3> SUFFICES ASSUME NEW k \in 1..(m + 1) PROVE f.steps[k][3] <= B
      BY <1>5 DEF Bounded
    <3>1. CASE k = m + 1
      BY <1>5, <1>6, <2>6, <3>1
    <3>2. CASE k # m + 1
      <4>1. k \in 1..m
        BY <1>5, <3>2
      <4> QED BY <1>5, <2>1, <4>1 DEF Bounded
    <3> QED BY <3>1, <3>2
  <2>8. ASSUME with_fit, NEW i \in 1..n, pipeline[stage][i] = "norm" PROVE r.stats[stage][i] <= B
    <3>1. CASE i = n
      BY <2>2, <2>3, <2>8, <3>1
    <3>2. CASE i # n
      BY <2>1, <2>4, <2>8, <3>2
    <3> QED BY <3>1, <3>2
  <2>9. with_fit => \A i \in 1..n : pipeline[stage][i] = "norm" => r.stats[stage][i] <= B
    BY <2>8
  <2> HIDE DEF f
  <2> QED BY <2>7, <2>9
<1>12. WorkOK(r)
  BY <1>2
<1>13. \A B \in FrameEnds : Allowed(w0, stage, with_fit, end, B) =>
          /\ Bounded(f, B)
          /\ with_fit => \A i \in 1..n : pipeline[stage][i] = "norm" => r.stats[stage][i] <= B
  BY <1>11
<1>14. StageOK(w0, r, stage, n, with_fit, end)
  BY <1>4, <1>7, <1>9, <1>10, <1>12, <1>13 DEF StageOK
<1> QED BY <1>14 DEF r

LEMMA StageSize ==
    ASSUME pipeline \in Pipelines, NEW stage \in Stages
    PROVE  /\ Len(pipeline[stage]) \in Nat /\ Len(pipeline[stage]) <= MaxProcs
           /\ DOMAIN pipeline[stage] = 1..Len(pipeline[stage])
BY PipelineIs, FrameParameters DEF PipelineOK

LEMMA OwnOK ==
    ASSUME pipeline \in Pipelines, NEW stage \in Stages, NEW with_fit \in BOOLEAN, NEW end \in FrameEnds,
           NEW w0, WorkOK(w0)
    PROVE  StageOK(w0, Own(w0, stage), stage, 0, with_fit, end)
<1> DEFINE r == Own(w0, stage)
           f == InWork(w0)
           l == Len(w0.heap)
           add == Append(w0.heap, f)
<1>1. w0.heap \in Seq(Frames) /\ l \in Nat /\ f \in Frames /\ w0.at \in 1..l /\ w0.stats \in StatsSet
  BY LenProperties DEF WorkOK, InWork
<1>2. add \in Seq(Frames) /\ Len(add) = l + 1 /\ add[l + 1] = f /\ \A k \in 1..l : add[k] = w0.heap[k]
  <2> HIDE DEF f
  <2> QED BY <1>1, AppendProperties
<1>3. WorkOK(r) /\ HeapKept(w0, r) /\ OnCopy(w0, r, stage) /\ InWork(r) = f /\ r.stats = w0.stats
  <2>1. CASE Readonly(stage)
    <3>1. r = w0
      BY <2>1 DEF Own
    <3> HIDE DEF r
    <3> QED BY <1>1, <2>1, <3>1 DEF HeapKept, OnCopy
  <2>2. CASE ~Readonly(stage)
    <3>1. r = [heap |-> add, at |-> l + 1, stats |-> w0.stats]
      BY <2>2 DEF Own, InWork
    <3>2. r.heap = add /\ r.at = l + 1 /\ r.stats = w0.stats
          /\ r = [heap |-> r.heap, at |-> r.at, stats |-> r.stats]
      BY <3>1
    <3> HIDE DEF r, add, f, l
    <3>3. WorkOK(r)
      BY <1>1, <1>2, <3>2 DEF WorkOK
    <3>4. InWork(r) = f
      BY <1>2, <3>2 DEF InWork
    <3>5. HeapKept(w0, r)
      BY <1>1, <1>2, <3>2 DEF HeapKept, l
    <3>6. OnCopy(w0, r, stage)
      BY <1>1, <3>2 DEF OnCopy, l
    <3> QED BY <3>2, <3>3, <3>4, <3>5, <3>6
  <2> QED BY <2>1, <2>2
<1>4. StagePasses(f, f, stage, 0)
  <2>1. Len(f.steps) \in Nat
    BY <1>1, StepsAre
  <2> HIDE DEF f
  <2> QED BY <2>1 DEF StagePasses
<1> HIDE DEF r, f
<1>5. StageOK(w0, r, stage, 0, with_fit, end)
  <2>1. StagePasses(InWork(w0), InWork(r), stage, 0)
    BY <1>3, <1>4 DEF f
  <2>2. \A B \in FrameEnds : Allowed(w0, stage, with_fit, end, B) => Bounded(InWork(r), B)
    BY <1>3 DEF Allowed, f
  <2> QED BY <1>3, <2>1, <2>2 DEF StageOK
<1> QED BY <1>5 DEF r

\* The recursion over the processors of a stage has a solution.
LEMMA RunStageOK ==
    ASSUME pipeline \in Pipelines, NEW stage \in Stages, NEW with_fit \in BOOLEAN, NEW end \in FrameEnds,
           NEW w0, WorkOK(w0)
    PROVE  StageOK(w0, RunStage(w0, stage, with_fit, end), stage, Len(pipeline[stage]), with_fit, end)
<1> DEFINE n == Len(pipeline[stage])
           G(w, k) == RunProc(w, stage, k, with_fit, end)
           first == Own(w0, stage)
           OK(w, k) == StageOK(w0, w, stage, k, with_fit, end)
           Runs(f, m) == /\ f[0] = first
                         /\ \A k \in 1..m : f[k] = G(f[k - 1], k)
           D == {m \in Nat : \E f : Runs(f, m)}
<1>1. n \in Nat
  BY StageSize
<1>2. OK(first, 0)
  BY OwnOK
<1>3. \A k \in 1..n : \A w : OK(w, k - 1) => OK(G(w, k), k)
  <2> SUFFICES ASSUME NEW k \in 1..n, NEW w, OK(w, k - 1) PROVE OK(G(w, k), k)
    OBVIOUS
  <2> QED BY RunProcKeeps
<1> HIDE DEF n, G, first, OK
<1>4. 0 \in D
  <2>1. Runs([k \in 0..0 |-> first], 0)
    OBVIOUS
  <2> HIDE DEF Runs
  <2> QED BY <2>1
<1>5. \A m \in D : m + 1 \in D
  <2> TAKE m \in D
  <2>1. PICK f : Runs(f, m)
    OBVIOUS
  <2> DEFINE g == [k \in 0..(m + 1) |-> IF k = m + 1 THEN G(f[m], m + 1) ELSE f[k]]
  <2>2. Runs(g, m + 1)
    <3>1. g[0] = first
      BY <2>1
    <3>2. ASSUME NEW k \in 1..(m + 1) PROVE g[k] = G(g[k - 1], k)
      <4>1. k - 1 \in 0..m /\ g[k - 1] = f[k - 1]
        OBVIOUS
      <4>2. g[k] = IF k = m + 1 THEN G(f[m], m + 1) ELSE f[k]
        OBVIOUS
      <4>3. k # m + 1 => f[k] = G(f[k - 1], k)
        BY <2>1
      <4>4. k = m + 1 => k - 1 = m
        OBVIOUS
      <4> HIDE DEF g
      <4> QED BY <4>1, <4>2, <4>3, <4>4
    <3> HIDE DEF g
    <3> QED BY <3>1, <3>2
  <2> HIDE DEF Runs, g
  <2> QED BY <2>2
<1>6. PICK f : Runs(f, n)
  <2>1. D \in SUBSET Nat
    OBVIOUS
  <2>2. n \in D
    <3> HIDE DEF D
    <3> QED BY <1>1, <1>4, <1>5, <2>1, AllNumbers
  <2> QED BY <2>2
<1> DEFINE F(h) == [k \in 0..n |-> IF k = 0 THEN first ELSE G(h[k - 1], k)]
           run == CHOOSE h : h = F(h)
<1>7. \E h : h = F(h)
  <2> DEFINE h == [k \in 0..n |-> f[k]]
  <2>1. ASSUME NEW k \in 0..n PROVE h[k] = IF k = 0 THEN first ELSE G(h[k - 1], k)
    <3>1. CASE k = 0
      BY <1>6, <3>1
    <3>2. CASE k # 0
      <4>1. k \in 1..n /\ k - 1 \in 0..n
        BY <1>1, <3>2
      <4>2. f[k] = G(f[k - 1], k)
        BY <1>6, <4>1
      <4> QED BY <3>2, <4>1, <4>2
    <3> QED BY <3>1, <3>2
  <2>2. h = F(h)
    <3> HIDE DEF Runs
    <3> SUFFICES \A k \in 0..n : h[k] = IF k = 0 THEN first ELSE G(h[k - 1], k)
      BY Zenon
    <3> QED BY <2>1
  <2> HIDE DEF h, F
  <2> QED BY <2>2
<1>8. run = F(run)
  <2> HIDE DEF F
  <2> QED BY <1>7
<1>9. \A k \in 0..n : run[k] = IF k = 0 THEN first ELSE G(run[k - 1], k)
  BY <1>8
<1>10. RunStage(w0, stage, with_fit, end) = run[n]
  BY DEF RunStage, n, G, first
<1> HIDE DEF run
<1> DEFINE E == {k \in Nat : k <= n => OK(run[k], k)}
<1>11. 0 \in E
  BY <1>1, <1>2, <1>9
<1>12. \A k \in E : k + 1 \in E
  <2> SUFFICES ASSUME NEW k \in Nat, k + 1 <= n, OK(run[k], k) PROVE OK(run[k + 1], k + 1)
    BY <1>1
  <2>1. k + 1 \in 1..n /\ k + 1 \in 0..n /\ (k + 1) - 1 = k /\ k + 1 # 0
    BY <1>1
  <2>2. run[k + 1] = G(run[k], k + 1)
    BY <1>9, <2>1
  <2>3. OK(G(run[k], k + 1), k + 1)
    BY <1>3, <2>1
  <2> QED BY <2>2, <2>3
<1>13. OK(run[n], n)
  <2>1. E \in SUBSET Nat
    OBVIOUS
  <2>2. n \in E
    <3> HIDE DEF E
    <3> QED BY <1>1, <1>11, <1>12, <2>1, AllNumbers
  <2> QED BY <1>1, <2>2
<1> QED BY <1>10, <1>13 DEF OK, n

ProcNames == Stages \X (1..MaxProcs)

LEMMA PassedIs ==
    ASSUME pipeline \in Pipelines, NEW stage \in Stages
    PROVE  /\ Passed(stage) \in Seq(ProcNames) /\ Len(Passed(stage)) = Len(pipeline[stage])
           /\ \A i \in 1..Len(pipeline[stage]) : Passed(stage)[i] = <<stage, i>>
<1> DEFINE n == Len(pipeline[stage])
<1>1. n \in Nat /\ n <= MaxProcs /\ DOMAIN pipeline[stage] = 1..n /\ MaxProcs \in Nat
  BY StageSize, FrameParameters
<1>2. Passed(stage) = [i \in 1..n |-> <<stage, i>>]
  BY <1>1 DEF Passed
<1> HIDE DEF n
<1>3. \A i \in 1..n : <<stage, i>> \in ProcNames
  BY <1>1 DEF ProcNames
<1>4. Passed(stage) \in [1..n -> ProcNames]
  BY <1>2, <1>3
<1>5. Passed(stage) \in Seq(ProcNames)
  BY <1>1, <1>4
<1>6. Len(Passed(stage)) = n
  <2>1. DOMAIN Passed(stage) = 1..n
    BY <1>4
  <2> HIDE DEF n
  <2> QED BY <1>1, <1>5, <2>1, LenProperties
<1> QED BY <1>2, <1>5, <1>6 DEF n

LEMMA PathIs ==
    ASSUME NEW f \in Frames
    PROVE  /\ Path(f) \in Seq(ProcNames) /\ Len(Path(f)) = Len(f.steps)
           /\ \A i \in 1..Len(f.steps) : Path(f)[i] = <<f.steps[i][1], f.steps[i][2]>>
<1> DEFINE n == Len(f.steps)
<1>1. n \in Nat /\ DOMAIN f.steps = 1..n
      /\ \A i \in 1..n : f.steps[i][1] \in Stages /\ f.steps[i][2] \in 1..MaxProcs
  BY StepsAre
<1>2. Path(f) = [i \in 1..n |-> <<f.steps[i][1], f.steps[i][2]>>]
  BY <1>1 DEF Path
<1> HIDE DEF n
<1>3. \A i \in 1..n : <<f.steps[i][1], f.steps[i][2]>> \in ProcNames
  BY <1>1 DEF ProcNames
<1>4. Path(f) \in [1..n -> ProcNames]
  BY <1>2, <1>3
<1>5. Path(f) \in Seq(ProcNames)
  BY <1>1, <1>4
<1>6. Len(Path(f)) = n
  <2>1. DOMAIN Path(f) = 1..n
    BY <1>4
  <2> QED BY <1>1, <1>5, <2>1, LenProperties
<1> QED BY <1>2, <1>5, <1>6 DEF n

\* A frame that passed a stage has its path before and the stage's processors in order.
LEMMA PathJoined ==
    ASSUME pipeline \in Pipelines, NEW stage \in Stages, NEW f0 \in Frames, NEW f \in Frames,
           StagePasses(f0, f, stage, Len(pipeline[stage]))
    PROVE  Path(f) = Path(f0) \o Passed(stage)
<1> DEFINE n == Len(pipeline[stage])
           m == Len(f0.steps)
           p == Path(f)
           p0 == Path(f0)
           q == Passed(stage)
           pq == p0 \o q
<1>1. p \in Seq(ProcNames) /\ Len(p) = Len(f.steps) /\ \A i \in 1..Len(f.steps) : p[i] = <<f.steps[i][1], f.steps[i][2]>>
  BY PathIs
<1>2. p0 \in Seq(ProcNames) /\ Len(p0) = m /\ \A i \in 1..m : p0[i] = <<f0.steps[i][1], f0.steps[i][2]>>
  BY PathIs
<1>3. q \in Seq(ProcNames) /\ Len(q) = n /\ \A i \in 1..n : q[i] = <<stage, i>>
  BY PassedIs
<1>4. n \in Nat /\ m \in Nat /\ Len(f.steps) = m + n
      /\ (\A i \in 1..m : f.steps[i] = f0.steps[i])
      /\ (\A i \in 1..n : f.steps[m + i][1] = stage /\ f.steps[m + i][2] = i)
  BY StepsAre, StageSize DEF StagePasses
<1> HIDE DEF p, p0, q, m, n
<1>5. pq \in Seq(ProcNames) /\ Len(pq) = m + n
      /\ \A i \in 1..(m + n) : pq[i] = IF i <= m THEN p0[i] ELSE q[i - m]
  BY <1>2, <1>3, ConcatProperties
<1> HIDE DEF pq
<1>6. \A i \in 1..(m + n) : p[i] = pq[i]
  <2> TAKE i \in 1..(m + n)
  <2>1. CASE i <= m
    <3>1. i \in 1..m
      BY <1>4, <2>1
    <3>2. p[i] = <<f.steps[i][1], f.steps[i][2]>> /\ f.steps[i] = f0.steps[i]
      BY <1>1, <1>4, <3>1
    <3>3. p0[i] = <<f0.steps[i][1], f0.steps[i][2]>>
      BY <1>2, <3>1
    <3>4. pq[i] = p0[i]
      BY <1>5, <2>1
    <3> QED BY <3>2, <3>3, <3>4
  <2>2. CASE ~(i <= m)
    <3>1. i - m \in 1..n /\ m + (i - m) = i
      BY <1>4, <2>2
    <3>2. f.steps[i][1] = stage /\ f.steps[i][2] = i - m
      BY <1>4, <3>1
    <3>3. q[i - m] = <<stage, i - m>>
      BY <1>3, <3>1
    <3>4. p[i] = <<stage, i - m>>
      BY <1>1, <1>4, <3>2
    <3> QED BY <1>5, <2>2, <3>3, <3>4
  <2> QED BY <2>1, <2>2
<1>7. p = pq
  BY <1>1, <1>4, <1>5, <1>6, SeqEqual
<1> QED BY <1>7 DEF p, pq, p0, q

\* What process_data makes of the raw frame.
Processed(raw, known, with_fit, end, made) ==
    /\ made.frames \in [{"raw", "infer", "learn"} -> Frames] /\ made.stats \in StatsSet
    /\ made.frames.raw = raw
    /\ Path(made.frames.infer) = Passed("shared") \o Passed("infer")
    /\ Path(made.frames.learn) = Passed("shared") \o (IF pipeline.append THEN Passed("infer") ELSE <<>>)
                                                  \o Passed("learn")
    /\ \A B \in FrameEnds :
          (IF with_fit THEN end = B /\ B # NoDay ELSE \A g \in Stages : StatsWithin(known, g, B)) =>
             /\ Bounded(made.frames.infer, B) /\ Bounded(made.frames.learn, B)
             /\ \A g \in Stages : StatsWithin(made.stats, g, B)

LEMMA ProcessIs ==
    ASSUME pipeline \in Pipelines, NEW raw \in Frames, raw.steps = <<>>, NEW known \in StatsSet,
           NEW with_fit \in BOOLEAN, NEW end \in FrameEnds
    PROVE  Processed(raw, known, with_fit, end, Process(raw, known, with_fit, end))
<1> DEFINE first == [heap |-> <<raw>>, at |-> 1, stats |-> known]
           shared == RunStage(first, "shared", with_fit, end)
           infer == RunStage(shared, "infer", with_fit, end)
           from == [heap |-> infer.heap, at |-> IF pipeline.append THEN infer.at ELSE shared.at,
                    stats |-> infer.stats]
           learn == RunStage(from, "learn", with_fit, end)
           made == Process(raw, known, with_fit, end)
           N(g) == Len(pipeline[g])
<1>1. "shared" \in Stages /\ "infer" \in Stages /\ "learn" \in Stages
  BY DEF Stages
<1>2. WorkOK(first) /\ InWork(first) = raw /\ first.heap[1] = raw /\ Len(first.heap) = 1 /\ first.stats = known
  <2>1. <<raw>> \in Seq(Frames) /\ Len(<<raw>>) = 1 /\ <<raw>>[1] = raw
    OBVIOUS
  <2>2. first.heap = <<raw>> /\ first.at = 1 /\ first.stats = known
        /\ first = [heap |-> first.heap, at |-> first.at, stats |-> first.stats]
    OBVIOUS
  <2> HIDE DEF first
  <2> QED BY <2>1, <2>2 DEF WorkOK, InWork
<1>3. made = [frames |-> [raw |-> learn.heap[1], infer |-> learn.heap[infer.at], learn |-> learn.heap[learn.at]],
              stats |-> learn.stats]
  BY DEF Process
<1> HIDE DEF first
<1>4. StageOK(first, shared, "shared", N("shared"), with_fit, end)
  BY <1>1, <1>2, RunStageOK
<1> HIDE DEF shared
<1>5. WorkOK(shared)
  BY <1>4 DEF StageOK
<1>6. StageOK(shared, infer, "infer", N("infer"), with_fit, end)
  BY <1>1, <1>5, RunStageOK
<1> HIDE DEF infer
<1>7. WorkOK(infer) /\ HeapKept(shared, infer)
  BY <1>6 DEF StageOK
<1>8. WorkOK(from) /\ from.heap = infer.heap /\ from.stats = infer.stats
      /\ InWork(from) = IF pipeline.append THEN InWork(infer) ELSE InWork(shared)
  <2>1. from.heap = infer.heap /\ from.stats = infer.stats
        /\ from.at = (IF pipeline.append THEN infer.at ELSE shared.at)
        /\ from = [heap |-> from.heap, at |-> from.at, stats |-> from.stats]
    OBVIOUS
  <2>2. /\ infer.heap \in Seq(Frames) /\ infer.stats \in StatsSet /\ infer.at \in 1..Len(infer.heap)
        /\ shared.at \in 1..Len(shared.heap) /\ Len(infer.heap) \in Nat /\ Len(shared.heap) \in Nat
    BY <1>5, <1>7, LenProperties DEF WorkOK
  <2>3. shared.at \in 1..Len(infer.heap) /\ infer.heap[shared.at] = shared.heap[shared.at]
    BY <1>7, <2>2 DEF HeapKept
  <2> HIDE DEF from
  <2> QED BY <2>1, <2>2, <2>3 DEF WorkOK, InWork
<1> HIDE DEF from
<1>9. StageOK(from, learn, "learn", N("learn"), with_fit, end)
  BY <1>1, <1>8, RunStageOK
<1> HIDE DEF learn, made
<1>10. WorkOK(learn) /\ HeapKept(from, learn) /\ HeapKept(first, shared)
  BY <1>4, <1>9 DEF StageOK
<1>11. learn.heap[1] = raw /\ learn.heap[infer.at] = InWork(infer) /\ learn.heap[learn.at] = InWork(learn)
  <2>1. Len(first.heap) = 1 /\ Len(shared.heap) \in Nat /\ Len(infer.heap) \in Nat
        /\ infer.at \in 1..Len(infer.heap)
    BY <1>2, <1>5, <1>7, LenProperties, SMTT(30) DEF WorkOK
  <2>2. 1 \in 1..Len(first.heap) /\ 1 \in 1..Len(shared.heap) /\ 1 \in 1..Len(infer.heap)
    BY <1>7, <1>10, <2>1 DEF HeapKept
  <2> QED BY <1>2, <1>7, <1>8, <1>10, <2>1, <2>2, SMTT(30) DEF HeapKept, InWork
<1>12. InWork(shared) \in Frames /\ InWork(infer) \in Frames /\ InWork(learn) \in Frames /\ InWork(from) \in Frames
  BY <1>5, <1>7, <1>8, <1>10, LenProperties DEF WorkOK, InWork
<1>13. made.frames.raw = raw /\ made.frames.infer = InWork(infer) /\ made.frames.learn = InWork(learn)
       /\ made.stats = learn.stats /\ made.frames \in [{"raw", "infer", "learn"} -> Frames]
  BY <1>3, <1>11, <1>12
<1>14. made.stats \in StatsSet
  BY <1>10, <1>13 DEF WorkOK
<1>15. /\ Path(InWork(shared)) = Passed("shared")
       /\ Path(InWork(infer)) = Passed("shared") \o Passed("infer")
       /\ Path(InWork(learn)) = Path(InWork(from)) \o Passed("learn")
  <2>1. /\ StagePasses(raw, InWork(shared), "shared", N("shared"))
        /\ StagePasses(InWork(shared), InWork(infer), "infer", N("infer"))
        /\ StagePasses(InWork(from), InWork(learn), "learn", N("learn"))
    BY <1>2, <1>4, <1>6, <1>9 DEF StageOK
  <2>2. /\ Path(InWork(shared)) = Path(raw) \o Passed("shared")
        /\ Path(InWork(infer)) = Path(InWork(shared)) \o Passed("infer")
        /\ Path(InWork(learn)) = Path(InWork(from)) \o Passed("learn")
    BY <1>1, <1>12, <2>1, PathJoined
  <2>3. Path(raw) = <<>>
    <3>1. Path(raw) \in Seq(ProcNames) /\ Len(Path(raw)) = 0
      BY PathIs
    <3> QED BY <3>1, EmptySeq
  <2>4. <<>> \o Passed("shared") = Passed("shared")
    BY <1>1, PassedIs, ConcatEmptySeq
  <2> QED BY <2>2, <2>3, <2>4
<1>16. Path(InWork(learn)) = Passed("shared") \o (IF pipeline.append THEN Passed("infer") ELSE <<>>)
                                               \o Passed("learn")
  <2>1. Passed("shared") \o <<>> = Passed("shared")
    BY <1>1, PassedIs, ConcatEmptySeq
  <2>2. CASE pipeline.append
    BY <1>8, <1>15, <2>2
  <2>3. CASE ~pipeline.append
    BY <1>8, <1>15, <2>1, <2>3
  <2> QED BY <2>2, <2>3
<1>17. ASSUME NEW B \in FrameEnds,
              IF with_fit THEN end = B /\ B # NoDay ELSE \A g \in Stages : StatsWithin(known, g, B)
       PROVE  /\ Bounded(InWork(infer), B) /\ Bounded(InWork(learn), B)
              /\ \A g \in Stages : StatsWithin(learn.stats, g, B)
  <2>1. ~with_fit => shared.stats = known /\ infer.stats = known /\ learn.stats = known
    BY <1>2, <1>4, <1>6, <1>8, <1>9 DEF StageOK
  <2>2. Allowed(first, "shared", with_fit, end, B)
    <3>1. Bounded(raw, B)
      BY DEF Bounded
    <3> QED BY <1>1, <1>2, <1>17, <3>1 DEF Allowed
  <2>3. Bounded(InWork(shared), B)
        /\ (with_fit => \A i \in 1..N("shared") : pipeline["shared"][i] = "norm" => shared.stats["shared"][i] <= B)
    BY <1>4, <2>2 DEF StageOK
  <2>4. Allowed(shared, "infer", with_fit, end, B)
    BY <1>1, <1>17, <2>1, <2>3 DEF Allowed
  <2>5. Bounded(InWork(infer), B)
        /\ (with_fit => \A i \in 1..N("infer") : pipeline["infer"][i] = "norm" => infer.stats["infer"][i] <= B)
    BY <1>6, <2>4 DEF StageOK
  <2>6. Allowed(from, "learn", with_fit, end, B)
    <3>1. Bounded(InWork(from), B)
      BY <1>8, <2>3, <2>5
    <3> QED BY <1>1, <1>8, <1>17, <2>1, <3>1 DEF Allowed
  <2>7. Bounded(InWork(learn), B)
        /\ (with_fit => \A i \in 1..N("learn") : pipeline["learn"][i] = "norm" => learn.stats["learn"][i] <= B)
    BY <1>9, <2>6 DEF StageOK
  <2>8. \A g \in Stages : StatsWithin(learn.stats, g, B)
    <3>1. CASE ~with_fit
      BY <1>17, <2>1, <3>1
    <3>2. CASE with_fit
      <4>1. learn.stats["shared"] = shared.stats["shared"] /\ learn.stats["infer"] = infer.stats["infer"]
        BY <1>6, <1>8, <1>9 DEF StageOK, Stages
      <4>2. \A g \in Stages : DOMAIN pipeline[g] = 1..N(g)
        BY StageSize
      <4>3. StatsWithin(learn.stats, "shared", B) /\ StatsWithin(learn.stats, "infer", B) /\ StatsWithin(learn.stats, "learn", B)
        BY <1>1, <2>3, <2>5, <2>7, <3>2, <4>1, <4>2 DEF StatsWithin
      <4> QED BY <4>3 DEF Stages
    <3> QED BY <3>1, <3>2
  <2> QED BY <2>5, <2>7, <2>8
<1>18. \A B \in FrameEnds :
          (IF with_fit THEN end = B /\ B # NoDay ELSE \A g \in Stages : StatsWithin(known, g, B)) =>
             /\ Bounded(made.frames.infer, B) /\ Bounded(made.frames.learn, B)
             /\ \A g \in Stages : StatsWithin(made.stats, g, B)
  BY <1>13, <1>17
<1>19. Processed(raw, known, with_fit, end, made)
  BY <1>13, <1>14, <1>15, <1>16, <1>18 DEF Processed
<1> QED BY <1>19 DEF made

(***************************************************************************)
(* The statistics there are, those in the prepared frames too, have seen   *)
(* nothing behind the end of the last fit, and that is in the train segment*)
(* unless it is doubted.                                                   *)
(***************************************************************************)
PreparationShape ==
    /\ pipeline \in Pipelines
    /\ handlerEnd \in FrameEnds /\ fitEnd \in FrameEnds /\ trainEnd \in FrameEnds /\ fitFor \in FrameEnds
    /\ stats \in StatsSet /\ frames \in [{"raw", "infer", "learn"} -> Frames]
    /\ prepared \in {"no", "yes", "stale"} /\ doubted \in BOOLEAN

SeenToFit ==
    fitFor # NoDay =>
        /\ \A g \in Stages : StatsWithin(stats, g, fitFor)
        /\ prepared = "yes" => Bounded(frames.infer, fitFor) /\ Bounded(frames.learn, fitFor)

FitInside == ~doubted /\ fitFor # NoDay /\ trainEnd # NoDay => fitFor <= trainEnd

PreparationInv ==
    PreparationShape /\ FlowTrue /\ SeenToFit /\ FitInside

LEMMA PreparationStarts == PreparationInit => PreparationInv
<1> SUFFICES ASSUME PreparationInit PROVE PreparationInv
  OBVIOUS
<1>1. NoDay \in FrameEnds /\ 0 \in FrameEnds
  BY FrameParameters DEF NoDay, FrameEnds
<1>2. stats \in StatsSet
  BY <1>1 DEF PreparationInit, StatsSet
<1>3. Empty \in Frames
  <2>1. <<>> \in Seq(Stages \X (1..MaxProcs) \X (0..LastFrameDay))
    OBVIOUS
  <2> QED BY <1>1, <2>1 DEF Empty, Frames, FrameEnds
<1>4. frames \in [{"raw", "infer", "learn"} -> Frames]
  BY <1>3 DEF PreparationInit
<1> QED BY <1>1, <1>2, <1>4 DEF PreparationInit, PreparationInv, PreparationShape, FlowTrue, SeenToFit, FitInside

\* Setup makes the frames FlowTrue asks for, and its statistics see what the fit allows.
LEMMA SetupIs ==
    ASSUME PreparationShape, SeenToFit,
           NEW init_type \in {"fit_seq", "fit_ind", "load_state"}, NEW upto \in FrameEnds, NEW end \in FrameEnds,
           Setup(init_type, upto, end), pipeline' = pipeline
    PROVE  /\ stats' \in StatsSet /\ frames' \in [{"raw", "infer", "learn"} -> Frames]
           /\ prepared' = "yes" /\ fitFor' = (IF init_type = "load_state" THEN fitFor ELSE end)
           /\ FlowTrue' /\ SeenToFit'
<1> DEFINE raw == [last |-> upto, steps |-> <<>>]
           known == IF init_type # "fit_ind" THEN stats
                    ELSE [g \in Stages |-> [i \in 1..MaxProcs |->
                            IF i \in DOMAIN pipeline[g] /\ pipeline[g][i] = "norm"
                            THEN LearntUpTo(raw, end) ELSE stats[g][i]]]
           fit == init_type = "fit_seq"
           made == Process(raw, known, fit, end)
           L == LearntUpTo(raw, end)
<1>1. raw \in Frames /\ raw.steps = <<>>
  <2>1. <<>> \in Seq(Stages \X (1..MaxProcs) \X (0..LastFrameDay))
    OBVIOUS
  <2> QED BY <2>1 DEF Frames, FrameEnds
<1>2. L \in FrameEnds /\ (end # NoDay => L <= end)
  <2>1. Bounded(raw, end)
    BY <1>1 DEF Bounded
  <2> HIDE DEF raw
  <2> QED BY <1>1, <2>1, LearntIs
<1>3. /\ frames' = made.frames /\ stats' = made.stats /\ prepared' = "yes"
      /\ fitFor' = (IF init_type = "load_state" THEN fitFor ELSE end)
  BY DEF Setup
<1> HIDE DEF raw, L
<1>4. known \in StatsSet
  <2>1. CASE init_type # "fit_ind"
    BY <2>1 DEF PreparationShape
  <2>2. CASE init_type = "fit_ind"
    <3>1. \A g \in Stages, i \in 1..MaxProcs : stats[g][i] \in FrameEnds
      BY DEF PreparationShape, StatsSet
    <3>2. known = [g \in Stages |-> [i \in 1..MaxProcs |->
                            IF i \in DOMAIN pipeline[g] /\ pipeline[g][i] = "norm" THEN L ELSE stats[g][i]]]
      BY <2>2 DEF L
    <3> HIDE DEF known
    <3> QED BY <1>2, <3>1, <3>2 DEF StatsSet
  <2> QED BY <2>1, <2>2
<1>5. fitFor' # NoDay => fitFor' \in FrameEnds /\ (IF fit THEN end = fitFor' /\ fitFor' # NoDay
                                              ELSE \A g \in Stages : StatsWithin(known, g, fitFor'))
  <2>1. CASE init_type = "fit_seq"
    BY <1>3, <2>1
  <2>2. CASE init_type = "load_state"
    BY <1>3, <2>2 DEF SeenToFit, PreparationShape
  <2>3. CASE init_type = "fit_ind"
    <3>1. known = [g \in Stages |-> [i \in 1..MaxProcs |->
                            IF i \in DOMAIN pipeline[g] /\ pipeline[g][i] = "norm" THEN L ELSE stats[g][i]]]
      BY <2>3 DEF L
    <3> HIDE DEF known
    <3>2. \A g \in Stages : \A i \in DOMAIN pipeline[g] : i \in 1..MaxProcs
      BY StageSize, FrameParameters DEF PreparationShape
    <3>3. \A g \in Stages : \A i \in DOMAIN pipeline[g] : pipeline[g][i] = "norm" => known[g][i] = L
      BY <3>1, <3>2
    <3>4. end # NoDay => \A g \in Stages : StatsWithin(known, g, end)
      BY <1>2, <3>3 DEF StatsWithin
    <3> QED BY <1>3, <2>3, <3>4
  <2> QED BY <2>1, <2>2, <2>3
<1> HIDE DEF known, fit
<1>6. Processed(raw, known, fit, end, made)
  BY <1>1, <1>4, ProcessIs DEF PreparationShape, fit
<1> HIDE DEF made
<1>7. stats' \in StatsSet /\ frames' \in [{"raw", "infer", "learn"} -> Frames]
  BY <1>3, <1>6 DEF Processed
<1>8. FlowTrue'
  BY <1>1, <1>3, <1>6 DEF Processed, FlowTrue, Passed
<1>9. SeenToFit'
  <2>1. fitFor' # NoDay => /\ Bounded(made.frames.infer, fitFor') /\ Bounded(made.frames.learn, fitFor')
                           /\ \A g \in Stages : StatsWithin(made.stats, g, fitFor')
    BY <1>5, <1>6 DEF Processed
  <2> QED BY <1>3, <2>1 DEF SeenToFit, StatsWithin
<1> QED BY <1>3, <1>7, <1>8, <1>9

LEMMA PreparationSteps == PreparationInv /\ [PreparationNext]_preparationVars => PreparationInv'
<1> SUFFICES ASSUME PreparationInv, [PreparationNext]_preparationVars PROVE PreparationInv'
  OBVIOUS
<1>1. PreparationShape /\ FlowTrue /\ SeenToFit /\ FitInside
  BY DEF PreparationInv
<1>2. FrameDay \subseteq FrameEnds /\ FrameEnds \subseteq Nat
  BY FrameParameters DEF FrameDay, FrameEnds
<1>3. ASSUME NEW upto \in FrameDay, NEW end \in FrameEnds, NEW train \in FrameEnds, MakeDataset(upto, end, train)
      PROVE  PreparationInv'
  <2>1. /\ handlerEnd' = upto /\ fitEnd' = end /\ trainEnd' = train /\ pipeline' = pipeline /\ doubted' = doubted
        /\ Setup("fit_seq", upto, end) /\ (end = NoDay \/ train = NoDay \/ end <= train)
    BY <1>3 DEF MakeDataset, FitEndAccepted
  <2>2. upto \in FrameEnds
    BY <1>2
  <2>3. /\ stats' \in StatsSet /\ frames' \in [{"raw", "infer", "learn"} -> Frames]
        /\ prepared' = "yes" /\ fitFor' = end /\ FlowTrue' /\ SeenToFit'
    BY <1>1, <2>1, <2>2, SetupIs
  <2>4. PreparationShape'
    BY <1>1, <2>1, <2>2, <2>3 DEF PreparationShape
  <2>5. FitInside'
    BY <2>1, <2>3 DEF FitInside
  <2> QED BY <2>3, <2>4, <2>5 DEF PreparationInv
<1>4. ASSUME NEW upto \in FrameDay, NEW end \in FrameEnds, NEW train \in FrameEnds, Configure(upto, end, train)
      PROVE  PreparationInv'
  <2>1. /\ handlerEnd' = upto /\ fitEnd' = end /\ trainEnd' = train /\ prepared # "no" /\ prepared' = "stale"
        /\ doubted' = (doubted \/ ~(end = NoDay \/ train = NoDay \/ end <= train)
                               \/ (train # NoDay /\ (trainEnd = NoDay \/ train < trainEnd)))
        /\ pipeline' = pipeline /\ stats' = stats /\ frames' = frames /\ fitFor' = fitFor
    BY <1>4 DEF Configure, FitEndAccepted
  <2>2. PreparationShape'
    BY <1>1, <1>2, <2>1 DEF PreparationShape
  <2>3. FlowTrue'
    BY <1>1, <2>1 DEF FlowTrue, Passed, Path
  <2>4. SeenToFit'
    BY <1>1, <2>1 DEF SeenToFit, StatsWithin
  <2>5. FitInside'
    <3>1. fitFor \in Nat /\ trainEnd \in Nat /\ train \in Nat
      BY <1>1, <1>2 DEF PreparationShape
    <3>2. CASE doubted'
      BY <3>2 DEF FitInside
    <3>3. CASE ~doubted'
      <4>1. ~doubted /\ (train = NoDay \/ (trainEnd # NoDay /\ ~(train < trainEnd)))
        BY <2>1, <3>3
      <4>2. fitFor # NoDay /\ trainEnd # NoDay => fitFor <= trainEnd
        BY <1>1, <4>1 DEF FitInside
      <4> QED BY <2>1, <3>1, <4>1, <4>2 DEF FitInside
    <3> QED BY <3>2, <3>3
  <2> QED BY <2>1, <2>2, <2>3, <2>4, <2>5 DEF PreparationInv
<1>5. ASSUME NEW init_type \in {"fit_seq", "fit_ind", "load_state"}, SetupData(init_type)
      PROVE  PreparationInv'
  <2>1. /\ handlerEnd' = handlerEnd /\ fitEnd' = fitEnd /\ trainEnd' = trainEnd /\ pipeline' = pipeline
        /\ Setup(init_type, handlerEnd, fitEnd)
        /\ doubted' = (IF init_type = "load_state" THEN doubted
                       ELSE ~(fitEnd = NoDay \/ trainEnd = NoDay \/ fitEnd <= trainEnd))
    BY <1>5 DEF SetupData, FitEndAccepted
  <2>2. handlerEnd \in FrameEnds /\ fitEnd \in FrameEnds
    BY <1>1 DEF PreparationShape
  <2>3. /\ stats' \in StatsSet /\ frames' \in [{"raw", "infer", "learn"} -> Frames]
        /\ prepared' = "yes" /\ fitFor' = (IF init_type = "load_state" THEN fitFor ELSE fitEnd)
        /\ FlowTrue' /\ SeenToFit'
    BY <1>1, <2>1, <2>2, SetupIs
  <2>4. PreparationShape'
    BY <1>1, <2>1, <2>3 DEF PreparationShape
  <2>5. FitInside'
    <3>1. CASE init_type = "load_state"
      BY <1>1, <2>1, <2>3, <3>1 DEF FitInside
    <3>2. CASE init_type # "load_state"
      BY <2>1, <2>3, <3>2 DEF FitInside
    <3> QED BY <3>1, <3>2
  <2> QED BY <2>3, <2>4, <2>5 DEF PreparationInv
<1>6. CASE UNCHANGED preparationVars
  <2>1. /\ pipeline' = pipeline /\ handlerEnd' = handlerEnd /\ fitEnd' = fitEnd /\ trainEnd' = trainEnd
        /\ stats' = stats /\ frames' = frames /\ prepared' = prepared /\ fitFor' = fitFor /\ doubted' = doubted
    BY <1>6 DEF preparationVars
  <2> QED BY <1>1, <2>1 DEF PreparationInv, PreparationShape, FlowTrue, SeenToFit, FitInside, Passed, Path, StatsWithin
<1>7. CASE PreparationNext
  BY <1>3, <1>4, <1>5, <1>7 DEF PreparationNext, FrameEnds
<1> QED BY <1>6, <1>7

LEMMA PreparationMeans == PreparationInv => PreparationTrue
<1> SUFFICES ASSUME PreparationInv PROVE PreparationTrue
  OBVIOUS
<1>1. PreparationShape /\ FlowTrue /\ SeenToFit /\ FitInside
  BY DEF PreparationInv
<1>2. ASSUME prepared = "yes", fitFor # NoDay, trainEnd # NoDay, ~doubted,
             NEW k \in {"infer", "learn"}, NEW i \in DOMAIN frames[k].steps
      PROVE  frames[k].steps[i][3] <= trainEnd
  <2>1. fitFor <= trainEnd
    BY <1>1, <1>2 DEF FitInside
  <2>2. Bounded(frames[k], fitFor)
    BY <1>1, <1>2 DEF SeenToFit
  <2>3. frames[k].steps[i][3] <= fitFor
    BY <1>2, <2>2 DEF Bounded
  <2>4. frames[k] \in Frames /\ fitFor \in FrameEnds /\ trainEnd \in FrameEnds
    BY <1>1 DEF PreparationShape
  <2> DEFINE f == frames[k]
  <2> HIDE DEF f
  <2>5. f \in Frames
    BY <2>4 DEF f
  <2>6. \A j \in DOMAIN f.steps : f.steps[j][3] \in FrameEnds
    BY <2>5, StepsAre
  <2>7. frames[k].steps[i][3] \in Nat /\ fitFor \in Nat /\ trainEnd \in Nat
    BY <1>2, <2>4, <2>6, FrameParameters DEF f, FrameEnds
  <2> QED BY <2>1, <2>3, <2>7
<1>3. NoLeak
  BY <1>2 DEF NoLeak
<1> QED BY <1>1, <1>3 DEF PreparationTrue

(***************************************************************************)
(* However a dataset is configured, set up and fitted again, and whatever  *)
(* mix of processors writes in place, each of the three frames went        *)
(* through its own processors, in order, and through no other; and no      *)
(* value of a prepared frame depends on a statistic of days behind the     *)
(* train segment, unless config raised or moved it back after the fit      *)
(* (DataHandlerLP.process_data, DatasetH.config, setup_data).              *)
(***************************************************************************)
THEOREM PreparationIsTrue == PreparationSpec => []PreparationTrue
<1>1. PreparationInit => PreparationInv
  BY PreparationStarts
<1>2. PreparationInv /\ [PreparationNext]_preparationVars => PreparationInv'
  BY PreparationSteps
<1>3. PreparationInv => PreparationTrue
  BY PreparationMeans
<1> QED BY <1>1, <1>2, <1>3, PTL DEF PreparationSpec

-----------------------------------------------------------------------------
(* Expression: trees of any depth.                                          *)

\* U[k] has the trees of k levels of operators.
Levels(U, windowed) ==
    /\ U[0] = {Feature}
    /\ \A k \in 1..MaxNesting : U[k] = {Feature} \union Over(U[k - 1], windowed)

LEMMA LevelsExist ==
    ASSUME NEW windowed
    PROVE  \E U : Levels(U, windowed) /\ Expressions(windowed) = U[MaxNesting]
<1> DEFINE n == MaxNesting
           G(E) == {Feature} \union Over(E, windowed)
           Grows(f, m) == /\ f[0] = {Feature}
                          /\ \A k \in 1..m : f[k] = G(f[k - 1])
           D == {m \in Nat : \E f : Grows(f, m)}
<1>1. n \in Nat
  BY ExpressionAssumption DEF ExpressionAssumption
<1> DEFINE F(h) == [k \in 0..n |-> IF k = 0 THEN {Feature} ELSE G(h[k - 1])]
           U == CHOOSE h : h = F(h)
<1>2. Expressions(windowed) = U[n]
  BY DEF Expressions
<1> HIDE DEF G, n
<1>3. 0 \in D
  <2>1. Grows([k \in 0..0 |-> {Feature}], 0)
    OBVIOUS
  <2> HIDE DEF Grows
  <2> QED BY <2>1
<1>4. \A m \in D : m + 1 \in D
  <2> TAKE m \in D
  <2>1. PICK f : Grows(f, m)
    OBVIOUS
  <2> DEFINE g == [k \in 0..(m + 1) |-> IF k = m + 1 THEN G(f[m]) ELSE f[k]]
  <2>2. Grows(g, m + 1)
    <3>1. g[0] = {Feature}
      BY <2>1
    <3>2. ASSUME NEW k \in 1..(m + 1) PROVE g[k] = G(g[k - 1])
      <4>1. k - 1 \in 0..m /\ g[k - 1] = f[k - 1]
        OBVIOUS
      <4>2. g[k] = IF k = m + 1 THEN G(f[m]) ELSE f[k]
        OBVIOUS
      <4>3. k # m + 1 => f[k] = G(f[k - 1])
        BY <2>1
      <4>4. k = m + 1 => k - 1 = m
        OBVIOUS
      <4> HIDE DEF g
      <4> QED BY <4>1, <4>2, <4>3, <4>4
    <3> HIDE DEF g
    <3> QED BY <3>1, <3>2
  <2> HIDE DEF Grows, g
  <2> QED BY <2>2
<1>5. PICK f : Grows(f, n)
  <2>1. D \in SUBSET Nat
    OBVIOUS
  <2>2. n \in D
    <3> HIDE DEF D
    <3> QED BY <1>1, <1>3, <1>4, <2>1, AllNumbers
  <2> QED BY <2>2
<1>6. \E h : h = F(h)
  <2> DEFINE h == [k \in 0..n |-> f[k]]
  <2>1. ASSUME NEW k \in 0..n PROVE h[k] = IF k = 0 THEN {Feature} ELSE G(h[k - 1])
    <3>1. CASE k = 0
      BY <1>5, <3>1
    <3>2. CASE k # 0
      <4>1. k \in 1..n /\ k - 1 \in 0..n
        BY <1>1, <3>2
      <4>2. f[k] = G(f[k - 1])
        BY <1>5, <4>1
      <4> QED BY <3>2, <4>1, <4>2
    <3> QED BY <3>1, <3>2
  <2>2. h = F(h)
    <3> HIDE DEF Grows
    <3> SUFFICES \A k \in 0..n : h[k] = IF k = 0 THEN {Feature} ELSE G(h[k - 1])
      BY Zenon
    <3> QED BY <2>1
  <2> HIDE DEF h, F
  <2> QED BY <2>2
<1>7. U = F(U)
  <2> HIDE DEF F
  <2> QED BY <1>6
<1>8. \A k \in 0..n : U[k] = IF k = 0 THEN {Feature} ELSE G(U[k - 1])
  BY <1>7
<1> HIDE DEF U
<1>9. U[0] = {Feature}
  BY <1>1, <1>8
<1>10. ASSUME NEW k \in 1..n PROVE U[k] = G(U[k - 1])
  <2>1. k \in 0..n /\ k # 0
    BY <1>1
  <2> QED BY <1>8, <2>1
<1>11. Levels(U, windowed)
  BY <1>9, <1>10 DEF Levels, G, n
<1> QED BY <1>2, <1>11 DEF n

\* What a tree over other ones looks like.
Fits1(x, E, windowed) ==
    /\ x.op \in OneArg /\ x.arg \in E
    /\ x.op = "ref" => x.n \in Int
    /\ x.op \in {"rolling", "delta"} => x.op \in windowed /\ x.n \in 1..MaxWindow

Fits2(x, E) ==
    /\ x.op \in {"pair", "corr"} /\ x.left \in E
    /\ x.op = "pair" => x.right \in E \union {Number}
    /\ x.op = "corr" => x.right \in E /\ x.n \in 1..MaxWindow

LEMMA OverIs ==
    ASSUME NEW E, NEW windowed \in SUBSET {"rolling", "delta"}, NEW x \in Over(E, windowed)
    PROVE  (Fits1(x, E, windowed) \/ Fits2(x, E)) /\ x.op \notin {"feature", "number"}
<1>1. CASE x \in [op : {"elem"}, arg : E]
  BY <1>1 DEF Fits1, OneArg
<1>2. CASE x \in [op : {"ref"}, arg : E, n : (-MaxWindow..MaxWindow) \ {0}]
  BY <1>2 DEF Fits1, OneArg
<1>3. CASE x \in [op : windowed, arg : E, n : 1..MaxWindow]
  BY <1>3 DEF Fits1, OneArg
<1>4. CASE x \in [op : {"pair"}, left : E, right : E \union {Number}]
  BY <1>4 DEF Fits2
<1>5. CASE x \in [op : {"corr"}, left : E, right : E, n : 1..MaxWindow]
  BY <1>5 DEF Fits2
<1> QED BY <1>1, <1>2, <1>3, <1>4, <1>5 DEF Over

LEMMA OverGrows ==
    ASSUME NEW E, NEW F, E \subseteq F, NEW v, NEW w, v \subseteq w
    PROVE  Over(E, v) \subseteq Over(F, w)
<1> SUFFICES ASSUME NEW x \in Over(E, v) PROVE x \in Over(F, w)
  OBVIOUS
<1>1. CASE x \in [op : {"elem"}, arg : E]
  BY <1>1 DEF Over
<1>2. CASE x \in [op : {"ref"}, arg : E, n : (-MaxWindow..MaxWindow) \ {0}]
  BY <1>2 DEF Over
<1>3. CASE x \in [op : v, arg : E, n : 1..MaxWindow]
  BY <1>3 DEF Over
<1>4. CASE x \in [op : {"pair"}, left : E, right : E \union {Number}]
  BY <1>4 DEF Over
<1>5. CASE x \in [op : {"corr"}, left : E, right : E, n : 1..MaxWindow]
  BY <1>5 DEF Over
<1> QED BY <1>1, <1>2, <1>3, <1>4, <1>5 DEF Over

\* More levels and more operators make more trees.
LEMMA LevelsGrow ==
    ASSUME NEW v, NEW w, v \subseteq w, NEW U, Levels(U, v), NEW V, Levels(V, w)
    PROVE  /\ \A k \in 0..MaxNesting : U[k] \subseteq V[k]
           /\ \A k \in 1..MaxNesting : U[k - 1] \subseteq U[k]
<1>1. MaxNesting \in Nat
  BY ExpressionAssumption DEF ExpressionAssumption
<1>2. /\ U[0] = {Feature} /\ \A k \in 1..MaxNesting : U[k] = {Feature} \union Over(U[k - 1], v)
      /\ V[0] = {Feature} /\ \A k \in 1..MaxNesting : V[k] = {Feature} \union Over(V[k - 1], w)
  BY DEF Levels
<1> DEFINE D == {k \in Nat : k <= MaxNesting => U[k] \subseteq V[k] /\ (k > 0 => U[k - 1] \subseteq U[k])}
<1>3. 0 \in D
  BY <1>2
<1>4. ASSUME NEW k \in D PROVE k + 1 \in D
  <2> SUFFICES ASSUME k + 1 <= MaxNesting PROVE U[k + 1] \subseteq V[k + 1] /\ U[k] \subseteq U[k + 1]
    OBVIOUS
  <2>1. U[k] \subseteq V[k] /\ (k > 0 => U[k - 1] \subseteq U[k])
    BY <1>1
  <2>2. k + 1 \in 1..MaxNesting /\ (k + 1) - 1 = k /\ (k > 0 => k \in 1..MaxNesting)
    BY <1>1
  <2>3. U[k + 1] = {Feature} \union Over(U[k], v) /\ V[k + 1] = {Feature} \union Over(V[k], w)
    BY <1>2, <2>2
  <2>4. Over(U[k], v) \subseteq Over(V[k], w)
    BY <2>1, OverGrows
  <2>5. U[k] \subseteq U[k + 1]
    <3>1. CASE k = 0
      BY <1>2, <2>3, <3>1
    <3>2. CASE k > 0
      <4>1. Over(U[k - 1], v) \subseteq Over(U[k], v)
        BY <2>1, <3>2, OverGrows
      <4>2. U[k] = {Feature} \union Over(U[k - 1], v)
        BY <1>2, <2>2, <3>2
      <4> QED BY <2>3, <4>1, <4>2
    <3> QED BY <3>1, <3>2
  <2> QED BY <2>3, <2>4, <2>5
<1>5. D = Nat
  <2>1. D \in SUBSET Nat
    OBVIOUS
  <2> HIDE DEF D
  <2> QED BY <1>3, <1>4, <2>1, AllNumbers
<1>6. ASSUME NEW k \in 0..MaxNesting PROVE U[k] \subseteq V[k]
  <2>1. k \in D /\ k <= MaxNesting
    BY <1>1, <1>5
  <2> QED BY <2>1
<1>7. ASSUME NEW k \in 1..MaxNesting PROVE U[k - 1] \subseteq U[k]
  <2>1. k \in D /\ k <= MaxNesting /\ k > 0
    BY <1>1, <1>5
  <2> QED BY <2>1
<1> QED BY <1>6, <1>7

Windowed == {"rolling", "delta"}

\* The trees by levels, each over those of one level less.
Layered(U, windowed) ==
    /\ U[0] = {Feature} /\ Expressions(windowed) = U[MaxNesting]
    /\ \A k \in 1..MaxNesting : U[k - 1] \subseteq U[k]
    /\ \A k \in 0..MaxNesting : U[k] \subseteq Trees
    /\ \A k \in 1..MaxNesting : \A x \in U[k] :
          \/ x = Feature
          \/ /\ x # Feature
             /\ \/ Fits1(x, U[k - 1], windowed)
                \/ Fits2(x, U[k - 1]) /\ Number \notin U[k - 1]

LEMMA NoNumber ==
    ASSUME NEW U, NEW windowed \in SUBSET Windowed, Levels(U, windowed), NEW k \in 0..MaxNesting
    PROVE  Number \notin U[k]
<1>1. MaxNesting \in Nat
  BY ExpressionAssumption DEF ExpressionAssumption
<1>2. Number.op = "number" /\ Feature.op = "feature"
  BY DEF Number, Feature
<1>3. CASE k = 0
  BY <1>2, <1>3 DEF Levels
<1>4. CASE k # 0
  <2>1. U[k] = {Feature} \union Over(U[k - 1], windowed)
    BY <1>1, <1>4 DEF Levels
  <2>2. Number \notin Over(U[k - 1], windowed)
    BY <1>2, OverIs DEF Windowed
  <2> QED BY <1>2, <2>1, <2>2
<1> QED BY <1>3, <1>4

LEMMA TreesAre ==
    ASSUME NEW windowed \in SUBSET Windowed
    PROVE  \E U : Layered(U, windowed)
<1>1. PICK U : Levels(U, windowed) /\ Expressions(windowed) = U[MaxNesting]
  BY LevelsExist
<1>2. PICK V : Levels(V, Windowed) /\ Expressions(Windowed) = V[MaxNesting]
  BY LevelsExist
<1>3. MaxNesting \in Nat
  BY ExpressionAssumption DEF ExpressionAssumption
<1>4. \A k \in 0..MaxNesting : U[k] \subseteq V[k]
  BY <1>1, <1>2, LevelsGrow
<1>5. \A k \in 1..MaxNesting : V[k - 1] \subseteq V[k]
  BY <1>2, LevelsGrow
<1> DEFINE D == {m \in Nat : m <= MaxNesting => V[MaxNesting - m] \subseteq Trees}
<1>6. \A k \in 0..MaxNesting : V[k] \subseteq Trees
  <2>1. 0 \in D
    BY <1>2, <1>3 DEF Trees, Windowed
  <2>2. ASSUME NEW m \in D PROVE m + 1 \in D
    <3> SUFFICES ASSUME m + 1 <= MaxNesting PROVE V[MaxNesting - (m + 1)] \subseteq Trees
      OBVIOUS
    <3>1. MaxNesting - m \in 1..MaxNesting /\ (MaxNesting - m) - 1 = MaxNesting - (m + 1) /\ m <= MaxNesting
      BY <1>3
    <3> QED BY <1>5, <3>1
  <2>3. D \in SUBSET Nat
    OBVIOUS
  <2>4. D = Nat
    <3> HIDE DEF D
    <3> QED BY <2>1, <2>2, <2>3, AllNumbers
  <2> SUFFICES ASSUME NEW k \in 0..MaxNesting PROVE V[k] \subseteq Trees
    OBVIOUS
  <2>5. MaxNesting - k \in Nat /\ MaxNesting - k <= MaxNesting /\ MaxNesting - (MaxNesting - k) = k
    BY <1>3
  <2>6. MaxNesting - k \in D
    <3> HIDE DEF D
    <3> QED BY <2>4, <2>5
  <2> QED BY <2>5, <2>6
<1> HIDE DEF D
<1>7. ASSUME NEW k \in 0..MaxNesting PROVE U[k] \subseteq Trees
  BY <1>4, <1>6
<1>8. ASSUME NEW k \in 1..MaxNesting, NEW x \in U[k]
      PROVE  \/ x = Feature
             \/ /\ x # Feature
                /\ \/ Fits1(x, U[k - 1], windowed)
                   \/ Fits2(x, U[k - 1]) /\ Number \notin U[k - 1]
  <2>1. x = Feature \/ x \in Over(U[k - 1], windowed)
    BY <1>1 DEF Levels
  <2>2. k - 1 \in 0..MaxNesting
    BY <1>3
  <2>3. Number \notin U[k - 1]
    BY <1>1, <2>2, NoNumber
  <2>4. Feature.op = "feature"
    BY DEF Feature
  <2>5. x \in Over(U[k - 1], windowed) =>
           (Fits1(x, U[k - 1], windowed) \/ Fits2(x, U[k - 1])) /\ x.op \notin {"feature", "number"}
    BY OverIs DEF Windowed
  <2> QED BY <2>1, <2>3, <2>4, <2>5
<1>9. \A k \in 1..MaxNesting : U[k - 1] \subseteq U[k]
  BY <1>1, LevelsGrow
<1>10. Layered(U, windowed)
  BY <1>1, <1>7, <1>8, <1>9 DEF Layered, Levels
<1> QED BY <1>10

-----------------------------------------------------------------------------
(* What the recursive functions of Expression compute at each tree.         *)

LoadBody(h, x, leaf) ==
    IF x = Feature THEN leaf
    ELSE IF x.op \in OneArg THEN OverOne(x, h[x.arg])
    ELSE IF x.right = Number THEN h[x.left]
    ELSE OverTwo(x, h[x.left], h[x.right])

ExtensionBody(h, x) ==
    IF x = Feature THEN NoDays
    ELSE IF x.op \in OneArg THEN ExtensionOfOne(x, h[x.arg])
    ELSE ExtensionOfTwo(x, h[x.left], IF x.right = Number THEN NoDays ELSE h[x.right])

\* Only the values at the parts of a tree are used.
LEMMA PartsDecide ==
    ASSUME NEW U, Layered(U, Windowed), NEW k \in 1..MaxNesting, NEW x \in U[k],
           NEW f, NEW g, \A y \in U[k - 1] : f[y] = g[y]
    PROVE  /\ \A leaf : LoadBody(f, x, leaf) = LoadBody(g, x, leaf)
           /\ ExtensionBody(f, x) = ExtensionBody(g, x)
<1>1. CASE x = Feature
  BY <1>1 DEF LoadBody, ExtensionBody
<1>2. CASE x # Feature /\ Fits1(x, U[k - 1], Windowed)
  <2>1. f[x.arg] = g[x.arg] /\ x.op \in OneArg
    BY <1>2 DEF Fits1
  <2> QED BY <1>2, <2>1 DEF LoadBody, ExtensionBody
<1>3. CASE x # Feature /\ Fits2(x, U[k - 1])
  <2>1. f[x.left] = g[x.left] /\ (x.right = Number \/ f[x.right] = g[x.right])
    BY <1>3 DEF Fits2
  <2>2. x.op \notin OneArg
    BY <1>3 DEF Fits2, OneArg
  <2> QED BY <1>3, <2>1, <2>2 DEF LoadBody, ExtensionBody
<1> QED BY <1>1, <1>2, <1>3 DEF Layered

LEMMA LoadExists ==
    ASSUME NEW leaf
    PROVE  \E h : h = [x \in Trees |-> LoadBody(h, x, leaf)]
<1>1. PICK U : Layered(U, Windowed)
  BY TreesAre
<1>2. MaxNesting \in Nat
  BY ExpressionAssumption DEF ExpressionAssumption
<1> DEFINE Solves(f, m) == \A x \in U[m] : f[x] = LoadBody(f, x, leaf)
           D == {m \in Nat : m <= MaxNesting => \E f : Solves(f, m)}
<1>3. 0 \in D
  <2>1. Solves([x \in {Feature} |-> leaf], 0)
    BY <1>1 DEF Layered, LoadBody
  <2> HIDE DEF Solves
  <2> QED BY <2>1
<1>4. ASSUME NEW m \in D PROVE m + 1 \in D
  <2> SUFFICES ASSUME m + 1 <= MaxNesting PROVE \E g : Solves(g, m + 1)
    OBVIOUS
  <2>1. m <= MaxNesting /\ m + 1 \in 1..MaxNesting /\ (m + 1) - 1 = m
    BY <1>2
  <2>2. PICK f : Solves(f, m)
    BY <2>1
  <2> DEFINE g == [x \in U[m + 1] |-> LoadBody(f, x, leaf)]
  <2>3. U[m] \subseteq U[m + 1]
    BY <1>1, <2>1 DEF Layered, Trees, Windowed
  <2>4. ASSUME NEW y \in U[m] PROVE f[y] = g[y]
    <3>1. y \in U[m + 1] /\ f[y] = LoadBody(f, y, leaf)
      BY <2>2, <2>3
    <3> QED BY <3>1
  <2>5. ASSUME NEW x \in U[m + 1] PROVE g[x] = LoadBody(g, x, leaf)
    <3>1. g[x] = LoadBody(f, x, leaf)
      OBVIOUS
    <3> HIDE DEF g
    <3>2. LoadBody(f, x, leaf) = LoadBody(g, x, leaf)
      BY <1>1, <2>1, <2>4, PartsDecide
    <3> QED BY <3>1, <3>2
  <2> HIDE DEF g
  <2> QED BY <2>5
<1>5. PICK f : Solves(f, MaxNesting)
  <2>1. D \in SUBSET Nat
    OBVIOUS
  <2>2. MaxNesting \in D
    <3> HIDE DEF D
    <3> QED BY <1>2, <1>3, <1>4, <2>1, AllNumbers
  <2> QED BY <1>2, <2>2
<1> DEFINE h == [x \in Trees |-> f[x]]
<1>6. ASSUME NEW x \in Trees PROVE h[x] = LoadBody(h, x, leaf)
  <2>1. x \in U[MaxNesting] /\ h[x] = LoadBody(f, x, leaf)
    BY <1>1, <1>5 DEF Layered, Trees, Windowed
  <2>2. CASE x = Feature
    BY <2>1, <2>2 DEF LoadBody
  <2>3. CASE MaxNesting # 0
    <3>1. MaxNesting \in 1..MaxNesting /\ MaxNesting - 1 \in 0..MaxNesting
      BY <1>2, <2>3
    <3>2. U[MaxNesting - 1] \subseteq Trees
      BY <1>1, <3>1 DEF Layered
    <3>3. \A y \in U[MaxNesting - 1] : f[y] = h[y]
      BY <3>2
    <3> HIDE DEF h
    <3>4. LoadBody(f, x, leaf) = LoadBody(h, x, leaf)
      BY <1>1, <2>1, <3>1, <3>3, PartsDecide
    <3> QED BY <2>1, <3>4
  <2>4. MaxNesting = 0 => x = Feature
    BY <1>1, <2>1 DEF Layered, Trees, Windowed
  <2> QED BY <2>2, <2>3, <2>4
<1>7. h = [x \in Trees |-> LoadBody(h, x, leaf)]
  <2> SUFFICES \A x \in Trees : h[x] = LoadBody(h, x, leaf)
    OBVIOUS
  <2> HIDE DEF h
  <2> QED BY <1>6
<1> HIDE DEF h
<1> QED BY <1>7

LEMMA ExtensionExists == \E h : h = [x \in Trees |-> ExtensionBody(h, x)]
<1>1. PICK U : Layered(U, Windowed)
  BY TreesAre
<1>2. MaxNesting \in Nat
  BY ExpressionAssumption DEF ExpressionAssumption
<1> DEFINE Solves(f, m) == \A x \in U[m] : f[x] = ExtensionBody(f, x)
           D == {m \in Nat : m <= MaxNesting => \E f : Solves(f, m)}
<1>3. 0 \in D
  <2>1. Solves([x \in {Feature} |-> NoDays], 0)
    BY <1>1 DEF Layered, ExtensionBody
  <2> HIDE DEF Solves
  <2> QED BY <2>1
<1>4. ASSUME NEW m \in D PROVE m + 1 \in D
  <2> SUFFICES ASSUME m + 1 <= MaxNesting PROVE \E g : Solves(g, m + 1)
    OBVIOUS
  <2>1. m <= MaxNesting /\ m + 1 \in 1..MaxNesting /\ (m + 1) - 1 = m
    BY <1>2
  <2>2. PICK f : Solves(f, m)
    BY <2>1
  <2> DEFINE g == [x \in U[m + 1] |-> ExtensionBody(f, x)]
  <2>3. U[m] \subseteq U[m + 1]
    BY <1>1, <2>1 DEF Layered, Trees, Windowed
  <2>4. ASSUME NEW y \in U[m] PROVE f[y] = g[y]
    <3>1. y \in U[m + 1] /\ f[y] = ExtensionBody(f, y)
      BY <2>2, <2>3
    <3> QED BY <3>1
  <2>5. ASSUME NEW x \in U[m + 1] PROVE g[x] = ExtensionBody(g, x)
    <3>1. g[x] = ExtensionBody(f, x)
      OBVIOUS
    <3> HIDE DEF g
    <3>2. ExtensionBody(f, x) = ExtensionBody(g, x)
      BY <1>1, <2>1, <2>4, PartsDecide
    <3> QED BY <3>1, <3>2
  <2> HIDE DEF g
  <2> QED BY <2>5
<1>5. PICK f : Solves(f, MaxNesting)
  <2>1. D \in SUBSET Nat
    OBVIOUS
  <2>2. MaxNesting \in D
    <3> HIDE DEF D
    <3> QED BY <1>2, <1>3, <1>4, <2>1, AllNumbers
  <2> QED BY <1>2, <2>2
<1> DEFINE h == [x \in Trees |-> f[x]]
<1>6. ASSUME NEW x \in Trees PROVE h[x] = ExtensionBody(h, x)
  <2>1. x \in U[MaxNesting] /\ h[x] = ExtensionBody(f, x)
    BY <1>1, <1>5 DEF Layered, Trees, Windowed
  <2>2. CASE x = Feature
    BY <2>1, <2>2 DEF ExtensionBody
  <2>3. CASE MaxNesting # 0
    <3>1. MaxNesting \in 1..MaxNesting /\ MaxNesting - 1 \in 0..MaxNesting
      BY <1>2, <2>3
    <3>2. U[MaxNesting - 1] \subseteq Trees
      BY <1>1, <3>1 DEF Layered
    <3>3. \A y \in U[MaxNesting - 1] : f[y] = h[y]
      BY <3>2
    <3> HIDE DEF h
    <3>4. ExtensionBody(f, x) = ExtensionBody(h, x)
      BY <1>1, <2>1, <3>1, <3>3, PartsDecide
    <3> QED BY <2>1, <3>4
  <2>4. MaxNesting = 0 => x = Feature
    BY <1>1, <2>1 DEF Layered, Trees, Windowed
  <2> QED BY <2>2, <2>3, <2>4
<1>7. h = [x \in Trees |-> ExtensionBody(h, x)]
  <2> SUFFICES \A x \in Trees : h[x] = ExtensionBody(h, x)
    OBVIOUS
  <2> HIDE DEF h
  <2> QED BY <1>6
<1> HIDE DEF h
<1> QED BY <1>7

Leaf(raw, a, b) == [d \in a..b \intersect raw.first..raw.last |-> <<d>>]

LEMMA LoadIs ==
    ASSUME NEW raw, NEW a, NEW b
    PROVE  \E h : /\ \A x \in Trees : h[x] = LoadBody(h, x, Leaf(raw, a, b))
                  /\ \A x : LoadSeries(x, raw, a, b) = h[x]
<1> DEFINE leaf == Leaf(raw, a, b)
           F(h) == [x \in Trees |-> LoadBody(h, x, leaf)]
           h == CHOOSE f : f = F(f)
<1>1. \A x : LoadSeries(x, raw, a, b) = h[x]
  BY DEF LoadSeries, LoadBody, Leaf
<1> HIDE DEF leaf
<1>2. \E f : f = F(f)
  BY LoadExists
<1>3. h = F(h)
  <2> HIDE DEF F
  <2> QED BY <1>2
<1> HIDE DEF h
<1>4. \A x \in Trees : h[x] = LoadBody(h, x, leaf)
  BY <1>3
<1> QED BY <1>1, <1>4 DEF leaf

LEMMA ExtensionIs ==
    \E h : /\ \A x \in Trees : h[x] = ExtensionBody(h, x)
           /\ \A x : Extension(x) = h[x]
<1> DEFINE F(h) == [x \in Trees |-> ExtensionBody(h, x)]
           h == CHOOSE f : f = F(f)
<1>1. \A x : Extension(x) = h[x]
  BY DEF Extension, ExtensionBody
<1>2. \E f : f = F(f)
  BY ExtensionExists
<1>3. h = F(h)
  <2> HIDE DEF F
  <2> QED BY <1>2
<1> HIDE DEF h
<1>4. \A x \in Trees : h[x] = ExtensionBody(h, x)
  BY <1>3
<1> QED BY <1>1, <1>4

-----------------------------------------------------------------------------
(* A series loaded from a to b is the whole series, but for the days too    *)
(* near to the ends.                                                       *)

\* Far enough from both ends of what is loaded.
RangeInside(d, e, a, b) == (a = 0 \/ a <= d - e.left) /\ d + e.right <= b

Local(part, whole, e, raw, a, b) ==
    /\ e.left \in Nat /\ e.right \in Nat
    /\ DOMAIN part = a..b \intersect raw.first..raw.last
    /\ DOMAIN whole = raw.first..raw.last
    /\ \A d \in DOMAIN part : RangeInside(d, e, a, b) => part[d] = whole[d]

\* What is right far from the ends is right farther from them.
LEMMA WidestLocal ==
    ASSUME NEW raw \in DayRange, NEW a \in Nat, NEW b \in Nat,
           NEW part, NEW whole, NEW e, NEW f,
           Local(part, whole, e, raw, a, b), f.left \in Nat, f.right \in Nat
    PROVE  /\ Local(part, whole, Widest(e, f), raw, a, b)
           /\ Local(part, whole, Widest(f, e), raw, a, b)
<1>1. raw.first \in Int /\ raw.last \in Int
  BY DEF DayRange
<1>2. e.left \in Nat /\ e.right \in Nat /\ DOMAIN part = a..b \intersect raw.first..raw.last
  BY DEF Local
<1> DEFINE l == Max({e.left, f.left})
           r == Max({e.right, f.right})
<1>3. l \in Nat /\ r \in Nat /\ l >= e.left /\ r >= e.right
  BY <1>2, MaxOfTwo
<1>4. Max({f.left, e.left}) = l /\ Max({f.right, e.right}) = r
  <2>1. {f.left, e.left} = {e.left, f.left} /\ {f.right, e.right} = {e.right, f.right}
    OBVIOUS
  <2> QED BY <2>1
<1> HIDE DEF l, r
<1>5. ASSUME NEW w, w.left = l, w.right = r PROVE Local(part, whole, w, raw, a, b)
  <2>1. ASSUME NEW d \in DOMAIN part, RangeInside(d, w, a, b) PROVE part[d] = whole[d]
    <3>1. d \in Int
      BY <1>1, <1>2
    <3>2. RangeInside(d, e, a, b)
      BY <1>2, <1>3, <1>5, <2>1, <3>1 DEF RangeInside
    <3> QED BY <3>2 DEF Local
  <2> QED BY <1>3, <1>5, <2>1 DEF Local
<1>6. Widest(e, f).left = l /\ Widest(e, f).right = r
  BY DEF Widest, l, r
<1>7. Widest(f, e).left = l /\ Widest(f, e).right = r
  BY <1>4 DEF Widest
<1> QED BY <1>5, <1>6, <1>7

LEMMA BothLocal ==
    ASSUME NEW raw, NEW a, NEW b, NEW e, NEW p, NEW v, NEW q, NEW w,
           Local(p, v, e, raw, a, b), Local(q, w, e, raw, a, b)
    PROVE  Local(Both(p, q), Both(v, w), e, raw, a, b)
<1>1. DOMAIN Both(p, q) = DOMAIN p /\ DOMAIN Both(v, w) = DOMAIN v
  BY DEF Both
<1>2. DOMAIN p = DOMAIN q /\ DOMAIN p \subseteq DOMAIN v
  BY DEF Local
<1>3. ASSUME NEW d \in DOMAIN p, RangeInside(d, e, a, b) PROVE Both(p, q)[d] = Both(v, w)[d]
  <2>1. p[d] = v[d] /\ q[d] = w[d] /\ d \in DOMAIN v
    BY <1>2, <1>3 DEF Local
  <2> QED BY <2>1 DEF Both
<1> QED BY <1>1, <1>3 DEF Local

LEMMA ShiftLocal ==
    ASSUME NEW raw \in DayRange, NEW a \in Nat, NEW b \in Nat, NEW n \in Int,
           NEW part, NEW whole, NEW e, Local(part, whole, e, raw, a, b)
    PROVE  Local(Shift(part, n), Shift(whole, n), RefExtension(e, n), raw, a, b)
<1> DEFINE w == RefExtension(e, n)
<1>1. raw.first \in Nat /\ raw.last \in Nat
  BY ExpressionAssumption DEF DayRange, ExpressionAssumption
<1>2. /\ e.left \in Nat /\ e.right \in Nat /\ DOMAIN part = a..b \intersect raw.first..raw.last
      /\ DOMAIN whole = raw.first..raw.last
  BY DEF Local
<1>3. /\ w.left \in Nat /\ w.left >= e.left /\ w.left >= e.left + n
      /\ w.right \in Nat /\ w.right >= e.right /\ w.right >= e.right - n
  <2>1. w.left = Max({e.left + n, e.left}) /\ w.right = Max({e.right - n, e.right})
    BY DEF RefExtension
  <2> HIDE DEF w
  <2> QED BY <1>2, <2>1, MaxOfTwo
<1> HIDE DEF w
<1>4. DOMAIN Shift(part, n) = DOMAIN part /\ DOMAIN Shift(whole, n) = DOMAIN whole
  BY DEF Shift
<1>5. ASSUME NEW d \in DOMAIN part, RangeInside(d, w, a, b) PROVE Shift(part, n)[d] = Shift(whole, n)[d]
  <2>1. d \in Nat /\ d \in DOMAIN whole /\ d >= a /\ d <= b
    BY <1>1, <1>2
  <2>2. Shift(part, n)[d] = IF d - n \in DOMAIN part THEN part[d - n] ELSE <<>>
    BY DEF Shift
  <2>3. Shift(whole, n)[d] = IF d - n \in DOMAIN whole THEN whole[d - n] ELSE <<>>
    BY <2>1 DEF Shift
  <2>4. d - n \in DOMAIN whole => d - n \in DOMAIN part /\ RangeInside(d - n, e, a, b)
    <3> SUFFICES ASSUME d - n \in raw.first..raw.last
                 PROVE  d - n \in a..b /\ RangeInside(d - n, e, a, b)
      BY <1>2
    <3>1. (a = 0 \/ a <= d - w.left) /\ d + w.right <= b
      BY <1>5 DEF RangeInside
    <3>2. d - n >= 0
      BY <1>1
    <3>3. (a = 0 \/ a <= (d - n) - e.left) /\ (d - n) + e.right <= b
      BY <1>2, <1>3, <2>1, <3>1, SMTT(30)
    <3>4. d - n >= a /\ d - n <= b
      BY <1>2, <2>1, <3>2, <3>3
    <3> QED BY <2>1, <3>3, <3>4 DEF RangeInside
  <2>5. d - n \in DOMAIN part => d - n \in DOMAIN whole
    BY <1>2
  <2>6. d - n \in DOMAIN part => part[d - n] = whole[d - n]
    BY <2>4, <2>5 DEF Local
  <2> QED BY <2>2, <2>3, <2>4, <2>5, <2>6
<1> QED BY <1>2, <1>3, <1>4, <1>5 DEF Local, w

LEMMA WindowsLocal ==
    ASSUME NEW raw \in DayRange, NEW a \in Nat, NEW b \in Nat, NEW n \in Nat \ {0},
           NEW part, NEW whole, NEW e, Local(part, whole, e, raw, a, b)
    PROVE  Local(Windows(part, n), Windows(whole, n), Longer(e, n), raw, a, b)
<1> DEFINE w == Longer(e, n)
<1>1. raw.first \in Nat /\ raw.last \in Nat
  BY ExpressionAssumption DEF DayRange, ExpressionAssumption
<1>2. /\ e.left \in Nat /\ e.right \in Nat /\ DOMAIN part = a..b \intersect raw.first..raw.last
      /\ DOMAIN whole = raw.first..raw.last
  BY DEF Local
<1>3. w.left = e.left + n - 1 /\ w.left \in Nat /\ w.right = e.right
  BY <1>2 DEF Longer
<1> HIDE DEF w
<1>4. DOMAIN Windows(part, n) = DOMAIN part /\ DOMAIN Windows(whole, n) = DOMAIN whole
  BY DEF Windows
<1>5. ASSUME NEW d \in DOMAIN part, RangeInside(d, w, a, b) PROVE Windows(part, n)[d] = Windows(whole, n)[d]
  <2>1. d \in Nat /\ d \in DOMAIN whole /\ d >= a /\ d <= b
    BY <1>1, <1>2
  <2> DEFINE p == [i \in 1..n |-> IF d - n + i \in DOMAIN part THEN part[d - n + i] ELSE <<>>]
             q == [i \in 1..n |-> IF d - n + i \in DOMAIN whole THEN whole[d - n + i] ELSE <<>>]
  <2>2. Windows(part, n)[d] = FlattenSeq(p)
    BY DEF Windows
  <2>3. Windows(whole, n)[d] = FlattenSeq(q)
    BY <2>1 DEF Windows
  <2>4. ASSUME NEW i \in 1..n
        PROVE  (IF d - n + i \in DOMAIN part THEN part[d - n + i] ELSE <<>>)
             = (IF d - n + i \in DOMAIN whole THEN whole[d - n + i] ELSE <<>>)
    <3> DEFINE j == d - n + i
    <3>1. j \in Int /\ j <= d /\ j >= d - n + 1
      BY <2>1
    <3> HIDE DEF j
    <3>2. j \in DOMAIN whole => j \in DOMAIN part /\ RangeInside(j, e, a, b)
      <4> SUFFICES ASSUME j \in raw.first..raw.last
                   PROVE  j \in a..b /\ RangeInside(j, e, a, b)
        BY <1>2
      <4>1. (a = 0 \/ a <= d - w.left) /\ d + w.right <= b
        BY <1>5 DEF RangeInside
      <4>2. j >= 0
        BY <1>1
      <4>3. (a = 0 \/ a <= j - e.left) /\ j + e.right <= b
        BY <1>2, <1>3, <2>1, <3>1, <4>1, SMTT(30)
      <4>4. j >= a /\ j <= b
        BY <1>2, <2>1, <3>1, <4>2, <4>3, SMTT(30)
      <4> QED BY <3>1, <4>3, <4>4 DEF RangeInside
    <3>3. j \in DOMAIN part => j \in DOMAIN whole
      BY <1>2
    <3>4. j \in DOMAIN part => part[j] = whole[j]
      BY <3>2, <3>3 DEF Local
    <3>5. (IF j \in DOMAIN part THEN part[j] ELSE <<>>) = (IF j \in DOMAIN whole THEN whole[j] ELSE <<>>)
      BY <3>2, <3>3, <3>4
    <3> QED BY <3>5 DEF j
  <2>5. p = q
    BY <2>4
  <2> HIDE DEF p, q
  <2> QED BY <2>2, <2>3, <2>5
<1> QED BY <1>2, <1>3, <1>4, <1>5 DEF Local, w

\* The series of a tree, from those of its parts.
LEMMA NestedLocal ==
    ASSUME NEW raw \in DayRange, NEW a \in Nat, NEW b \in Nat,
           NEW p, NEW v, NEW e, NEW E,
           \A y \in E : Local(p[y], v[y], e[y], raw, a, b),
           NEW x, x # Feature,
           Fits1(x, E, {"rolling"}) \/ (Fits2(x, E) /\ Number \notin E),
           NEW leaf, NEW all
    PROVE  Local(LoadBody(p, x, leaf), LoadBody(v, x, all), ExtensionBody(e, x), raw, a, b)
<1>1. CASE Fits1(x, E, {"rolling"})
  <2>1. x.arg \in E /\ x.op \in OneArg /\ Local(p[x.arg], v[x.arg], e[x.arg], raw, a, b)
    BY <1>1 DEF Fits1
  <2>2. /\ LoadBody(p, x, leaf) = OverOne(x, p[x.arg]) /\ LoadBody(v, x, all) = OverOne(x, v[x.arg])
        /\ ExtensionBody(e, x) = ExtensionOfOne(x, e[x.arg])
    BY <2>1 DEF LoadBody, ExtensionBody
  <2>3. CASE x.op = "elem"
    BY <2>1, <2>2, <2>3 DEF OverOne, ExtensionOfOne
  <2>4. CASE x.op = "ref"
    <3>1. x.n \in Int
      BY <1>1, <2>4 DEF Fits1
    <3>2. Local(Shift(p[x.arg], x.n), Shift(v[x.arg], x.n), RefExtension(e[x.arg], x.n), raw, a, b)
      BY <2>1, <3>1, ShiftLocal
    <3>3. /\ OverOne(x, p[x.arg]) = Shift(p[x.arg], x.n) /\ OverOne(x, v[x.arg]) = Shift(v[x.arg], x.n)
          /\ ExtensionOfOne(x, e[x.arg]) = RefExtension(e[x.arg], x.n)
      BY <2>4 DEF OverOne, ExtensionOfOne
    <3> QED BY <2>2, <3>2, <3>3
  <2>5. CASE x.op \in {"rolling", "delta"}
    <3>1. x.op = "rolling" /\ x.n \in Nat \ {0}
      BY <1>1, <2>5, ExpressionAssumption DEF Fits1, ExpressionAssumption
    <3>2. Local(Windows(p[x.arg], x.n), Windows(v[x.arg], x.n), Longer(e[x.arg], x.n), raw, a, b)
      BY <2>1, <3>1, WindowsLocal
    <3>3. /\ OverOne(x, p[x.arg]) = Windows(p[x.arg], x.n) /\ OverOne(x, v[x.arg]) = Windows(v[x.arg], x.n)
          /\ ExtensionOfOne(x, e[x.arg]) = Longer(e[x.arg], x.n)
      BY <3>1 DEF OverOne, ExtensionOfOne
    <3> QED BY <2>2, <3>2, <3>3
  <2> QED BY <2>1, <2>3, <2>4, <2>5 DEF OneArg
<1>2. CASE Fits2(x, E) /\ Number \notin E
  <2>1. x.left \in E /\ x.op \notin OneArg /\ Local(p[x.left], v[x.left], e[x.left], raw, a, b)
    BY <1>2 DEF Fits2, OneArg
  <2>2. e[x.left].left \in Nat /\ e[x.left].right \in Nat
    BY <2>1 DEF Local
  <2>3. CASE x.right = Number
    <3>1. x.op = "pair"
      BY <1>2, <2>3 DEF Fits2
    <3>2. /\ LoadBody(p, x, leaf) = p[x.left] /\ LoadBody(v, x, all) = v[x.left]
          /\ ExtensionBody(e, x) = Widest(e[x.left], NoDays)
      BY <2>1, <2>3, <3>1 DEF LoadBody, ExtensionBody, ExtensionOfTwo
    <3>3. NoDays.left \in Nat /\ NoDays.right \in Nat
      BY DEF NoDays
    <3>4. Local(p[x.left], v[x.left], Widest(e[x.left], NoDays), raw, a, b)
      BY <2>1, <3>3, WidestLocal
    <3> QED BY <3>2, <3>4
  <2>4. CASE x.right # Number
    <3>1. x.right \in E /\ Local(p[x.right], v[x.right], e[x.right], raw, a, b)
      BY <1>2, <2>4 DEF Fits2
    <3>2. e[x.right].left \in Nat /\ e[x.right].right \in Nat
      BY <3>1 DEF Local
    <3> DEFINE w == Widest(e[x.left], e[x.right])
    <3>3. Local(p[x.left], v[x.left], w, raw, a, b)
      BY <2>1, <3>2, WidestLocal
    <3>4. Local(p[x.right], v[x.right], w, raw, a, b)
      BY <2>2, <3>1, WidestLocal
    <3>5. Local(Both(p[x.left], p[x.right]), Both(v[x.left], v[x.right]), w, raw, a, b)
      BY <3>3, <3>4, BothLocal
    <3>6. /\ LoadBody(p, x, leaf) = OverTwo(x, p[x.left], p[x.right])
          /\ LoadBody(v, x, all) = OverTwo(x, v[x.left], v[x.right])
          /\ ExtensionBody(e, x) = ExtensionOfTwo(x, e[x.left], e[x.right])
      BY <1>2, <2>1, <2>4 DEF LoadBody, ExtensionBody
    <3>7. CASE x.op = "pair"
      BY <3>5, <3>6, <3>7 DEF OverTwo, ExtensionOfTwo
    <3>8. CASE x.op = "corr"
      <4>1. x.n \in Nat \ {0}
        BY <1>2, <3>8, ExpressionAssumption DEF Fits2, ExpressionAssumption
      <4>2. /\ OverTwo(x, p[x.left], p[x.right]) = Windows(Both(p[x.left], p[x.right]), x.n)
            /\ OverTwo(x, v[x.left], v[x.right]) = Windows(Both(v[x.left], v[x.right]), x.n)
            /\ ExtensionOfTwo(x, e[x.left], e[x.right]) = Longer(w, x.n)
        BY <3>8 DEF OverTwo, ExtensionOfTwo
      <4> HIDE DEF w
      <4>3. Local(Windows(Both(p[x.left], p[x.right]), x.n), Windows(Both(v[x.left], v[x.right]), x.n),
                  Longer(w, x.n), raw, a, b)
        BY <3>5, <4>1, WindowsLocal
      <4> QED BY <3>6, <4>2, <4>3
    <3> QED BY <1>2, <3>7, <3>8 DEF Fits2
  <2> QED BY <2>3, <2>4
<1> QED BY <1>1, <1>2

\* A series loaded from a to b is right but for the days that Extension names.
LEMMA LoadLocal ==
    ASSUME NEW raw \in DayRange, NEW a \in Nat, NEW b \in Nat, NEW t \in Expressions({"rolling"})
    PROVE  Local(LoadSeries(t, raw, a, b), LoadSeries(t, raw, 0, MaxDay), Extension(t), raw, a, b)
<1>1. PICK U : Layered(U, {"rolling"})
  BY TreesAre DEF Windowed
<1> DEFINE leaf == Leaf(raw, a, b)
           all  == Leaf(raw, 0, MaxDay)
<1>2. PICK p : /\ \A x \in Trees : p[x] = LoadBody(p, x, leaf)
               /\ \A x : LoadSeries(x, raw, a, b) = p[x]
  BY LoadIs
<1>3. PICK v : /\ \A x \in Trees : v[x] = LoadBody(v, x, all)
               /\ \A x : LoadSeries(x, raw, 0, MaxDay) = v[x]
  BY LoadIs
<1>4. PICK e : /\ \A x \in Trees : e[x] = ExtensionBody(e, x)
               /\ \A x : Extension(x) = e[x]
  BY ExtensionIs
<1>5. MaxNesting \in Nat /\ MaxDay \in Nat
  BY ExpressionAssumption DEF ExpressionAssumption
<1>6. Local(leaf, all, NoDays, raw, a, b)
  <2>1. raw.first \in 0..MaxDay /\ raw.last \in 0..MaxDay
    BY DEF DayRange
  <2>2. DOMAIN all = raw.first..raw.last
    BY <1>5, <2>1 DEF Leaf
  <2>3. DOMAIN leaf = a..b \intersect raw.first..raw.last
    BY DEF Leaf
  <2>4. NoDays.left \in Nat /\ NoDays.right \in Nat
    BY DEF NoDays
  <2>5. ASSUME NEW d \in DOMAIN leaf PROVE leaf[d] = all[d]
    <3>1. leaf[d] = <<d>>
      BY <2>3 DEF Leaf
    <3>2. d \in DOMAIN all
      BY <2>2, <2>3
    <3>3. all[d] = <<d>>
      BY <3>2 DEF Leaf
    <3> QED BY <3>1, <3>3
  <2> HIDE DEF leaf, all
  <2> QED BY <2>2, <2>3, <2>4, <2>5 DEF Local
<1>7. Local(p[Feature], v[Feature], e[Feature], raw, a, b)
  <2>1. Feature \in Trees
    BY <1>1, <1>5 DEF Layered
  <2>2. p[Feature] = leaf /\ v[Feature] = all /\ e[Feature] = NoDays
    <3>1. p[Feature] = LoadBody(p, Feature, leaf) /\ v[Feature] = LoadBody(v, Feature, all)
          /\ e[Feature] = ExtensionBody(e, Feature)
      BY <1>2, <1>3, <1>4, <2>1
    <3> HIDE DEF leaf, all
    <3> QED BY <3>1 DEF LoadBody, ExtensionBody
  <2> HIDE DEF leaf, all
  <2> QED BY <1>6, <2>2
<1> HIDE DEF leaf, all
<1> DEFINE Good(x) == Local(p[x], v[x], e[x], raw, a, b)
           D == {k \in Nat : k <= MaxNesting => \A x \in U[k] : Good(x)}
<1>8. 0 \in D
  BY <1>1, <1>7 DEF Layered
<1>9. ASSUME NEW k \in D PROVE k + 1 \in D
  <2> SUFFICES ASSUME k + 1 <= MaxNesting, NEW x \in U[k + 1] PROVE Good(x)
    OBVIOUS
  <2>1. k <= MaxNesting /\ k + 1 \in 1..MaxNesting /\ k + 1 \in 0..MaxNesting /\ (k + 1) - 1 = k
    BY <1>5
  <2>2. \A y \in U[k] : Good(y)
    BY <2>1
  <2>3. CASE x = Feature
    BY <1>7, <2>3
  <2>4. CASE x # Feature
    <3>1. Fits1(x, U[k], {"rolling"}) \/ (Fits2(x, U[k]) /\ Number \notin U[k])
      BY <1>1, <2>1, <2>4 DEF Layered
    <3>2. x \in Trees
      BY <1>1, <2>1 DEF Layered
    <3>3. Local(LoadBody(p, x, leaf), LoadBody(v, x, all), ExtensionBody(e, x), raw, a, b)
      BY <2>2, <2>4, <3>1, NestedLocal
    <3> QED BY <1>2, <1>3, <1>4, <3>2, <3>3
  <2> QED BY <2>3, <2>4
<1>10. \A x \in U[MaxNesting] : Good(x)
  <2>1. D \in SUBSET Nat
    OBVIOUS
  <2>2. MaxNesting \in D
    <3> HIDE DEF D
    <3> QED BY <1>5, <1>8, <1>9, <2>1, AllNumbers
  <2> QED BY <1>5, <2>2
<1>11. Good(t)
  BY <1>1, <1>10 DEF Layered
<1> QED BY <1>2, <1>3, <1>4, <1>11

-----------------------------------------------------------------------------

ExpressionInv ==
    /\ tree \in Trees /\ stored \in DayRange /\ asks \in DayRange
    /\ WindowEnough

\* A query for some days gets what a query for all days would say about them, for every
\* expression without Delta, however deep its operators are nested and whatever their windows,
\* wherever the raw values begin and end: get_extended_window_size asks for enough days.
THEOREM WindowsAreEnough == ExpressionSpec => []WindowEnough
<1>1. ExpressionInit => ExpressionInv
  BY DEF ExpressionInit, ExpressionInv, WindowEnough, Unanswered
<1>2. ExpressionInv /\ [ExpressionNext]_expressionVars => ExpressionInv'
  <2> SUFFICES ASSUME ExpressionInv, [ExpressionNext]_expressionVars PROVE ExpressionInv'
    OBVIOUS
  <2>1. CASE Evaluate
    <3>1. tree' = tree /\ stored' = stored /\ asks' = asks
      BY <2>1 DEF Evaluate
    <3>2. stored \in DayRange /\ asks \in DayRange /\ tree \in Trees
      BY DEF ExpressionInv
    <3>3. ASSUME tree \in Expressions({"rolling"}) PROVE answer'.series = Whole
      <4> DEFINE w == Extension(tree)
                 a == Max({0, asks.first - w.left})
                 b == asks.last + w.right
                 part  == LoadSeries(tree, stored, a, b)
                 whole == LoadSeries(tree, stored, 0, MaxDay)
      <4>1. answer'.series = Slice(part, asks)
        BY <2>1 DEF Evaluate
      <4>2. asks.first \in Nat /\ asks.last \in Nat /\ asks.first <= asks.last
        BY <3>2, ExpressionAssumption DEF DayRange, ExpressionAssumption
      <4> HIDE DEF w
      <4>3. w.left \in Nat /\ w.right \in Nat
        <5>1. Local(LoadSeries(tree, stored, 0, 0), whole, w, stored, 0, 0)
          BY <3>2, <3>3, LoadLocal DEF w
        <5> QED BY <5>1 DEF Local
      <4>4. a \in Nat /\ (a = 0 \/ a = asks.first - w.left) /\ b \in Nat
        <5>1. asks.first - w.left \in Int
          BY <4>2, <4>3
        <5>2. a = IF 0 >= asks.first - w.left THEN 0 ELSE asks.first - w.left
          BY <5>1, MaxOfTwo
        <5> HIDE DEF a
        <5> QED BY <4>2, <4>3, <5>1, <5>2
      <4>5. a <= asks.first /\ b >= asks.last
        BY <4>2, <4>3, <4>4
      <4> HIDE DEF a, b
      <4>6. Local(part, whole, w, stored, a, b)
        BY <3>2, <3>3, <4>4, LoadLocal DEF w
      <4> HIDE DEF part, whole
      <4> DEFINE days == stored.first..stored.last \intersect asks.first..asks.last
      <4>7. stored.first \in Nat /\ stored.last \in Nat
        BY <3>2, ExpressionAssumption DEF DayRange, ExpressionAssumption
      <4>8. DOMAIN part \intersect asks.first..asks.last = days
        BY <4>2, <4>4, <4>5, <4>6, <4>7 DEF Local
      <4>9. DOMAIN whole \intersect asks.first..asks.last = days
        BY <4>6 DEF Local
      <4>10. ASSUME NEW d \in days PROVE part[d] = whole[d]
        <5>1. d \in Nat /\ d >= asks.first /\ d <= asks.last
          BY <4>2, <4>7
        <5>2. RangeInside(d, w, a, b)
          <6>1. a = 0 \/ a <= d - w.left
            BY <4>2, <4>3, <4>4, <5>1
          <6>2. d + w.right <= b
            BY <4>2, <4>3, <5>1 DEF b
          <6> QED BY <6>1, <6>2 DEF RangeInside
        <5>3. d \in DOMAIN part
          BY <4>8
        <5> QED BY <4>6, <5>2, <5>3 DEF Local
      <4> HIDE DEF days
      <4>11. Slice(part, asks) = [d \in days |-> part[d]] /\ Slice(whole, asks) = [d \in days |-> whole[d]]
        BY <4>8, <4>9 DEF Slice
      <4>12. Slice(part, asks) = Slice(whole, asks)
        BY <4>10, <4>11
      <4> QED BY <4>1, <4>12 DEF Whole, whole
    <3>4. Whole' = Whole
      BY <3>1 DEF Whole
    <3> QED BY <3>1, <3>2, <3>3, <3>4 DEF ExpressionInv, WindowEnough
  <2>2. CASE UNCHANGED expressionVars
    BY <2>2 DEF ExpressionInv, expressionVars, WindowEnough, Whole
  <2> QED BY <2>1, <2>2 DEF ExpressionNext
<1>3. ExpressionInv => WindowEnough
  BY DEF ExpressionInv
<1> QED BY <1>1, <1>2, <1>3, PTL DEF ExpressionSpec

-----------------------------------------------------------------------------
(* TimeSeriesSampler: rows of the array.                                    *)

SamplerOK ==
    /\ inferDays \in SUBSET (1..LastRow) /\ inferDays # {} /\ segment.first <= segment.last
    /\ frame \in SUBSET Row /\ keep \in SUBSET frame /\ fill \in Fills
    /\ segment.first \in 1..LastRow /\ segment.last \in 1..LastRow

LEMMA SamplerParameters ==
    LastRow \in Nat \ {0} /\ NumStock \in Nat \ {0} /\ StepLen \in Nat \ {0}
BY SamplerAssumption DEF SamplerAssumption

\* Rows of the frame do not share a place.
LEMMA PlaceIs ==
    ASSUME NEW p \in Row, NEW q \in Row
    PROVE  Place(p) \in Int /\ Place(p) >= 0 /\ (Place(p) = Place(q) => p = q)
<1>1. LastRow \in Nat \ {0} /\ NumStock \in Nat \ {0}
  BY SamplerParameters
<1>2. /\ p.day \in 1..LastRow /\ q.day \in 1..LastRow /\ p.stock \in Nat /\ q.stock \in Nat
      /\ p = [day |-> p.day, stock |-> p.stock] /\ q = [day |-> q.day, stock |-> q.stock]
  BY DEF Row
<1>3. ASSUME NEW s \in Nat, NEW t \in Nat, s < t
      PROVE  s * LastRow + LastRow <= t * LastRow /\ s * LastRow \in Nat
  <2>1. PICK k \in Nat : t = (s + 1) + k
    <3>1. t - (s + 1) \in Nat /\ t = (s + 1) + (t - (s + 1))
      BY <1>3
    <3> QED BY <3>1
  <2>2. s * LastRow \in Nat /\ k * LastRow \in Nat
    BY <1>1
  <2>3. t * LastRow = (s * LastRow + LastRow) + k * LastRow
    BY <1>1, <2>1
  <2> QED BY <1>1, <2>2, <2>3
<1> DEFINE a == p.stock * LastRow
           b == q.stock * LastRow
<1>4. a \in Nat /\ b \in Nat
  BY <1>1, <1>2
<1>5. /\ p.stock < q.stock => a + LastRow <= b
      /\ q.stock < p.stock => b + LastRow <= a
  BY <1>2, <1>3
<1>6. Place(p) = a + p.day /\ Place(q) = b + q.day
  BY DEF Place
<1>7. p.stock = q.stock => a = b
  OBVIOUS
<1> HIDE DEF a, b
<1>8. Place(p) = Place(q) => p.stock = q.stock /\ p.day = q.day
  BY <1>1, <1>2, <1>4, <1>5, <1>6, <1>7
<1> QED BY <1>2, <1>4, <1>6, <1>8

\* Sorted rows: those of the set and all of them.
LEMMA InOrderIs ==
    ASSUME NEW rows \in SUBSET Row
    PROVE  /\ InOrder(rows) \in Seq(rows)
           /\ \A p \in rows : \E k \in 1..Len(InOrder(rows)) : InOrder(rows)[k] = p
<1> DEFINE P == {Place(p) : p \in rows}
           n == Cardinality(P)
           s == InOrder(rows)
<1>1. \A p \in rows : Place(p) \in Int /\ Place(p) >= 0
  BY PlaceIs
<1>2. P \in SUBSET Int
  BY <1>1
<1>3. IsFiniteSet(P)
  <2>1. IsFiniteSet(rows)
    <3>1. IsFiniteSet(Row)
      <4> DEFINE D == (1..LastRow) \X (1..NumStock)
                 row == [p \in D |-> [day |-> p[1], stock |-> p[2]]]
      <4>1. IsFiniteSet(D)
        <5>1. IsFiniteSet(1..LastRow) /\ IsFiniteSet(1..NumStock)
          BY SamplerParameters, FS_Interval
        <5> QED BY <5>1, FS_Product
      <4>2. row \in Surjection(D, Row)
        <5>1. \A p \in D : row[p] \in Row
          BY DEF Row
        <5>2. \A r \in Row : <<r.day, r.stock>> \in D /\ row[<<r.day, r.stock>>] = r
          BY DEF Row
        <5>3. row \in [D -> Row]
          BY <5>1
        <5> HIDE DEF D, row
        <5> QED BY <5>2, <5>3 DEF Surjection
      <4> HIDE DEF D, row
      <4> QED BY <4>1, <4>2, FS_Surjection
    <3> QED BY <3>1, FS_Subset
  <2> DEFINE f == [p \in rows |-> Place(p)]
  <2>2. f \in Surjection(rows, P)
    BY DEF Surjection
  <2> HIDE DEF f, P
  <2> QED BY <2>1, <2>2, FS_Surjection
<1> DEFINE places == Sorted(P)
<1>4. n \in Nat /\ places \in [1..n -> P] /\ \A d \in P : \E i \in 1..n : places[i] = d
  <2> HIDE DEF P
  <2> QED BY <1>2, <1>3, SortedIs, FS_CardinalityType
<1>5. s = [k \in DOMAIN places |-> CHOOSE p \in rows : Place(p) = places[k]]
  BY DEF InOrder
<1> HIDE DEF s, places, n
<1>6. ASSUME NEW k \in 1..n
      PROVE  s[k] \in rows /\ Place(s[k]) = places[k]
  <2>1. places[k] \in P
    BY <1>4
  <2>2. \E p \in rows : Place(p) = places[k]
    BY <2>1
  <2>3. s[k] = CHOOSE p \in rows : Place(p) = places[k]
    BY <1>4, <1>5
  <2> QED BY <2>2, <2>3
<1>7. s \in [1..n -> rows]
  BY <1>4, <1>5, <1>6
<1>8. s \in Seq(rows) /\ Len(s) = n
  BY <1>4, <1>7
<1>9. ASSUME NEW p \in rows
      PROVE  \E k \in 1..n : s[k] = p
  <2>1. Place(p) \in P
    OBVIOUS
  <2>2. PICK k \in 1..n : places[k] = Place(p)
    BY <1>4, <2>1
  <2>3. s[k] \in rows /\ Place(s[k]) = Place(p)
    BY <1>6, <2>2
  <2>4. s[k] = p
    BY <2>3, PlaceIs
  <2> QED BY <2>4
<1> QED BY <1>8, <1>9 DEF s

DataCount == Len(InOrder(Data))

\* The array: a row of the frame at each index, and NaN at the last one.
LEMMA DataArrIs ==
    ASSUME SamplerOK
    PROVE  /\ DataCount \in Nat /\ Len(DataArr) = DataCount + 1 /\ NanIdx = DataCount
           /\ DataArr[NanIdx + 1] = NoRow
           /\ \A i \in 1..DataCount : DataArr[i] \in Data
           /\ \A p \in Data : \E i \in 1..DataCount : DataArr[i] = p
           /\ Data \subseteq Row /\ NoRow \notin Row
<1>1. Data \in SUBSET Row
  BY DEF Data, SamplerOK
<1> DEFINE s == InOrder(Data)
<1>2. s \in Seq(Data) /\ \A p \in Data : \E k \in 1..Len(s) : s[k] = p
  BY <1>1, InOrderIs
<1>3. DataArr = Append(s, NoRow) /\ DataCount = Len(s)
  BY DEF DataArr, DataCount
<1> HIDE DEF s
<1>4. NoRow \notin Row
  BY DEF NoRow, Row
<1>5. Len(s) \in Nat /\ Len(DataArr) = Len(s) + 1 /\ DataArr[Len(s) + 1] = NoRow
  BY <1>2, <1>3
<1>6. \A i \in 1..Len(s) : DataArr[i] = s[i] /\ s[i] \in Data
  BY <1>2, <1>3
<1> QED BY <1>1, <1>2, <1>3, <1>4, <1>5, <1>6 DEF NanIdx

\* Entries of the index table, and the row that each of them means.
TableEntry == {i \in [idx : Nat, nan : BOOLEAN] : i.idx < DataCount \/ i.nan}

EntryRow(i) == IF i.nan THEN NoRow ELSE DataArr[i.idx + 1]

\* Rows taken as a slice are those taken one by one.
LEMMA TakenAre ==
    ASSUME SamplerOK, NEW m \in Nat \ {0}, NEW indices \in [1..m -> TableEntry]
    PROVE  TakenRows(indices) = [k \in 1..m |-> EntryRow(indices[k])]
<1> DEFINE idx == [k \in DOMAIN indices |-> IF indices[k].nan THEN NanIdx ELSE indices[k].idx]
<1>1. DataCount \in Nat /\ NanIdx = DataCount /\ DataArr[NanIdx + 1] = NoRow
  BY DataArrIs
<1>2. DOMAIN indices = 1..m /\ \A k \in 1..m : indices[k].idx \in Nat /\ indices[k].nan \in BOOLEAN
  BY DEF TableEntry
<1>3. ASSUME NEW k \in 1..m PROVE idx[k] \in Nat /\ DataArr[idx[k] + 1] = EntryRow(indices[k])
  BY <1>1, <1>2 DEF EntryRow
<1>4. idx \in Seq(Nat) /\ Len(idx) = m /\ DOMAIN idx = 1..m
  <2>1. idx \in [1..m -> Nat]
    BY <1>1, <1>2
  <2> HIDE DEF idx
  <2> QED BY <2>1
<1>5. TakenRows(indices) =
        IF \A k \in 1..(Len(idx) - 1) : idx[k + 1] - idx[k] = 1
        THEN Sliced(idx[1], idx[Len(idx)] + 1)
        ELSE [k \in DOMAIN idx |-> DataArr[Norm(idx[k]) + 1]]
  BY <1>2 DEF TakenRows
<1> HIDE DEF idx
<1>6. CASE \A k \in 1..(Len(idx) - 1) : idx[k + 1] - idx[k] = 1
  <2> DEFINE D == {k \in Nat : k < m => idx[k + 1] = idx[1] + k}
  <2>1. 0 \in D
    BY <1>3
  <2>2. ASSUME NEW k \in D PROVE k + 1 \in D
    <3> SUFFICES ASSUME k + 1 < m PROVE idx[(k + 1) + 1] = idx[1] + (k + 1)
      OBVIOUS
    <3>1. k + 1 \in 1..(m - 1) /\ k < m /\ k \in Nat
      OBVIOUS
    <3>2. idx[(k + 1) + 1] - idx[k + 1] = 1
      BY <1>4, <1>6, <3>1
    <3>3. idx[k + 1] = idx[1] + k
      BY <3>1
    <3>4. idx[1] \in Nat /\ idx[(k + 1) + 1] \in Nat
      <4>1. 1 \in 1..m /\ (k + 1) + 1 \in 1..m
        BY <3>1
      <4> QED BY <1>3, <4>1
    <3> QED BY <3>1, <3>2, <3>3, <3>4
  <2>3. D \in SUBSET Nat
    OBVIOUS
  <2>4. D = Nat
    <3> HIDE DEF D
    <3> QED BY <2>1, <2>2, <2>3, AllNumbers
  <2>5. ASSUME NEW k \in 1..m PROVE idx[k] = idx[1] + (k - 1)
    <3>1. k - 1 \in D /\ k - 1 < m /\ (k - 1) + 1 = k
      BY <2>4
    <3> QED BY <3>1
  <2>6. idx[1] \in Nat /\ idx[m] = idx[1] + (m - 1)
    <3>1. 1 \in 1..m /\ m \in 1..m
      OBVIOUS
    <3> QED BY <1>3, <2>5, <3>1
  <2>7. Sliced(idx[1], idx[m] + 1) = [k \in 1..m |-> DataArr[idx[1] + k]]
    <3>1. Norm(idx[1]) = idx[1] /\ Norm(idx[m] + 1) = idx[m] + 1
      BY <2>6 DEF Norm
    <3>2. (idx[m] + 1) - idx[1] = m
      BY <2>6
    <3> QED BY <3>1, <3>2 DEF Sliced
  <2>8. ASSUME NEW k \in 1..m PROVE DataArr[idx[1] + k] = EntryRow(indices[k])
    <3>1. idx[k] + 1 = idx[1] + k
      BY <2>5, <2>6
    <3> QED BY <1>3, <3>1
  <2> QED BY <1>4, <1>5, <1>6, <2>7, <2>8
<1>7. CASE ~(\A k \in 1..(Len(idx) - 1) : idx[k + 1] - idx[k] = 1)
  <2>1. ASSUME NEW k \in 1..m PROVE DataArr[Norm(idx[k]) + 1] = EntryRow(indices[k])
    <3>1. Norm(idx[k]) = idx[k]
      BY <1>3 DEF Norm
    <3> QED BY <1>3, <3>1
  <2> QED BY <1>4, <1>5, <1>7, <2>1
<1> QED BY <1>6, <1>7

-----------------------------------------------------------------------------
(* Lists of one and of two.                                                 *)

Flattened(s) == CHOOSE f : f = [i \in 1..Len(s) |-> IF i = 1 THEN s[i] ELSE f[i - 1] \o s[i]]

LEMMA FlattenOne ==
    ASSUME NEW a
    PROVE  FlattenSeq(<<a>>) = a
<1> DEFINE F(f) == [i \in 1..1 |-> IF i = 1 THEN <<a>>[i] ELSE f[i - 1] \o <<a>>[i]]
           g == CHOOSE f : f = F(f)
<1>1. FlattenSeq(<<a>>) = g[1]
  <2>1. Len(<<a>>) = 1
    OBVIOUS
  <2>2. FlattenSeq(<<a>>) = Flattened(<<a>>)[1]
    BY <2>1 DEF FlattenSeq, Flattened
  <2>3. Flattened(<<a>>) = g
    BY <2>1 DEF Flattened
  <2> HIDE DEF g
  <2> QED BY <2>2, <2>3
<1>2. \E f : f = F(f)
  <2> DEFINE h == [i \in 1..1 |-> a]
  <2>1. h = F(h)
    OBVIOUS
  <2> HIDE DEF h, F
  <2> QED BY <2>1
<1>3. g = F(g)
  <2> HIDE DEF F
  <2> QED BY <1>2
<1> HIDE DEF g
<1>4. g[1] = a
  BY <1>3
<1> QED BY <1>1, <1>4

LEMMA FlattenTwo ==
    ASSUME NEW a, NEW b
    PROVE  FlattenSeq(<<a, b>>) = a \o b
<1> DEFINE F(f) == [i \in 1..2 |-> IF i = 1 THEN <<a, b>>[i] ELSE f[i - 1] \o <<a, b>>[i]]
           g == CHOOSE f : f = F(f)
<1>1. FlattenSeq(<<a, b>>) = g[2]
  <2>1. Len(<<a, b>>) = 2
    OBVIOUS
  <2>2. FlattenSeq(<<a, b>>) = Flattened(<<a, b>>)[2]
    BY <2>1 DEF FlattenSeq, Flattened
  <2>3. Flattened(<<a, b>>) = g
    BY <2>1 DEF Flattened
  <2> HIDE DEF g
  <2> QED BY <2>2, <2>3
<1>2. \E f : f = F(f)
  <2> DEFINE h == [i \in 1..2 |-> IF i = 1 THEN a ELSE a \o b]
  <2>1. ASSUME NEW i \in 1..2 PROVE h[i] = IF i = 1 THEN <<a, b>>[i] ELSE h[i - 1] \o <<a, b>>[i]
    <3>1. i = 1 \/ i = 2
      OBVIOUS
    <3>2. h[1] = a /\ h[2] = a \o b
      OBVIOUS
    <3> HIDE DEF h
    <3>3. CASE i = 1
      BY <3>2, <3>3
    <3>4. CASE i = 2
      <4>1. h[2] = h[2 - 1] \o <<a, b>>[2]
        <5>1. 2 - 1 = 1 /\ <<a, b>>[2] = b
          OBVIOUS
        <5> QED BY <3>2, <5>1
      <4>2. i # 1
        BY <3>4
      <4> QED BY <3>4, <4>1, <4>2
    <3> QED BY <3>1, <3>3, <3>4
  <2>2. h = F(h)
    <3> SUFFICES \A i \in 1..2 : h[i] = IF i = 1 THEN <<a, b>>[i] ELSE h[i - 1] \o <<a, b>>[i]
      BY Zenon
    <3> QED BY <2>1
  <2> HIDE DEF h, F
  <2> QED BY <2>2
<1>3. g = F(g)
  <2> HIDE DEF F
  <2> QED BY <1>2
<1> HIDE DEF g
<1>4. g[1] = a /\ g[2] = g[1] \o b
  <2>1. \A i \in 1..2 : g[i] = IF i = 1 THEN <<a, b>>[i] ELSE g[i - 1] \o <<a, b>>[i]
    BY <1>3
  <2>2. g[1] = <<a, b>>[1]
    BY <2>1
  <2>3. g[2] = g[2 - 1] \o <<a, b>>[2]
    BY <2>1
  <2>4. <<a, b>>[1] = a /\ <<a, b>>[2] = b /\ 2 - 1 = 1
    OBVIOUS
  <2> QED BY <2>2, <2>3, <2>4
<1> QED BY <1>1, <1>4

-----------------------------------------------------------------------------
(* Filling.                                                                 *)

\* The places up to k that have an index.
HasValue(arr, k) == {j \in 1..k : ~arr[j].nan}

LEMMA FfilledIs ==
    ASSUME NEW n \in Nat \ {0}, NEW arr \in [1..n -> TableEntry]
    PROVE  /\ Ffilled(arr) \in [1..n -> TableEntry]
           /\ \A k \in 1..n :
                 /\ HasValue(arr, k) = {} => Ffilled(arr)[k] = arr[1]
                 /\ \A m \in HasValue(arr, k) :
                       (\A j \in HasValue(arr, k) : j <= m) => Ffilled(arr)[k] = arr[m]
<1>1. ASSUME NEW k \in 1..n
      PROVE  /\ Ffilled(arr)[k] \in TableEntry
             /\ HasValue(arr, k) = {} => Ffilled(arr)[k] = arr[1]
             /\ \A m \in HasValue(arr, k) :
                   (\A j \in HasValue(arr, k) : j <= m) => Ffilled(arr)[k] = arr[m]
  <2> DEFINE D == {1} \union HasValue(arr, k)
  <2>1. Ffilled(arr)[k] = arr[Max(D)]
    BY DEF Ffilled, HasValue
  <2>2. D \subseteq 0..n /\ D \in SUBSET Nat /\ D \subseteq 1..n /\ 1 \in D
    BY DEF HasValue
  <2>3. HasValue(arr, k) \subseteq D /\ \A d \in D : d >= 1
    BY <2>2
  <2>4. HasValue(arr, k) = {} => \A d \in D : d <= 1
    OBVIOUS
  <2>5. ASSUME NEW m \in HasValue(arr, k), \A j \in HasValue(arr, k) : j <= m
        PROVE  m \in D /\ \A d \in D : d <= m
    BY <2>2, <2>3, <2>5
  <2> HIDE DEF D
  <2>6. Max(D) \in D
    BY <2>2, MaxIsGreatest
  <2>7. HasValue(arr, k) = {} => Max(D) = 1
    BY <2>2, <2>4, MaxIs
  <2>8. ASSUME NEW m \in HasValue(arr, k), \A j \in HasValue(arr, k) : j <= m
        PROVE  Max(D) = m
    BY <2>2, <2>5, <2>8, MaxIs
  <2> QED BY <2>1, <2>2, <2>6, <2>7, <2>8
<1>2. Ffilled(arr) \in [1..n -> TableEntry]
  <2>1. DOMAIN Ffilled(arr) = 1..n
    BY DEF Ffilled
  <2>2. Ffilled(arr) = [k \in 1..n |-> Ffilled(arr)[k]]
    BY <2>1 DEF Ffilled
  <2> QED BY <1>1, <2>2
<1> QED BY <1>1, <1>2

LEMMA ReverseIs ==
    ASSUME NEW n \in Nat \ {0}, NEW arr \in [1..n -> TableEntry]
    PROVE  /\ Reverse(arr) \in [1..n -> TableEntry]
           /\ \A k \in 1..n : Reverse(arr)[k] = arr[n - k + 1]
<1>1. Len(arr) = n
  OBVIOUS
<1>2. \A k \in 1..n : n - k + 1 \in 1..n
  OBVIOUS
<1>3. Reverse(arr) = [k \in 1..n |-> arr[n - k + 1]]
  BY <1>1 DEF Reverse
<1> QED BY <1>2, <1>3

\* Filled forwards and then backwards.
BothWays(arr) == Reverse(Ffilled(Reverse(Ffilled(arr))))

LEMMA BothWaysIs ==
    ASSUME NEW n \in Nat \ {0}, NEW arr \in [1..n -> TableEntry]
    PROVE  /\ BothWays(arr) \in [1..n -> TableEntry]
           /\ \A k \in 1..n :
                 /\ HasValue(arr, n) = {} => BothWays(arr)[k] = arr[1]
                 /\ \A m \in HasValue(arr, k) :
                       (\A j \in HasValue(arr, k) : j <= m) => BothWays(arr)[k] = arr[m]
                 /\ HasValue(arr, k) = {} =>
                       \A m \in HasValue(arr, n) :
                          (\A j \in HasValue(arr, n) : m <= j) => BothWays(arr)[k] = arr[m]
<1> DEFINE f == Ffilled(arr)
           g == Reverse(f)
           h == Ffilled(g)
<1>1. f \in [1..n -> TableEntry]
  BY FfilledIs
<1>2. \A k \in 1..n :
         /\ HasValue(arr, k) = {} => f[k] = arr[1]
         /\ \A m \in HasValue(arr, k) : (\A j \in HasValue(arr, k) : j <= m) => f[k] = arr[m]
  BY FfilledIs
<1> HIDE DEF f
<1>3. g \in [1..n -> TableEntry] /\ \A k \in 1..n : g[k] = f[n - k + 1]
  BY <1>1, ReverseIs
<1> HIDE DEF g
<1>4. h \in [1..n -> TableEntry]
  BY <1>3, FfilledIs
<1>5. \A k \in 1..n :
         /\ HasValue(g, k) = {} => h[k] = g[1]
         /\ \A m \in HasValue(g, k) : (\A j \in HasValue(g, k) : j <= m) => h[k] = g[m]
  BY <1>3, FfilledIs
<1> HIDE DEF h
<1>6. BothWays(arr) \in [1..n -> TableEntry] /\ \A k \in 1..n : BothWays(arr)[k] = h[n - k + 1]
  <2>1. BothWays(arr) = Reverse(h)
    BY DEF BothWays, f, g, h
  <2> QED BY <1>4, <2>1, ReverseIs
<1>7. ASSUME NEW k \in 1..n, HasValue(arr, n) = {}
      PROVE  BothWays(arr)[k] = arr[1]
  <2>1. \A j \in 1..n : HasValue(arr, j) = {} /\ arr[j].nan
    <3>1. \A j \in 1..n : arr[j].nan
      BY <1>7 DEF HasValue
    <3> QED BY <3>1 DEF HasValue
  <2>2. \A j \in 1..n : f[j] = arr[1] /\ f[j].nan
    <3>1. 1 \in 1..n
      OBVIOUS
    <3> QED BY <1>2, <2>1, <3>1
  <2>3. n - k + 1 \in 1..n /\ n - 1 + 1 \in 1..n /\ 1 \in 1..n
    OBVIOUS
  <2>4. \A j \in 1..n : g[j].nan
    <3>1. \A j \in 1..n : n - j + 1 \in 1..n
      OBVIOUS
    <3> QED BY <1>3, <2>2, <3>1
  <2>5. HasValue(g, n - k + 1) = {}
    <3>1. \A j \in 1..(n - k + 1) : j \in 1..n
      BY <2>3
    <3> QED BY <2>4, <3>1 DEF HasValue
  <2>6. h[n - k + 1] = g[1] /\ g[1] = f[n - 1 + 1]
    BY <1>3, <1>5, <2>3, <2>5
  <2> QED BY <1>6, <2>2, <2>3, <2>6
<1>8. ASSUME NEW k \in 1..n, NEW m \in HasValue(arr, k), \A j \in HasValue(arr, k) : j <= m
      PROVE  BothWays(arr)[k] = arr[m]
  <2>1. f[k] = arr[m] /\ ~f[k].nan
    <3>1. f[k] = arr[m]
      BY <1>2, <1>8
    <3> QED BY <3>1 DEF HasValue
  <2> DEFINE i == n - k + 1
  <2>2. i \in 1..n /\ n - i + 1 = k
    OBVIOUS
  <2>3. g[i] = f[k]
    BY <1>3, <2>2
  <2>4. i \in HasValue(g, i) /\ \A j \in HasValue(g, i) : j <= i
    BY <2>1, <2>2, <2>3 DEF HasValue
  <2> HIDE DEF i
  <2>5. h[i] = g[i]
    BY <1>5, <2>2, <2>4
  <2> QED BY <1>6, <2>1, <2>3, <2>5 DEF i
<1>9. ASSUME NEW k \in 1..n, HasValue(arr, k) = {}, NEW m \in HasValue(arr, n), \A j \in HasValue(arr, n) : m <= j
      PROVE  BothWays(arr)[k] = arr[m]
  <2>1. m \in 1..n /\ ~arr[m].nan
    BY DEF HasValue
  <2>2. m > k
    <3> SUFFICES ASSUME ~(m > k) PROVE FALSE
      OBVIOUS
    <3>1. m \in 1..k
      BY <2>1
    <3>2. m \in HasValue(arr, k)
      BY <2>1, <3>1 DEF HasValue
    <3> QED BY <1>9, <3>2
  <2>3. ASSUME NEW i \in 1..n, i < m PROVE f[i].nan
    <3>1. \A j \in 1..i : arr[j].nan
      <4> SUFFICES ASSUME NEW j \in 1..i, ~arr[j].nan PROVE FALSE
        OBVIOUS
      <4>1. j \in 1..n /\ j < m
        BY <2>1, <2>3
      <4>2. j \in HasValue(arr, n)
        BY <4>1 DEF HasValue
      <4>3. m <= j
        BY <1>9, <4>2
      <4> QED BY <2>1, <4>1, <4>3
    <3>2. HasValue(arr, i) = {} /\ arr[1].nan
      BY <3>1 DEF HasValue
    <3> QED BY <1>2, <3>2
  <2>4. f[m] = arr[m]
    <3>1. m \in HasValue(arr, m) /\ \A j \in HasValue(arr, m) : j <= m
      BY <2>1 DEF HasValue
    <3> QED BY <1>2, <2>1, <3>1
  <2> DEFINE i == n - k + 1
             l == n - m + 1
  <2>5. i \in 1..n /\ l \in 1..i /\ l \in 1..n /\ n - l + 1 = m
    BY <2>1, <2>2
  <2>6. g[l] = arr[m]
    BY <1>3, <2>4, <2>5
  <2>7. \A j \in HasValue(g, i) : j <= l
    <3> SUFFICES ASSUME NEW j \in HasValue(g, i), ~(j <= l) PROVE FALSE
      OBVIOUS
    <3>1. j \in 1..n /\ ~g[j].nan
      BY <2>5 DEF HasValue
    <3>2. n - j + 1 \in 1..n /\ n - j + 1 < m
      BY <2>1, <3>1
    <3> HIDE DEF i, l
    <3>3. f[n - j + 1].nan
      BY <2>3, <3>2
    <3>4. g[j] = f[n - j + 1]
      BY <1>3, <3>1
    <3> QED BY <3>1, <3>3, <3>4
  <2>8. l \in HasValue(g, i)
    BY <2>1, <2>5, <2>6 DEF HasValue
  <2> HIDE DEF i, l
  <2>9. h[i] = g[l]
    BY <1>5, <2>5, <2>7, <2>8
  <2> QED BY <1>6, <2>6, <2>9 DEF i
<1> QED BY <1>6, <1>7, <1>8, <1>9

-----------------------------------------------------------------------------
(* Windows.                                                                 *)

DataDays   == {p.day : p \in Data}
DataStocks == {p.stock : p \in Data}

\* Where the data of the segment begins: at a day of the calendar, StepLen days before the
\* segment, or the first one there is.
LEMMA PadStartIs ==
    ASSUME SamplerOK
    PROVE  /\ PadStart \in inferDays /\ PadStart \in Int
           /\ PadStart < segment.first \/ \A d \in inferDays : PadStart <= d
           /\ \A d \in inferDays : d < PadStart =>
                 Cardinality({e \in DaysBefore : e >= PadStart}) = StepLen
<1> DEFINE n == Cardinality(inferDays)
           k == Cardinality(DaysBefore)
           i == Max({0, k - StepLen}) + 1
           L == {e \in DaysBefore : e >= PadStart}
           E == {e \in inferDays : e < PadStart}
<1>1. StepLen \in Nat \ {0} /\ LastRow \in Nat \ {0} /\ segment.first \in Int
  BY SamplerParameters DEF SamplerOK
<1>2. IsFiniteSet(inferDays) /\ inferDays \in SUBSET Int /\ inferDays # {} /\ n \in Nat \ {0}
  <2>1. IsFiniteSet(1..LastRow)
    BY <1>1, FS_Interval
  <2>2. inferDays \subseteq 1..LastRow /\ inferDays # {}
    BY DEF SamplerOK
  <2>3. inferDays \in SUBSET Int
    BY <2>2
  <2> QED BY <2>1, <2>2, <2>3, FS_Subset, FS_CardinalityType, FS_EmptySet
<1>3. DaysBefore = UpTo(inferDays, segment.first - 1)
  <2>1. \A d \in inferDays : d \in Int /\ (d < segment.first <=> d <= segment.first - 1)
    BY <1>1, <1>2
  <2> QED BY <2>1 DEF DaysBefore, UpTo
<1>4. segment.first - 1 \in Int
  BY <1>1
<1>5. k \in Nat /\ k <= n /\ IsFiniteSet(DaysBefore)
  <2>1. DaysBefore \subseteq inferDays
    BY DEF DaysBefore
  <2> QED BY <1>2, <2>1, FS_Subset, FS_CardinalityType
<1>6. i = (IF k >= StepLen THEN k - StepLen ELSE 0) + 1
  <2>1. Max({0, k - StepLen}) = IF 0 >= k - StepLen THEN 0 ELSE k - StepLen
    BY <1>1, <1>5, MaxOfTwo
  <2> HIDE DEF k
  <2> QED BY <1>1, <1>5, <2>1
<1>7. PadStart = Sorted(inferDays)[i]
  BY DEF PadStart
<1> HIDE DEF i, k, n
<1>8. i \in 1..n /\ i - 1 \in Nat
  BY <1>1, <1>2, <1>5, <1>6
<1>9. PadStart \in inferDays /\ PadStart \in Int /\ Cardinality(UpTo(inferDays, PadStart)) = i
  BY <1>2, <1>7, <1>8, SortedPlace DEF n
<1>10. PadStart <= segment.first - 1 <=> i <= k
  BY <1>2, <1>3, <1>4, <1>7, <1>8, SortedUpTo DEF n, k
<1>11. E = UpTo(inferDays, PadStart) \ {PadStart} /\ PadStart \in UpTo(inferDays, PadStart)
  <2>1. PadStart \in UpTo(inferDays, PadStart)
    BY <1>9 DEF UpTo
  <2>2. ASSUME NEW d \in inferDays PROVE d < PadStart <=> d <= PadStart /\ d # PadStart
    <3>1. d \in Int
      BY <1>2
    <3> QED BY <1>9, <3>1
  <2> QED BY <2>1, <2>2 DEF UpTo
<1>12. IsFiniteSet(E) /\ Cardinality(E) = i - 1
  <2>1. IsFiniteSet(UpTo(inferDays, PadStart))
    BY <1>2, FS_Subset DEF UpTo
  <2> QED BY <1>9, <1>11, <2>1, FS_RemoveElement
<1>13. PadStart < segment.first \/ \A d \in inferDays : PadStart <= d
  <2>1. CASE k >= 1
    <3>1. i <= k
      BY <1>1, <1>5, <1>6, <2>1
    <3> QED BY <1>1, <1>9, <1>10, <3>1
  <2>2. CASE k = 0
    <3>1. Cardinality(E) = 0
      BY <1>1, <1>6, <1>12, <2>2
    <3>2. E = {}
      BY <1>12, <3>1, FS_EmptySet
    <3> QED BY <1>2, <1>9, <3>2
  <2> QED BY <1>5, <2>1, <2>2
<1>14. ASSUME NEW d \in inferDays, d < PadStart PROVE Cardinality(L) = StepLen
  <2>1. d \in E
    BY <1>14
  <2>2. i >= 2
    <3>1. Cardinality(E) # 0
      BY <1>12, <2>1, FS_EmptySet
    <3> QED BY <1>8, <1>12, <3>1
  <2>3. k - StepLen = i - 1 /\ i <= k
    BY <1>1, <1>5, <1>6, <2>2
  <2>4. E \subseteq DaysBefore /\ L = DaysBefore \ E
    <3>1. PadStart < segment.first
      BY <1>1, <1>9, <1>10, <2>3
    <3>2. \A e \in inferDays : e \in Int
      BY <1>2
    <3>3. ASSUME NEW e \in E PROVE e \in DaysBefore
      BY <1>1, <1>9, <3>1, <3>2 DEF DaysBefore
    <3>4. ASSUME NEW e \in DaysBefore PROVE e >= PadStart <=> e \notin E
      <4>1. e \in inferDays /\ e \in Int
        BY <3>2 DEF DaysBefore
      <4> QED BY <1>9, <4>1
    <3> HIDE DEF E
    <3> QED BY <3>3, <3>4
  <2>5. Cardinality(DaysBefore \ E) = Cardinality(DaysBefore) - Cardinality(DaysBefore \intersect E)
    BY <1>5, <1>12, FS_Difference
  <2>6. DaysBefore \intersect E = E
    BY <2>4
  <2> QED BY <1>1, <1>5, <1>12, <2>3, <2>4, <2>5, <2>6 DEF k
<1> QED BY <1>9, <1>13, <1>14

LEMMA DataSets ==
    ASSUME SamplerOK
    PROVE  /\ DataDays \in SUBSET Int /\ IsFiniteSet(DataDays)
           /\ \A d \in DataDays : d \in 1..LastRow /\ d >= PadStart /\ d <= segment.last
           /\ DataStocks \in SUBSET Int /\ IsFiniteSet(DataStocks)
           /\ Days = Sorted(DataDays) /\ Stocks = Sorted(DataStocks)
           /\ PadStart \in Int
           /\ Data \subseteq frame /\ frame \subseteq Row
<1>1. \A p \in Data : p.day \in 1..LastRow /\ p.stock \in 1..NumStock
                      /\ p.day >= PadStart /\ p.day <= segment.last
  BY DEF Data, SamplerOK, Row
<1>2. DataDays \in SUBSET (1..LastRow) /\ DataStocks \in SUBSET (1..NumStock)
  BY <1>1 DEF DataDays, DataStocks
<1>3. IsFiniteSet(1..LastRow) /\ IsFiniteSet(1..NumStock)
  BY SamplerParameters, FS_Interval
<1>4. IsFiniteSet(DataDays) /\ IsFiniteSet(DataStocks)
  BY <1>2, <1>3, FS_Subset
<1>5. \A d \in DataDays : d >= PadStart /\ d <= segment.last
  BY <1>1 DEF DataDays
<1>6. PadStart \in Int
  BY PadStartIs
<1>7. Data \subseteq frame /\ frame \subseteq Row
  BY DEF Data, SamplerOK
<1>8. Days = Sorted(DataDays) /\ Stocks = Sorted(DataStocks)
  BY DEF Days, Stocks, DataDays, DataStocks
<1> QED BY <1>2, <1>4, <1>5, <1>6, <1>7, <1>8

\* The entry of a day and a stock.
LEMMA IdxDfIs ==
    ASSUME SamplerOK, NEW row, NEW col, NEW q,
           q = [day |-> Days[row + 1], stock |-> Stocks[col + 1]]
    PROVE  /\ IdxDf(row, col) \in TableEntry
           /\ EntryRow(IdxDf(row, col)) = IF q \in Data THEN q ELSE NoRow
           /\ IdxDf(row, col).nan <=> q \notin Data
<1>1. /\ DataCount \in Nat /\ Len(DataArr) = DataCount + 1 /\ NanIdx = DataCount
      /\ DataArr[DataCount + 1] = NoRow /\ NoRow \notin Data
      /\ \A p \in Data : \E i \in 1..DataCount : DataArr[i] = p
  BY DataArrIs
<1>2. CASE q \in Data
  <2> DEFINE i == CHOOSE j \in 1..Len(DataArr) : DataArr[j] = q
  <2>1. \E j \in 1..Len(DataArr) : DataArr[j] = q
    BY <1>1, <1>2
  <2>2. i \in 1..Len(DataArr) /\ DataArr[i] = q
    BY <2>1
  <2>3. IdxDf(row, col) = [idx |-> i - 1, nan |-> FALSE]
    BY <1>2 DEF IdxDf
  <2> HIDE DEF i
  <2>4. i # DataCount + 1
    BY <1>1, <1>2, <2>2
  <2>5. i - 1 \in Nat /\ i - 1 < DataCount /\ (i - 1) + 1 = i
    BY <1>1, <2>2, <2>4
  <2>6. IdxDf(row, col) \in TableEntry
    BY <2>3, <2>5 DEF TableEntry
  <2>7. EntryRow(IdxDf(row, col)) = q
    BY <2>2, <2>3, <2>5 DEF EntryRow
  <2> QED BY <1>2, <2>3, <2>6, <2>7
<1>3. CASE q \notin Data
  <2>1. IdxDf(row, col) = NoIdx
    BY <1>3 DEF IdxDf
  <2> QED BY <1>1, <1>3, <2>1 DEF NoIdx, TableEntry, EntryRow
<1> QED BY <1>2, <1>3

\* What SampleWindow calls past, at and raw, and the window without the days before the data
\* of the segment, which is what the code finds.
PastDays(p) == {q.day : q \in {r \in frame : r.day <= p.day /\ r.day <= segment.last}}

At(p, k) == Len(Sorted(PastDays(p))) - StepLen + k

Raw(p, k) ==
    IF At(p, k) >= 1 /\ Sorted(PastDays(p))[At(p, k)] >= PadStart
       /\ [p EXCEPT !.day = Sorted(PastDays(p))[At(p, k)]] \in frame
    THEN [p EXCEPT !.day = Sorted(PastDays(p))[At(p, k)]] ELSE NoRow

Present(p) == {k \in 1..StepLen : Raw(p, k) # NoRow}

CutWindow(p) ==
    [k \in 1..StepLen |->
        IF fill # "none" /\ {j \in Present(p) : j <= k} # {}
        THEN Raw(p, Max({j \in Present(p) : j <= k}))
        ELSE IF fill = "ffill+bfill" /\ Present(p) # {} THEN Raw(p, Min(Present(p)))
        ELSE Raw(p, k)]

\* Days up to a day, among those of the table and before it.
LEMMA PastIs ==
    ASSUME SamplerOK, NEW p \in Row, NEW c, c = Cardinality(UpTo(DataDays, p.day))
    PROVE  /\ c \in Nat /\ c <= Cardinality(DataDays) /\ Cardinality(DataDays) \in Nat
           /\ \A i \in 1..c : Days[i] \in DataDays
           /\ \E e \in Nat :
                 /\ Len(Sorted(PastDays(p))) = e + c
                 /\ \A i \in 1..e : Sorted(PastDays(p))[i] \in Int /\ Sorted(PastDays(p))[i] < PadStart
                 /\ \A i \in 1..c : Sorted(PastDays(p))[e + i] = Days[i]
<1> DEFINE C == UpTo(DataDays, p.day)
           E == {d \in PastDays(p) : d < PadStart}
           L == {d \in DataDays : p.day < d}
           e == Cardinality(E)
<1>1. /\ DataDays \in SUBSET Int /\ IsFiniteSet(DataDays) /\ Days = Sorted(DataDays)
      /\ \A d \in DataDays : d \in 1..LastRow /\ d >= PadStart /\ d <= segment.last
      /\ PadStart \in Int /\ frame \subseteq Row
  BY DataSets
<1>2. p.day \in Int /\ \A r \in frame : r.day \in 1..LastRow /\ r.day \in Int
  BY <1>1 DEF Row
<1>3. PastDays(p) \in SUBSET (1..LastRow) /\ PastDays(p) \in SUBSET Int
  BY <1>2 DEF PastDays
<1>4. E \in SUBSET Int /\ IsFiniteSet(E)
  <2>1. IsFiniteSet(1..LastRow)
    BY SamplerParameters, FS_Interval
  <2>2. E \in SUBSET Int /\ E \in SUBSET (1..LastRow)
    BY <1>3
  <2> HIDE DEF E
  <2> QED BY <2>1, <2>2, FS_Subset
<1>5. C \in SUBSET Int /\ IsFiniteSet(C) /\ L \in SUBSET Int /\ IsFiniteSet(L)
  <2>1. C \subseteq DataDays /\ L \subseteq DataDays
    BY DEF UpTo
  <2> HIDE DEF C, L
  <2> QED BY <1>1, <2>1, FS_Subset
<1>6. PastDays(p) = E \union C
  <2>1. ASSUME NEW d \in C PROVE d \in PastDays(p)
    <3>1. d \in DataDays /\ d <= p.day /\ d <= segment.last
      BY <1>1 DEF UpTo
    <3>2. PICK q \in Data : q.day = d
      BY <3>1 DEF DataDays
    <3>3. q \in frame
      BY <3>2 DEF Data
    <3> QED BY <3>1, <3>2, <3>3 DEF PastDays
  <2>2. ASSUME NEW d \in PastDays(p), ~(d < PadStart) PROVE d \in C
    <3>1. PICK q \in frame : q.day = d /\ q.day <= p.day /\ q.day <= segment.last
      BY DEF PastDays
    <3>2. q.day >= PadStart
      BY <1>1, <1>2, <2>2, <3>1
    <3>3. q \in Data
      BY <3>1, <3>2 DEF Data
    <3>4. d \in DataDays
      BY <3>1, <3>3 DEF DataDays
    <3> QED BY <3>1, <3>4 DEF UpTo
  <2> HIDE DEF C
  <2> QED BY <2>1, <2>2
<1>7. DataDays = C \union L
  <2>1. \A d \in DataDays : d <= p.day \/ p.day < d
    BY <1>1, <1>2
  <2> QED BY <2>1 DEF UpTo
<1>8. \A x \in E, y \in C : x < y
  <2> SUFFICES ASSUME NEW x \in E, NEW y \in C PROVE x < y
    OBVIOUS
  <2>1. x \in Int /\ x < PadStart
    BY <1>4
  <2>2. y \in DataDays
    BY DEF UpTo
  <2>3. y >= PadStart /\ y \in Int
    BY <1>1, <2>2
  <2> QED BY <1>1, <2>1, <2>3
<1>9. \A x \in C, y \in L : x < y
  <2> SUFFICES ASSUME NEW x \in C, NEW y \in L PROVE x < y
    OBVIOUS
  <2>1. x <= p.day /\ p.day < y
    BY DEF UpTo
  <2>2. x \in Int /\ y \in Int
    BY <1>5
  <2> QED BY <1>2, <2>1, <2>2
<1>10. c = Cardinality(C)
  OBVIOUS
<1> HIDE DEF C, E, L
<1>11. /\ Cardinality(E \union C) = Cardinality(E) + Cardinality(C)
       /\ \A k \in 1..Cardinality(E) : Sorted(E \union C)[k] = Sorted(E)[k]
       /\ \A k \in 1..Cardinality(C) : Sorted(E \union C)[Cardinality(E) + k] = Sorted(C)[k]
  BY <1>4, <1>5, <1>8, SortedSplit
<1>12. /\ Cardinality(C \union L) = Cardinality(C) + Cardinality(L)
       /\ \A k \in 1..Cardinality(C) : Sorted(C \union L)[k] = Sorted(C)[k]
  BY <1>5, <1>9, SortedSplit
<1>13. c \in Nat /\ Cardinality(E) \in Nat /\ Cardinality(L) \in Nat
  BY <1>4, <1>5, <1>10, FS_CardinalityType
<1>14. c <= Cardinality(DataDays) /\ Cardinality(DataDays) \in Nat
  BY <1>7, <1>10, <1>12, <1>13
<1>15. \A i \in 1..c : Days[i] = Sorted(C)[i]
  BY <1>1, <1>7, <1>10, <1>12
<1>16. ASSUME NEW i \in 1..c PROVE Days[i] \in DataDays
  <2>1. i \in 1..Cardinality(DataDays)
    BY <1>13, <1>14
  <2> QED BY <1>1, <2>1, SortedPlace
<1>17. Len(Sorted(PastDays(p))) = e + c
  <2>1. Cardinality(PastDays(p)) = e + c
    BY <1>6, <1>10, <1>11
  <2>2. Sorted(PastDays(p)) = [k \in 1..(e + c) |-> Sorted(PastDays(p))[k]]
    BY <2>1 DEF Sorted
  <2>3. e + c \in Nat
    BY <1>13
  <2> HIDE DEF e
  <2> QED BY <2>2, <2>3
<1>18. ASSUME NEW i \in 1..e
       PROVE  Sorted(PastDays(p))[i] \in Int /\ Sorted(PastDays(p))[i] < PadStart
  <2>1. Sorted(E)[i] \in E
    BY <1>4, SortedPlace
  <2>2. \A x \in E : x < PadStart /\ x \in Int
    BY <1>4 DEF E
  <2> QED BY <1>6, <1>11, <2>1, <2>2
<1>19. ASSUME NEW i \in 1..c
       PROVE  Sorted(PastDays(p))[e + i] = Days[i]
  BY <1>6, <1>10, <1>11, <1>15
<1> HIDE DEF e
<1>20. e \in Nat
  BY <1>13 DEF e
<1> QED BY <1>13, <1>14, <1>16, <1>17, <1>18, <1>19, <1>20

\* The day's row and the stock's column, and where the window's rows are in the table.
Column(p, col) == col \in Nat /\ col < Len(Stocks) /\ Stocks[col + 1] = p.stock

LEMMA RawIs ==
    ASSUME SamplerOK, NEW p \in Row, NEW col, Column(p, col), NEW k \in 1..StepLen,
           NEW r \in Int, r = (Cardinality(UpTo(DataDays, p.day)) - 1) + k - StepLen
    PROVE  /\ r >= 0 => /\ IdxDf(r, col) \in TableEntry
                        /\ EntryRow(IdxDf(r, col)) = Raw(p, k)
                        /\ IdxDf(r, col).nan <=> Raw(p, k) = NoRow
           /\ r < 0 => Raw(p, k) = NoRow
<1> DEFINE c == Cardinality(UpTo(DataDays, p.day))
<1>1. StepLen \in Nat \ {0}
  BY SamplerParameters
<1>2. c \in Nat /\ \A i \in 1..c : Days[i] \in DataDays
  BY PastIs
<1>3. PICK e \in Nat :
        /\ Len(Sorted(PastDays(p))) = e + c
        /\ \A i \in 1..e : Sorted(PastDays(p))[i] \in Int /\ Sorted(PastDays(p))[i] < PadStart
        /\ \A i \in 1..c : Sorted(PastDays(p))[e + i] = Days[i]
  BY PastIs
<1>4. r = (c - 1) + k - StepLen
  OBVIOUS
<1> HIDE DEF c
<1>5. At(p, k) = e + r + 1 /\ r < c
  <2>1. At(p, k) = (e + c) - StepLen + k
    BY <1>3 DEF At
  <2>2. k \in Int /\ k <= StepLen
    BY <1>1
  <2> QED BY <1>1, <1>2, <1>4, <2>1, <2>2
<1>6. /\ \A d \in DataDays : d \in 1..LastRow /\ d >= PadStart /\ d <= segment.last
      /\ PadStart \in Int /\ Data \subseteq frame
  BY DataSets
<1>7. CASE r < 0
  <2>1. At(p, k) >= 1 => ~(Sorted(PastDays(p))[At(p, k)] >= PadStart)
    <3> SUFFICES ASSUME At(p, k) >= 1 PROVE ~(Sorted(PastDays(p))[At(p, k)] >= PadStart)
      OBVIOUS
    <3>1. At(p, k) \in 1..e
      BY <1>5, <1>7
    <3>2. Sorted(PastDays(p))[At(p, k)] \in Int /\ Sorted(PastDays(p))[At(p, k)] < PadStart
      BY <1>3, <3>1
    <3> QED BY <1>6, <3>2
  <2> QED BY <1>7, <2>1 DEF Raw
<1>8. CASE r >= 0
  <2> DEFINE d == Days[r + 1]
             q == [day |-> d, stock |-> p.stock]
  <2>1. r + 1 \in 1..c /\ e + r + 1 = e + (r + 1)
    BY <1>2, <1>5, <1>8
  <2>2. d \in DataDays /\ Sorted(PastDays(p))[At(p, k)] = d
    BY <1>2, <1>3, <1>5, <2>1
  <2>3. At(p, k) >= 1 /\ d >= PadStart /\ d <= segment.last
    BY <1>5, <1>6, <1>8, <2>2
  <2>4. [p EXCEPT !.day = d] = q
    <3>1. p = [day |-> p.day, stock |-> p.stock]
      BY DEF Row
    <3> HIDE DEF d
    <3> QED BY <3>1
  <2> HIDE DEF d
  <2>5. q \in frame <=> q \in Data
    BY <1>6, <2>3 DEF Data
  <2> HIDE DEF q
  <2>6. Raw(p, k) = IF q \in Data THEN q ELSE NoRow
    BY <2>2, <2>3, <2>4, <2>5 DEF Raw
  <2>7. q = [day |-> Days[r + 1], stock |-> Stocks[col + 1]]
    BY DEF q, d, Column
  <2>8. /\ IdxDf(r, col) \in TableEntry
        /\ EntryRow(IdxDf(r, col)) = IF q \in Data THEN q ELSE NoRow
        /\ IdxDf(r, col).nan <=> q \notin Data
    BY <2>7, IdxDfIs
  <2>9. NoRow \notin Data
    BY DataArrIs
  <2> QED BY <1>8, <2>6, <2>8, <2>9
<1> QED BY <1>7, <1>8

\* What _get_indices has before it fills.
Padded(row, col) ==
    LET start  == IF row >= StepLen THEN row - StepLen + 1 ELSE 0
        found  == [k \in 1..(row + 1 - start) |-> IdxDf(start + k - 1, col)]
    IN  [k \in 1..(StepLen - Len(found)) |-> NoIdx] \o found

LEMMA PaddedIs ==
    ASSUME NEW row \in Int, row >= -1, NEW col, \A r \in 0..row : IdxDf(r, col) \in TableEntry
    PROVE  Padded(row, col) =
             [k \in 1..StepLen |-> IF row + k - StepLen >= 0 THEN IdxDf(row + k - StepLen, col) ELSE NoIdx]
<1> DEFINE start == IF row >= StepLen THEN row - StepLen + 1 ELSE 0
           l     == row + 1 - start
           found == [k \in 1..l |-> IdxDf(start + k - 1, col)]
           pad   == [k \in 1..(StepLen - l) |-> NoIdx]
<1>1. StepLen \in Nat \ {0}
  BY SamplerParameters
<1>2. start \in Nat /\ l \in Nat /\ l <= StepLen /\ start - (StepLen - l) = row + 1 - StepLen
      /\ (start > 0 => l = StepLen)
  BY <1>1
<1>3. l = row + 1 - start
  OBVIOUS
<1> HIDE DEF start, l
<1>4. \A k \in 1..l : start + k - 1 \in 0..row
  BY <1>2, <1>3
<1>5. found \in [1..l -> TableEntry]
  BY <1>4
<1>6. found \in Seq(TableEntry) /\ Len(found) = l
  <2> HIDE DEF found
  <2> QED BY <1>2, <1>5
<1>7. Padded(row, col) = pad \o found
  <2>1. Padded(row, col) = [k \in 1..(StepLen - Len(found)) |-> NoIdx] \o found
    BY DEF Padded, start, found, l
  <2> HIDE DEF found
  <2> QED BY <1>6, <2>1
<1>8. NoIdx \in TableEntry
  BY DEF NoIdx, TableEntry
<1> DEFINE n == StepLen - l
<1>9. n \in Nat /\ n + l = StepLen
  BY <1>1, <1>2
<1>10. pad \in Seq(TableEntry) /\ Len(pad) = n
  <2>1. pad \in [1..n -> TableEntry]
    BY <1>8
  <2> HIDE DEF pad, n
  <2> QED BY <1>9, <2>1
<1>11. \A k \in 1..n : pad[k] = NoIdx
  OBVIOUS
<1>12. \A k \in 1..l : found[k] = IdxDf(start + k - 1, col)
  OBVIOUS
<1>0. n = StepLen - l
  OBVIOUS
<1> HIDE DEF pad, found, n
<1>13. pad \o found = [k \in 1..StepLen |-> IF k <= n THEN pad[k] ELSE found[k - n]]
  <2> DEFINE all == pad \o found
  <2>1. /\ all \in Seq(TableEntry) /\ Len(all) = Len(pad) + Len(found)
        /\ \A k \in 1..(Len(pad) + Len(found)) :
              all[k] = IF k <= Len(pad) THEN pad[k] ELSE found[k - Len(pad)]
    BY <1>6, <1>10, ConcatProperties
  <2> HIDE DEF all
  <2>2. all = [k \in 1..Len(all) |-> all[k]]
    BY <2>1
  <2>3. all = [k \in 1..StepLen |-> all[k]] /\ \A k \in 1..StepLen : all[k] = IF k <= n THEN pad[k] ELSE found[k - n]
    BY <1>6, <1>9, <1>10, <2>1, <2>2
  <2> QED BY <2>3 DEF all
<1>14. ASSUME NEW k \in 1..StepLen
       PROVE  (IF k <= n THEN pad[k] ELSE found[k - n])
            = (IF row + k - StepLen >= 0 THEN IdxDf(row + k - StepLen, col) ELSE NoIdx)
  <2>1. CASE k <= n
    <3>1. k \in 1..n /\ ~(row + k - StepLen >= 0)
      BY <1>1, <1>2, <1>3, <1>9, <1>0, <2>1
    <3> QED BY <1>11, <2>1, <3>1
  <2>2. CASE ~(k <= n)
    <3>1. k - n \in 1..l
      BY <1>1, <1>2, <1>9, <2>2
    <3>2. start + (k - n) - 1 = row + k - StepLen
      BY <1>0, <1>1, <1>2, <1>9
    <3>3. row + k - StepLen >= 0
      BY <1>2, <3>1, <3>2
    <3> QED BY <1>12, <2>2, <3>1, <3>2, <3>3
  <2> QED BY <2>1, <2>2
<1> QED BY <1>7, <1>13, <1>14

\* The rows that _get_indices finds are those of the window.
LEMMA IndicesAre ==
    ASSUME SamplerOK, NEW p \in Row, NEW col, Column(p, col),
           NEW row, row = Cardinality(UpTo(DataDays, p.day)) - 1
    PROVE  /\ GetIndices(row, col) \in [1..StepLen -> TableEntry]
           /\ [k \in 1..StepLen |-> EntryRow(GetIndices(row, col)[k])] = CutWindow(p)
<1> DEFINE arr == Padded(row, col)
           n == StepLen
<1>1. n \in Nat \ {0}
  BY SamplerParameters
<1>2. row \in Int /\ row >= -1
  BY PastIs
<1>3. NoIdx \in TableEntry /\ EntryRow(NoIdx) = NoRow /\ NoIdx.nan
  BY DEF NoIdx, TableEntry, EntryRow
<1>4. \A r \in 0..row : IdxDf(r, col) \in TableEntry
  <2> TAKE r \in 0..row
  <2> DEFINE q == [day |-> Days[r + 1], stock |-> Stocks[col + 1]]
  <2> QED BY IdxDfIs
<1>5. arr = [k \in 1..n |-> IF row + k - StepLen >= 0 THEN IdxDf(row + k - StepLen, col) ELSE NoIdx]
  BY <1>2, <1>4, PaddedIs
<1> HIDE DEF arr
<1>6. ASSUME NEW k \in 1..n
      PROVE  arr[k] \in TableEntry /\ EntryRow(arr[k]) = Raw(p, k) /\ (arr[k].nan <=> Raw(p, k) = NoRow)
  <2> DEFINE r == row + k - StepLen
  <2>1. r \in Int /\ r = (Cardinality(UpTo(DataDays, p.day)) - 1) + k - StepLen
    BY <1>1, <1>2
  <2>2. arr[k] = IF r >= 0 THEN IdxDf(r, col) ELSE NoIdx
    BY <1>5
  <2> HIDE DEF r
  <2>3. /\ r >= 0 => /\ IdxDf(r, col) \in TableEntry
                     /\ EntryRow(IdxDf(r, col)) = Raw(p, k)
                     /\ IdxDf(r, col).nan <=> Raw(p, k) = NoRow
        /\ r < 0 => Raw(p, k) = NoRow
    BY <2>1, RawIs
  <2> QED BY <1>3, <2>1, <2>2, <2>3
<1>7. arr \in [1..n -> TableEntry]
  BY <1>5, <1>6
<1> DEFINE got == GetIndices(row, col)
<1>8. got = IF fill = "none" THEN arr ELSE IF fill = "ffill" THEN Ffilled(arr) ELSE BothWays(arr)
  BY DEF GetIndices, Padded, BothWays, arr
<1> HIDE DEF got
<1>9. \A k \in 1..n : HasValue(arr, k) = {j \in Present(p) : j <= k}
  BY <1>1, <1>6 DEF HasValue, Present
<1>10. HasValue(arr, n) = Present(p)
  BY <1>1, <1>6 DEF HasValue, Present
<1>11. ASSUME NEW k \in 1..n, HasValue(arr, k) # {}
       PROVE  /\ Max(HasValue(arr, k)) \in HasValue(arr, k)
              /\ \A j \in HasValue(arr, k) : j <= Max(HasValue(arr, k))
  <2>1. HasValue(arr, k) \subseteq 0..n
    <3>1. \A j \in 1..k : j \in 0..n
      BY <1>1
    <3> QED BY <3>1 DEF HasValue
  <2> QED BY <1>1, <1>11, <2>1, MaxIsGreatest
<1>12. ASSUME HasValue(arr, n) # {}
       PROVE  Min(HasValue(arr, n)) \in HasValue(arr, n) /\ \A j \in HasValue(arr, n) : Min(HasValue(arr, n)) <= j
  <2>1. HasValue(arr, n) \in SUBSET Nat
    BY <1>1 DEF HasValue
  <2> QED BY <1>12, <2>1, MinIsLeast
<1>13. \A k \in 1..n : HasValue(arr, k) \subseteq 1..n /\ HasValue(arr, k) \subseteq HasValue(arr, n)
  BY <1>1 DEF HasValue
<1> DEFINE Meant(k) == IF fill # "none" /\ HasValue(arr, k) # {} THEN Raw(p, Max(HasValue(arr, k)))
                       ELSE IF fill = "ffill+bfill" /\ HasValue(arr, n) # {} THEN Raw(p, Min(HasValue(arr, n)))
                       ELSE Raw(p, k)
<1>14. CutWindow(p) = [k \in 1..n |-> Meant(k)]
  BY <1>9, <1>10 DEF CutWindow
<1>15. ASSUME NEW k \in 1..n, HasValue(arr, k) = {}
       PROVE  Raw(p, k) = NoRow /\ EntryRow(arr[1]) = NoRow
  <2>1. k \in 1..k /\ 1 \in 1..k /\ 1 \in 1..n
    BY <1>1
  <2>2. arr[k].nan /\ arr[1].nan
    BY <1>15, <2>1 DEF HasValue
  <2> QED BY <1>6, <2>1, <2>2 DEF EntryRow
<1>16. CASE fill = "none"
  <2>1. \A k \in 1..n : Meant(k) = Raw(p, k)
    BY <1>16
  <2>2. got = arr
    BY <1>8, <1>16
  <2> HIDE DEF Meant
  <2>3. \A k \in 1..n : EntryRow(got[k]) = Meant(k)
    BY <1>6, <2>1, <2>2
  <2> QED BY <1>7, <1>14, <2>2, <2>3 DEF got
<1>17. CASE fill = "ffill"
  <2>1. got = Ffilled(arr)
    BY <1>8, <1>17
  <2>2. /\ got \in [1..n -> TableEntry]
        /\ \A k \in 1..n :
              /\ HasValue(arr, k) = {} => got[k] = arr[1]
              /\ \A m \in HasValue(arr, k) : (\A j \in HasValue(arr, k) : j <= m) => got[k] = arr[m]
    BY <1>1, <1>7, <2>1, FfilledIs
  <2>3. ASSUME NEW k \in 1..n PROVE EntryRow(got[k]) = Meant(k)
    <3>1. CASE HasValue(arr, k) = {}
      <4>1. Meant(k) = Raw(p, k)
        BY <1>17, <3>1
      <4> HIDE DEF Meant
      <4> QED BY <1>15, <2>2, <3>1, <4>1
    <3>2. CASE HasValue(arr, k) # {}
      <4> DEFINE m == Max(HasValue(arr, k))
      <4>1. m \in HasValue(arr, k) /\ m \in 1..n /\ \A j \in HasValue(arr, k) : j <= m
        BY <1>11, <1>13, <3>2
      <4>2. Meant(k) = Raw(p, m)
        BY <1>17, <3>2
      <4> HIDE DEF Meant, m
      <4> QED BY <1>6, <2>2, <4>1, <4>2
    <3> QED BY <3>1, <3>2
  <2> HIDE DEF Meant
  <2> QED BY <1>14, <2>2, <2>3 DEF got
<1>18. CASE fill = "ffill+bfill"
  <2>1. got = BothWays(arr)
    BY <1>8, <1>18
  <2>2. /\ got \in [1..n -> TableEntry]
        /\ \A k \in 1..n :
              /\ HasValue(arr, n) = {} => got[k] = arr[1]
              /\ \A m \in HasValue(arr, k) : (\A j \in HasValue(arr, k) : j <= m) => got[k] = arr[m]
              /\ HasValue(arr, k) = {} =>
                    \A m \in HasValue(arr, n) : (\A j \in HasValue(arr, n) : m <= j) => got[k] = arr[m]
    BY <1>1, <1>7, <2>1, BothWaysIs
  <2>3. ASSUME NEW k \in 1..n PROVE EntryRow(got[k]) = Meant(k)
    <3>1. CASE HasValue(arr, k) # {}
      <4> DEFINE m == Max(HasValue(arr, k))
      <4>1. m \in HasValue(arr, k) /\ m \in 1..n /\ \A j \in HasValue(arr, k) : j <= m
        BY <1>11, <1>13, <3>1
      <4>2. Meant(k) = Raw(p, m)
        BY <1>18, <3>1
      <4> HIDE DEF Meant, m
      <4> QED BY <1>6, <2>2, <4>1, <4>2
    <3>2. CASE HasValue(arr, k) = {} /\ HasValue(arr, n) # {}
      <4> DEFINE m == Min(HasValue(arr, n))
      <4>1. n \in 1..n
        BY <1>1
      <4>2. m \in HasValue(arr, n) /\ m \in 1..n /\ \A j \in HasValue(arr, n) : m <= j
        BY <1>12, <1>13, <3>2, <4>1
      <4>3. Meant(k) = Raw(p, m)
        BY <1>18, <3>2
      <4> HIDE DEF Meant, m
      <4> QED BY <1>6, <2>2, <3>2, <4>2, <4>3
    <3>3. CASE HasValue(arr, k) = {} /\ HasValue(arr, n) = {}
      <4>1. Meant(k) = Raw(p, k)
        BY <3>3
      <4> HIDE DEF Meant
      <4> QED BY <1>15, <2>2, <3>3, <4>1
    <3> QED BY <3>1, <3>2, <3>3
  <2> HIDE DEF Meant
  <2> QED BY <1>14, <2>2, <2>3 DEF got
<1> QED BY <1>16, <1>17, <1>18 DEF SamplerOK, Fills

-----------------------------------------------------------------------------
(* Answers.                                                                 *)

\* A day's row and a stock's column in the table.
LEMMA ColumnIs ==
    ASSUME SamplerOK, NEW p \in Data
    PROVE  /\ Column(p, (CHOOSE j \in 1..Len(Stocks) : Stocks[j] = p.stock) - 1)
           /\ (CHOOSE i \in 1..Len(Days) : Days[i] = p.day) = Cardinality(UpTo(DataDays, p.day))
<1>1. /\ DataDays \in SUBSET Int /\ IsFiniteSet(DataDays) /\ Days = Sorted(DataDays)
      /\ DataStocks \in SUBSET Int /\ IsFiniteSet(DataStocks) /\ Stocks = Sorted(DataStocks)
  BY DataSets
<1>2. p.day \in DataDays /\ p.stock \in DataStocks
  BY DEF DataDays, DataStocks
<1>3. Len(Days) = Cardinality(DataDays) /\ Len(Stocks) = Cardinality(DataStocks)
      /\ Len(Days) \in Nat /\ Len(Stocks) \in Nat
  <2>1. Cardinality(DataDays) \in Nat /\ Cardinality(DataStocks) \in Nat
    BY <1>1, FS_CardinalityType
  <2>2. Days \in [1..Cardinality(DataDays) -> DataDays] /\ Stocks \in [1..Cardinality(DataStocks) -> DataStocks]
    BY <1>1, SortedIs
  <2> QED BY <2>1, <2>2
<1>4. \E j \in 1..Len(Stocks) : Stocks[j] = p.stock
  BY <1>1, <1>2, <1>3, SortedIs
<1>5. Column(p, (CHOOSE j \in 1..Len(Stocks) : Stocks[j] = p.stock) - 1)
  <2> DEFINE j == CHOOSE j \in 1..Len(Stocks) : Stocks[j] = p.stock
  <2>1. j \in 1..Len(Stocks) /\ Stocks[j] = p.stock
    BY <1>4
  <2> HIDE DEF j
  <2>2. Column(p, j - 1)
    <3>1. j - 1 \in Nat /\ j - 1 < Len(Stocks) /\ (j - 1) + 1 = j
      BY <1>3, <2>1
    <3> QED BY <2>1, <3>1 DEF Column
  <2> QED BY <2>2 DEF j
<1>6. (CHOOSE i \in 1..Len(Days) : Days[i] = p.day) = Cardinality(UpTo(DataDays, p.day))
  <2> DEFINE c == Cardinality(UpTo(DataDays, p.day))
  <2>1. c \in 1..Len(Days) /\ Days[c] = p.day
    BY <1>1, <1>2, <1>3, SortedAt
  <2>2. ASSUME NEW i \in 1..Len(Days), Days[i] = p.day PROVE i = c
    BY <1>1, <1>3, <2>2, SortedPlace
  <2> HIDE DEF c
  <2>3. (CHOOSE i \in 1..Len(Days) : Days[i] = p.day) = c
    BY <2>1, <2>2
  <2> QED BY <2>3 DEF c
<1> QED BY <1>5, <1>6

Samples == InOrder({p \in keep : p.day \in segment.first..segment.last})

LEMMA IndexedAre ==
    ASSUME SamplerOK
    PROVE  /\ DataIndex \in Seq(Data)
           /\ \A k \in 1..Len(DataIndex) :
                 /\ DataIndex[k] \in Data /\ DataIndex[k] \in Row /\ DataIndex[k] \in frame
                 /\ DataIndex[k].day >= segment.first
<1> DEFINE S == {p \in keep \intersect Data : p.day >= segment.first}
<1>1. Data \subseteq frame /\ frame \subseteq Row
  BY DataSets
<1>2. S \in SUBSET Data /\ \A p \in S : p.day >= segment.first
  OBVIOUS
<1>3. DataIndex = InOrder(S)
  BY DEF DataIndex
<1> HIDE DEF S
<1>4. S \in SUBSET Row
  BY <1>1, <1>2
<1>5. DataIndex \in Seq(S)
  BY <1>3, <1>4, InOrderIs
<1>6. DataIndex \in Seq(Data)
  BY <1>2, <1>5, SeqMonotonic
<1>7. \A k \in 1..Len(DataIndex) : DataIndex[k] \in S
  BY <1>5, ElementOfSeq
<1> QED BY <1>1, <1>2, <1>6, <1>7

\* Unless the calendar lacks days of the frame, the samples are those of the segment.
LEMMA SamplesAre ==
    ASSUME SamplerOK, NoDayDropped
    PROVE  DataIndex = Samples
<1> DEFINE S == {p \in keep \intersect Data : p.day >= segment.first}
           T == {p \in keep : p.day \in segment.first..segment.last}
<1>1. /\ \A d \in DataDays : d \in 1..LastRow /\ d >= PadStart /\ d <= segment.last
      /\ Data \subseteq frame /\ frame \subseteq Row
  BY DataSets
<1>2. \A r \in frame : r.day \in Int
  BY <1>1 DEF Row
<1>3. segment.first \in Int /\ segment.last \in Int /\ keep \subseteq frame
  BY DEF SamplerOK
<1>4. ASSUME NEW p \in S PROVE p \in T
  <2>1. p.day \in DataDays /\ p.day >= segment.first /\ p \in keep
    BY DEF DataDays
  <2>2. p.day <= segment.last /\ p.day \in Int
    BY <1>1, <1>2, <1>3, <2>1
  <2>3. p.day \in segment.first..segment.last
    BY <1>3, <2>1, <2>2
  <2> QED BY <2>1, <2>3
<1>5. ASSUME NEW p \in T PROVE p \in S
  <2>1. p \in frame /\ p.day \in Int /\ p.day >= segment.first /\ p.day <= segment.last
    BY <1>2, <1>3
  <2>2. p.day \in inferDays
    BY <2>1 DEF NoDayDropped
  <2>3. p.day >= PadStart
    BY <1>3, <2>1, <2>2, PadStartIs
  <2> QED BY <2>1, <2>3 DEF Data
<1>6. S = T
  <2> HIDE DEF S, T
  <2> QED BY <1>4, <1>5
<1>7. DataIndex = InOrder(S) /\ Samples = InOrder(T)
  BY DEF DataIndex, Samples
<1> HIDE DEF S, T
<1> QED BY <1>6, <1>7

\* Unless a day has been dropped, the window of a day of the segment is not cut.
LEMMA WindowWhole ==
    ASSUME SamplerOK, NoDayDropped, NEW p \in Row, p.day >= segment.first
    PROVE  SampleWindow(p) = CutWindow(p)
<1> DEFINE P == PastDays(p)
           n == Cardinality(P)
           there == {q.day : q \in frame}
           L == {e \in DaysBefore : e >= PadStart}
<1>1. /\ StepLen \in Nat \ {0} /\ p.day \in Int /\ segment.first \in Int /\ segment.last \in Int
      /\ segment.first <= segment.last
  BY SamplerParameters DEF SamplerOK, Row
<1>2. there \subseteq 1..LastRow /\ inferDays \subseteq 1..LastRow /\ LastRow \in Nat
  BY SamplerParameters DEF SamplerOK, Row
<1>3. P \subseteq there /\ \A d \in there : d <= p.day /\ d <= segment.last => d \in P
  BY DEF PastDays
<1>4. IsFiniteSet(P) /\ n \in Nat /\ P \in SUBSET Int
  <2>1. IsFiniteSet(1..LastRow)
    BY <1>2, FS_Interval
  <2>2. P \subseteq 1..LastRow
    BY <1>2, <1>3
  <2> HIDE DEF P
  <2>3. P \in SUBSET Int
    BY <2>2
  <2> QED BY <2>1, <2>2, <2>3, FS_Subset, FS_CardinalityType
<1>5. there \subseteq inferDays /\ \A d \in DaysBefore \ there : Cardinality({e \in DaysBefore : e >= d}) > StepLen
  BY DEF NoDayDropped
<1>6. Len(Sorted(P)) = n
  <2>1. Sorted(P) \in [1..n -> P]
    BY <1>4, SortedIs
  <2> HIDE DEF n, P
  <2> QED BY <1>4, <2>1
<1> HIDE DEF P, n
<1>7. ASSUME NEW k \in 1..StepLen, At(p, k) >= 1
      PROVE  Sorted(PastDays(p))[At(p, k)] >= PadStart
  <2> DEFINE i == At(p, k)
             x == Sorted(P)[i]
  <2>1. i = n - StepLen + k /\ i \in 1..n
    BY <1>1, <1>4, <1>6, <1>7 DEF At, P
  <2> HIDE DEF i
  <2>2. x \in P /\ Cardinality(UpTo(P, x)) = i
    BY <1>4, <2>1, SortedPlace DEF n
  <2> HIDE DEF x
  <2>3. x \in inferDays /\ x \in Int /\ PadStart \in Int
    BY <1>2, <1>3, <1>5, <2>2, PadStartIs
  <2>4. SUFFICES ASSUME x < PadStart PROVE FALSE
    BY <2>3 DEF x, i, P
  <2>5. Cardinality(L) = StepLen
    BY <2>3, <2>4, PadStartIs
  <2>6. IsFiniteSet(DaysBefore) /\ \A d \in DaysBefore : d \in Int /\ d < segment.first
    <3>1. IsFiniteSet(1..LastRow)
      BY <1>2, FS_Interval
    <3>2. DaysBefore \subseteq 1..LastRow /\ \A d \in DaysBefore : d < segment.first
      BY <1>2 DEF DaysBefore
    <3>3. IsFiniteSet(DaysBefore)
      BY <3>1, <3>2, FS_Subset
    <3>4. \A d \in DaysBefore : d \in Int
      BY <3>2
    <3> QED BY <3>2, <3>3, <3>4
  <2>7. IsFiniteSet(L)
    BY <2>6, FS_Subset
  <2>8. ASSUME NEW d \in L PROVE d \in P
    <3> DEFINE M == {e \in DaysBefore : e >= d}
    <3>1. M \subseteq L
      BY <2>3, <2>6
    <3>2. Cardinality(M) <= StepLen /\ Cardinality(M) \in Nat
      BY <2>5, <2>7, <3>1, FS_Subset, FS_CardinalityType
    <3> HIDE DEF M
    <3>3. ~(Cardinality(M) > StepLen)
      BY <1>1, <3>2
    <3>4. d \in there
      BY <1>5, <3>3 DEF M
    <3>5. d <= p.day /\ d <= segment.last
      BY <1>1, <2>6
    <3> QED BY <1>3, <3>4, <3>5
  <2>9. L \subseteq P \ UpTo(P, x)
    BY <2>3, <2>4, <2>6, <2>8 DEF UpTo
  <2> HIDE DEF L
  <2>10. /\ IsFiniteSet(P \ UpTo(P, x))
         /\ Cardinality(P \ UpTo(P, x)) = n - Cardinality(P \cap UpTo(P, x))
    BY <1>4, FS_Difference DEF n
  <2>11. P \cap UpTo(P, x) = UpTo(P, x)
    BY DEF UpTo
  <2>12. Cardinality(L) <= Cardinality(P \ UpTo(P, x))
    BY <2>9, <2>10, FS_Subset
  <2> QED BY <1>1, <1>4, <2>1, <2>2, <2>5, <2>10, <2>11, <2>12
<1> DEFINE raw(k) == IF At(p, k) >= 1 /\ [p EXCEPT !.day = Sorted(PastDays(p))[At(p, k)]] \in frame
                     THEN [p EXCEPT !.day = Sorted(PastDays(p))[At(p, k)]] ELSE NoRow
           here == {k \in 1..StepLen : raw(k) # NoRow}
<1>8. SampleWindow(p) = [k \in 1..StepLen |->
                          IF fill # "none" /\ {j \in here : j <= k} # {}
                          THEN raw(Max({j \in here : j <= k}))
                          ELSE IF fill = "ffill+bfill" /\ here # {} THEN raw(Min(here))
                          ELSE raw(k)]
  BY DEF SampleWindow, PastDays, At
<1>9. \A k \in 1..StepLen : raw(k) = Raw(p, k)
  BY <1>7 DEF Raw
<1> HIDE DEF raw
<1>10. here = Present(p)
  BY <1>9 DEF Present
<1> HIDE DEF here
<1>11. ASSUME NEW k \in 1..StepLen, {j \in here : j <= k} # {}
       PROVE  Max({j \in here : j <= k}) \in 1..StepLen
  <2> DEFINE D == {j \in here : j <= k}
  <2>1. D \subseteq 0..StepLen /\ D \subseteq 1..StepLen
    BY <1>1, <1>10 DEF Present
  <2> HIDE DEF D
  <2>2. Max(D) \in D
    BY <1>1, <1>11, <2>1, MaxIsGreatest DEF D
  <2> QED BY <2>1, <2>2 DEF D
<1>12. ASSUME here # {} PROVE Min(here) \in 1..StepLen
  <2>1. here \in SUBSET Nat /\ here \subseteq 1..StepLen
    BY <1>1, <1>10 DEF Present
  <2>2. Min(here) \in here
    BY <1>12, <2>1, MinIsLeast
  <2> QED BY <2>1, <2>2
<1>13. \A k \in 1..StepLen :
          (IF fill # "none" /\ {j \in here : j <= k} # {}
           THEN raw(Max({j \in here : j <= k}))
           ELSE IF fill = "ffill+bfill" /\ here # {} THEN raw(Min(here)) ELSE raw(k))
          = (IF fill # "none" /\ {j \in here : j <= k} # {}
             THEN Raw(p, Max({j \in here : j <= k}))
             ELSE IF fill = "ffill+bfill" /\ here # {} THEN Raw(p, Min(here)) ELSE Raw(p, k))
  <2> TAKE k \in 1..StepLen
  <2>1. {j \in here : j <= k} # {} => raw(Max({j \in here : j <= k})) = Raw(p, Max({j \in here : j <= k}))
    BY <1>9, <1>11
  <2>2. here # {} => raw(Min(here)) = Raw(p, Min(here))
    BY <1>9, <1>12
  <2>3. raw(k) = Raw(p, k)
    BY <1>9
  <2> QED BY <2>1, <2>2, <2>3, Zenon
<1> QED BY <1>8, <1>10, <1>13 DEF CutWindow

Found(n) == GetIndices(IdxMap(n)[1], IdxMap(n)[2])

\* A sample by its number.
LEMMA NumberIs ==
    ASSUME SamplerOK, NEW n \in 0..(Len(DataIndex) - 1)
    PROVE  /\ Found(n) \in [1..StepLen -> TableEntry]
           /\ [k \in 1..StepLen |-> EntryRow(Found(n)[k])] = CutWindow(DataIndex[n + 1])
<1> DEFINE p == DataIndex[n + 1]
<1>1. p \in Data /\ p \in Row
  <2>1. Len(DataIndex) \in Nat
    BY IndexedAre
  <2>2. n + 1 \in 1..Len(DataIndex)
    BY <2>1
  <2> QED BY <2>2, IndexedAre
<1> HIDE DEF p
<1> DEFINE row == (CHOOSE i \in 1..Len(Days) : Days[i] = p.day) - 1
           col == (CHOOSE j \in 1..Len(Stocks) : Stocks[j] = p.stock) - 1
<1>2. Found(n) = GetIndices(row, col)
  <2>1. DataIndex[n + 1] = p
    BY <1>1 DEF p
  <2>2. IdxMap(n) = <<row, col>>
    BY <2>1 DEF IdxMap
  <2> HIDE DEF row, col
  <2>3. <<row, col>>[1] = row /\ <<row, col>>[2] = col
    OBVIOUS
  <2> QED BY <2>2, <2>3 DEF Found
<1>3. Column(p, col) /\ row = Cardinality(UpTo(DataDays, p.day)) - 1
  BY <1>1, ColumnIs
<1> HIDE DEF row, col
<1>4. /\ GetIndices(row, col) \in [1..StepLen -> TableEntry]
      /\ [k \in 1..StepLen |-> EntryRow(GetIndices(row, col)[k])] = CutWindow(p)
  BY <1>1, <1>3, IndicesAre
<1> QED BY <1>2, <1>4 DEF p

EntryRows(f, n) == [k \in 1..n |-> EntryRow(f[k])]

\* Windows one after the other.
LEMMA JoinedRows ==
    ASSUME SamplerOK, NEW n \in Nat, NEW f \in [1..n -> TableEntry], NEW g \in [1..n -> TableEntry]
    PROVE  /\ f \o g \in [1..(n + n) -> TableEntry]
           /\ EntryRows(f \o g, n + n) = EntryRows(f, n) \o EntryRows(g, n)
<1> DEFINE X == {EntryRow(i) : i \in TableEntry}
           a == [k \in 1..n |-> EntryRow(f[k])]
           b == [k \in 1..n |-> EntryRow(g[k])]
           h == f \o g
<1>1. f \in Seq(TableEntry) /\ g \in Seq(TableEntry) /\ Len(f) = n /\ Len(g) = n
  OBVIOUS
<1>2. a \in [1..n -> X] /\ b \in [1..n -> X]
  OBVIOUS
<1>3. \A k \in 1..n : a[k] = EntryRow(f[k]) /\ b[k] = EntryRow(g[k])
  OBVIOUS
<1> HIDE DEF a, b, X
<1>4. a \in Seq(X) /\ b \in Seq(X) /\ Len(a) = n /\ Len(b) = n
  BY <1>2
<1>5. /\ h \in Seq(TableEntry) /\ Len(h) = n + n
      /\ \A k \in 1..(n + n) : h[k] = IF k <= n THEN f[k] ELSE g[k - n]
  <2>1. /\ f \o g \in Seq(TableEntry) /\ Len(f \o g) = Len(f) + Len(g)
        /\ \A k \in 1..(Len(f) + Len(g)) :
              (f \o g)[k] = IF k <= Len(f) THEN f[k] ELSE g[k - Len(f)]
    BY <1>1, ConcatProperties, SMTT(60)
  <2> QED BY <1>1, <2>1
<1> DEFINE c == a \o b
<1>6. /\ c \in Seq(X) /\ Len(c) = n + n
      /\ \A k \in 1..(n + n) : c[k] = IF k <= n THEN a[k] ELSE b[k - n]
  <2>1. /\ c \in Seq(X) /\ Len(c) = Len(a) + Len(b)
        /\ \A k \in 1..(Len(a) + Len(b)) : c[k] = IF k <= Len(a) THEN a[k] ELSE b[k - Len(a)]
    BY <1>4, ConcatProperties
  <2> HIDE DEF c
  <2> QED BY <1>4, <2>1
<1> HIDE DEF h, c
<1>7. h \in [1..(n + n) -> TableEntry] /\ c = [k \in 1..(n + n) |-> c[k]]
  BY <1>5, <1>6
<1>8. ASSUME NEW k \in 1..(n + n) PROVE EntryRow(h[k]) = c[k]
  <2>1. CASE k <= n
    <3>1. k \in 1..n
      BY <2>1
    <3> QED BY <1>3, <1>5, <1>6, <2>1, <3>1
  <2>2. CASE ~(k <= n)
    <3>1. k - n \in 1..n
      BY <2>2
    <3> QED BY <1>3, <1>5, <1>6, <2>2, <3>1
  <2> QED BY <2>1, <2>2
<1>9. [k \in 1..(n + n) |-> EntryRow(h[k])] = c
  BY <1>7, <1>8
<1> QED BY <1>7, <1>9 DEF h, c, a, b, EntryRows

\* What a question by number is answered, and what is meant by it.
AnsweredRows(numbers)    == TakenRows(FlattenSeq([k \in DOMAIN numbers |-> Found(numbers[k])]))
WindowsOf(numbers) == FlattenSeq([k \in DOMAIN numbers |-> CutWindow(DataIndex[numbers[k] + 1])])

LEMMA OneSample ==
    ASSUME SamplerOK, NEW n \in 0..(Len(DataIndex) - 1)
    PROVE  AnsweredRows(<<n>>) = WindowsOf(<<n>>)
<1>1. [k \in DOMAIN <<n>> |-> Found(<<n>>[k])] = <<Found(n)>>
  OBVIOUS
<1>2. [k \in DOMAIN <<n>> |-> CutWindow(DataIndex[<<n>>[k] + 1])] = <<CutWindow(DataIndex[n + 1])>>
  OBVIOUS
<1>3. AnsweredRows(<<n>>) = TakenRows(Found(n))
  BY <1>1, FlattenOne DEF AnsweredRows
<1>4. WindowsOf(<<n>>) = CutWindow(DataIndex[n + 1])
  BY <1>2, FlattenOne DEF WindowsOf
<1>5. TakenRows(Found(n)) = [k \in 1..StepLen |-> EntryRow(Found(n)[k])]
  BY NumberIs, SamplerParameters, TakenAre
<1> QED BY <1>3, <1>4, <1>5, NumberIs

LEMMA TwoSamples ==
    ASSUME SamplerOK, NEW n \in 0..(Len(DataIndex) - 1), NEW m \in 0..(Len(DataIndex) - 1)
    PROVE  AnsweredRows(<<n, m>>) = WindowsOf(<<n, m>>)
<1> DEFINE f == Found(n)
           g == Found(m)
           v == CutWindow(DataIndex[n + 1])
           w == CutWindow(DataIndex[m + 1])
<1>1. [k \in DOMAIN <<n, m>> |-> Found(<<n, m>>[k])] = <<f, g>>
  OBVIOUS
<1>2. [k \in DOMAIN <<n, m>> |-> CutWindow(DataIndex[<<n, m>>[k] + 1])] = <<v, w>>
  OBVIOUS
<1>3. /\ f \in [1..StepLen -> TableEntry] /\ g \in [1..StepLen -> TableEntry]
      /\ [k \in 1..StepLen |-> EntryRow(f[k])] = v /\ [k \in 1..StepLen |-> EntryRow(g[k])] = w
  BY NumberIs
<1> HIDE DEF f, g, v, w
<1>4. AnsweredRows(<<n, m>>) = TakenRows(f \o g)
  BY <1>1, FlattenTwo DEF AnsweredRows
<1>5. WindowsOf(<<n, m>>) = v \o w
  BY <1>2, FlattenTwo DEF WindowsOf
<1>6. StepLen \in Nat \ {0} /\ StepLen + StepLen \in Nat \ {0}
  BY SamplerParameters
<1>7. /\ f \o g \in [1..(StepLen + StepLen) -> TableEntry]
      /\ EntryRows(f \o g, StepLen + StepLen) = v \o w
  <2>1. EntryRows(f, StepLen) = v /\ EntryRows(g, StepLen) = w
    BY <1>3 DEF EntryRows
  <2>2. /\ f \o g \in [1..(StepLen + StepLen) -> TableEntry]
        /\ EntryRows(f \o g, StepLen + StepLen) = EntryRows(f, StepLen) \o EntryRows(g, StepLen)
    BY <1>3, <1>6, JoinedRows
  <2> QED BY <2>1, <2>2
<1>8. TakenRows(f \o g) = EntryRows(f \o g, StepLen + StepLen)
  BY <1>6, <1>7, TakenAre DEF EntryRows
<1> QED BY <1>4, <1>5, <1>7, <1>8

\* A window by day and stock.
LEMMA PointIs ==
    ASSUME SamplerOK, NEW p \in Row, p.stock \in DataStocks
    PROVE  LET row == Cardinality({i \in DOMAIN Days : Days[i] <= p.day}) - 1
               col == Cardinality({j \in DOMAIN Stocks : Stocks[j] < p.stock})
           IN  TakenRows(GetIndices(row, col)) = CutWindow(p)
<1> DEFINE row == Cardinality({i \in DOMAIN Days : Days[i] <= p.day}) - 1
           col == Cardinality({j \in DOMAIN Stocks : Stocks[j] < p.stock})
<1>1. /\ DataDays \in SUBSET Int /\ IsFiniteSet(DataDays) /\ Days = Sorted(DataDays)
      /\ DataStocks \in SUBSET Int /\ IsFiniteSet(DataStocks) /\ Stocks = Sorted(DataStocks)
  BY DataSets
<1>2. p.day \in Int /\ p.stock \in Int
  BY SamplerParameters DEF Row
<1>3. row = Cardinality(UpTo(DataDays, p.day)) - 1
  BY <1>1, <1>2, PlacesUpTo
<1>4. Column(p, col)
  <2> DEFINE x == p.stock
             c == Cardinality(UpTo(DataStocks, x))
             N == Cardinality(DataStocks)
  <2>1. c \in 1..N /\ Stocks[c] = x /\ N \in Nat
    BY <1>1, SortedAt, FS_CardinalityType
  <2>2. DOMAIN Stocks = 1..N /\ Len(Stocks) = N
    <3>1. Stocks \in [1..N -> DataStocks]
      BY <1>1, SortedIs
    <3> HIDE DEF N
    <3> QED BY <2>1, <3>1
  <2>3. \A i, j \in 1..N : i < j => Stocks[i] < Stocks[j]
    BY <1>1, SortedIs
  <2>4. \A i \in 1..N : Stocks[i] \in Int
    BY <1>1, SortedPlace
  <2> HIDE DEF x, c, N
  <2>5. ASSUME NEW j \in 1..N PROVE Stocks[j] < x <=> j <= c - 1
    <3>1. j < c => Stocks[j] < Stocks[c]
      BY <2>1, <2>3
    <3>2. c < j => Stocks[c] < Stocks[j]
      BY <2>1, <2>3
    <3>3. j = c => Stocks[j] = x
      BY <2>1
    <3>4. Stocks[j] \in Int /\ x \in Int /\ j \in Int /\ c \in Int
      BY <1>2, <2>1, <2>4 DEF x
    <3> QED BY <2>1, <3>1, <3>2, <3>3, <3>4
  <2>6. {j \in DOMAIN Stocks : Stocks[j] < x} = 1..(c - 1)
    BY <2>1, <2>2, <2>5
  <2>7. Cardinality(1..(c - 1)) = c - 1
    BY <2>1, FS_Interval
  <2>8. col = c - 1
    BY <2>6, <2>7 DEF x
  <2> HIDE DEF col
  <2> QED BY <2>1, <2>2, <2>8 DEF Column, x
<1> HIDE DEF row, col
<1>5. /\ GetIndices(row, col) \in [1..StepLen -> TableEntry]
      /\ [k \in 1..StepLen |-> EntryRow(GetIndices(row, col)[k])] = CutWindow(p)
  BY <1>3, <1>4, IndicesAre
<1>6. TakenRows(GetIndices(row, col)) = CutWindow(p)
  BY <1>5, SamplerParameters, TakenAre
<1> QED BY <1>6 DEF row, col

-----------------------------------------------------------------------------

SamplerInv == SamplerOK /\ SamplesTrue

LEMMA SameMeaning ==
    ASSUME UNCHANGED <<inferDays, frame, keep, segment, fill>>
    PROVE  /\ SamplerOK' <=> SamplerOK
           /\ \A p : (SampleWindow(p))' = SampleWindow(p)
           /\ NoDayDropped' = NoDayDropped /\ Samples' = Samples /\ DataStocks' = DataStocks
<1>1. inferDays' = inferDays /\ frame' = frame /\ segment' = segment /\ fill' = fill /\ keep' = keep
  OBVIOUS
<1>2. DaysBefore' = DaysBefore /\ PadStart' = PadStart
  BY <1>1 DEF DaysBefore, PadStart
<1>3. SamplerOK' <=> SamplerOK
  BY <1>1 DEF SamplerOK
<1>4. ASSUME NEW p PROVE (SampleWindow(p))' = SampleWindow(p)
  BY <1>1 DEF SampleWindow
<1>5. DataStocks' = DataStocks
  BY <1>1, <1>2 DEF DataStocks, Data
<1>6. Samples' = Samples
  BY <1>1 DEF Samples
<1>7. NoDayDropped' = NoDayDropped
  BY <1>1, <1>2 DEF NoDayDropped
<1> QED BY <1>3, <1>4, <1>5, <1>6, <1>7

\* A question by number, if the answer is what is meant.
LEMMA NumbersStep ==
    ASSUME SamplerOK, UNCHANGED <<inferDays, frame, keep, segment, fill>>, NEW numbers, GetNumbers(numbers),
           (\A k \in DOMAIN numbers : numbers[k] \in 0..(Len(DataIndex) - 1))
              => AnsweredRows(numbers) = WindowsOf(numbers)
    PROVE  SamplesTrue'
<1>1. CASE Built /\ \A k \in DOMAIN numbers : numbers[k] \in 0..(Len(DataIndex) - 1)
  <2>1. reply' = [numbers |-> numbers, at |-> NoRow, answer |-> AnsweredRows(numbers), status |-> "ok"]
    BY <1>1 DEF GetNumbers, Replies, AnsweredRows, Found
  <2>2. AnsweredRows(numbers) = WindowsOf(numbers)
    BY <1>1
  <2>3. ASSUME NoDayDropped
        PROVE  WindowsOf(numbers) =
                 FlattenSeq([k \in DOMAIN numbers |-> SampleWindow(Samples[numbers[k] + 1])])
    <3>1. DataIndex = Samples
      BY <2>3, SamplesAre
    <3>2. ASSUME NEW k \in DOMAIN numbers
          PROVE  CutWindow(DataIndex[numbers[k] + 1]) = SampleWindow(Samples[numbers[k] + 1])
      <4> DEFINE m == numbers[k] + 1
      <4>1. m \in 1..Len(DataIndex)
        <5>1. numbers[k] \in 0..(Len(DataIndex) - 1) /\ Len(DataIndex) \in Nat
          BY <1>1, <3>2, IndexedAre
        <5> QED BY <5>1
      <4> HIDE DEF m
      <4>2. DataIndex[m] \in Row /\ DataIndex[m].day >= segment.first
        BY <4>1, IndexedAre
      <4> QED BY <2>3, <3>1, <4>2, WindowWhole DEF m
    <3>3. [k \in DOMAIN numbers |-> CutWindow(DataIndex[numbers[k] + 1])]
          = [k \in DOMAIN numbers |-> SampleWindow(Samples[numbers[k] + 1])]
      BY <3>2
    <3> QED BY <3>3 DEF WindowsOf
  <2>4. ASSUME NoDayDropped'
        PROVE  reply'.answer =
                 FlattenSeq([k \in DOMAIN numbers |-> (SampleWindow(Samples[numbers[k] + 1]))'])
    <3>1. NoDayDropped
      BY <2>4, SameMeaning
    <3>2. reply'.answer = FlattenSeq([k \in DOMAIN numbers |-> SampleWindow(Samples[numbers[k] + 1])])
      BY <2>1, <2>2, <2>3, <3>1
    <3>3. \A k : (SampleWindow(Samples[numbers[k] + 1]))' = SampleWindow(Samples[numbers[k] + 1])
      BY SameMeaning
    <3> QED BY <3>2, <3>3
  <2>5. reply'.at = NoRow /\ reply'.numbers = numbers
    BY <2>1
  <2> QED BY <2>4, <2>5 DEF SamplesTrue, Samples
<1>2. CASE ~(Built /\ \A k \in DOMAIN numbers : numbers[k] \in 0..(Len(DataIndex) - 1))
  <2>1. reply'.status = "error"
    BY <1>2 DEF GetNumbers, Refuses
  <2> QED BY <2>1 DEF SamplesTrue
<1> QED BY <1>1, <1>2

LEMMA PointStep ==
    ASSUME SamplerOK, UNCHANGED <<inferDays, frame, keep, segment, fill>>, NEW p \in Row, GetAt(p)
    PROVE  SamplesTrue'
<1> DEFINE row == Cardinality({i \in DOMAIN Days : Days[i] <= p.day}) - 1
           col == Cardinality({j \in DOMAIN Stocks : Stocks[j] < p.stock})
           rows == TakenRows(GetIndices(row, col))
<1>1. CASE Built /\ col < Len(Stocks)
  <2>1. reply' = [numbers |-> <<>>, at |-> p, answer |-> rows, status |-> "ok"]
    BY <1>1 DEF GetAt, Replies
  <2>2. NoDayDropped /\ p.day >= segment.first /\ p.stock \in DataStocks => rows = SampleWindow(p)
    BY PointIs, WindowWhole
  <2> HIDE DEF rows
  <2>3. p # NoRow
    BY DataArrIs
  <2>4. reply'.at = p /\ reply'.at # NoRow /\ reply'.answer = rows
    BY <2>1, <2>3
  <2>5. NoDayDropped' /\ p.day >= segment'.first /\ p.stock \in DataStocks' => rows = (SampleWindow(p))'
    BY <2>2, SameMeaning
  <2> QED BY <2>4, <2>5 DEF SamplesTrue, DataStocks
<1>2. CASE ~(Built /\ col < Len(Stocks))
  <2>1. reply'.status = "error"
    BY <1>2 DEF GetAt, Refuses
  <2> QED BY <2>1 DEF SamplesTrue
<1> QED BY <1>1, <1>2

\* Samples of a time series dataset: a sample asked for by number, a pair of neighbouring
\* numbers, or a day and a stock, is answered with the StepLen rows of its own stock up to its
\* own day, filled from within that window, for every frame with gaps, filter and segment,
\* although neighbouring rows are taken as a slice of the array and missing ones through the
\* row of NaN behind it (TSDataSampler.__getitem__, _get_indices, build_index).
THEOREM SamplesAreTrue == SamplerSpec => []SamplesTrue
<1>1. SamplerInit => SamplerInv
  BY DEF SamplerInit, SamplerInv, SamplerOK, SamplesTrue, NoReply
<1>2. SamplerInv /\ [SamplerNext]_samplerVars => SamplerInv'
  <2> SUFFICES ASSUME SamplerInv, [SamplerNext]_samplerVars PROVE SamplerInv'
    OBVIOUS
  <2>1. SamplerOK
    BY DEF SamplerInv
  <2>2. UNCHANGED <<inferDays, frame, keep, segment, fill>>
    BY DEF SamplerNext, samplerVars
  <2>3. SamplerOK'
    BY <2>1, <2>2, SameMeaning
  <2>4. ASSUME NEW n \in Nat, GetNumbers(<<n>>) PROVE SamplesTrue'
    <3>1. (\A k \in DOMAIN <<n>> : <<n>>[k] \in 0..(Len(DataIndex) - 1)) => n \in 0..(Len(DataIndex) - 1)
      <4>1. 1 \in DOMAIN <<n>> /\ <<n>>[1] = n
        OBVIOUS
      <4> QED BY <4>1
    <3> QED BY <2>1, <2>2, <2>4, <3>1, OneSample, NumbersStep
  <2>5. ASSUME NEW n \in Nat, GetNumbers(<<n, n + 1>>) PROVE SamplesTrue'
    <3> DEFINE m == n + 1
    <3>1. (\A k \in DOMAIN <<n, m>> : <<n, m>>[k] \in 0..(Len(DataIndex) - 1))
             => n \in 0..(Len(DataIndex) - 1) /\ m \in 0..(Len(DataIndex) - 1)
      <4>1. 1 \in DOMAIN <<n, m>> /\ <<n, m>>[1] = n /\ 2 \in DOMAIN <<n, m>> /\ <<n, m>>[2] = m
        OBVIOUS
      <4> HIDE DEF m
      <4> QED BY <4>1
    <3>2. GetNumbers(<<n, m>>)
      BY <2>5
    <3> HIDE DEF m
    <3> QED BY <2>1, <2>2, <3>1, <3>2, TwoSamples, NumbersStep
  <2>6. CASE SamplerNext
    <3>1. ASSUME NEW n \in 0..Cardinality(Row), GetNumbers(<<n>>) \/ GetNumbers(<<n, n + 1>>)
          PROVE  SamplesTrue'
      BY <2>4, <2>5, <3>1
    <3>2. ASSUME NEW p \in Row, GetAt(p) PROVE SamplesTrue'
      BY <2>1, <2>2, <3>2, PointStep
    <3> QED BY <2>3, <2>6, <3>1, <3>2 DEF SamplerNext, SamplerInv
  <2>7. CASE UNCHANGED samplerVars
    <3>1. reply' = reply
      BY <2>7 DEF samplerVars
    <3>2. SamplesTrue
      BY DEF SamplerInv
    <3>3. SamplesTrue'
      BY <2>2, <3>1, <3>2, SameMeaning DEF SamplesTrue, Samples, DataStocks
    <3> QED BY <2>3, <3>3 DEF SamplerInv
  <2> QED BY <2>6, <2>7
<1>3. SamplerInv => SamplesTrue
  BY DEF SamplerInv
<1> QED BY <1>1, <1>2, <1>3, PTL DEF SamplerSpec

-----------------------------------------------------------------------------

(***************************************************************************)
(* From stored data to what models learn from: a query's days are not      *)
(* changed by where its range begins and ends; a sample is the window of   *)
(* its own day and stock; and no prepared frame has seen the test data.    *)
(***************************************************************************)
THEOREM FeaturesAreTrue == ExpressionSpec /\ SamplerSpec /\ PreparationSpec => []FeaturesTrue
<1>1. WindowEnough /\ SamplesTrue /\ PreparationTrue => FeaturesTrue
  BY DEF FeaturesTrue
<1> QED BY <1>1, WindowsAreEnough, SamplesAreTrue, PreparationIsTrue, PTL

-----------------------------------------------------------------------------
(* The types of the sampler and of the preparation.                        *)

AnyRows == Seq(Row \union {NoRow})

\* What is taken from the array is rows of the frame and rows of NaN.
LEMMA TakenTyped ==
    ASSUME SamplerOK, NEW m \in Nat \ {0}, NEW indices \in [1..m -> TableEntry]
    PROVE  TakenRows(indices) \in AnyRows
<1> DEFINE rows == [k \in 1..m |-> EntryRow(indices[k])]
<1>1. TakenRows(indices) = rows
  BY TakenAre
<1>2. ASSUME NEW i \in TableEntry PROVE EntryRow(i) \in Row \union {NoRow}
  <2>1. CASE i.nan
    BY <2>1 DEF EntryRow
  <2>2. CASE ~i.nan
    <3>1. i.idx \in Nat /\ i.idx < DataCount
      BY <2>2 DEF TableEntry
    <3>2. DataCount \in Nat /\ \A j \in 1..DataCount : DataArr[j] \in Row
      BY DataArrIs
    <3>3. i.idx + 1 \in 1..DataCount
      BY <3>1, <3>2
    <3>4. DataArr[i.idx + 1] \in Row
      BY <3>2, <3>3
    <3> QED BY <2>2, <3>4 DEF EntryRow
  <2> QED BY <2>1, <2>2
<1>3. rows \in [1..m -> Row \union {NoRow}]
  BY <1>2
<1> HIDE DEF rows
<1>4. rows \in Seq(Row \union {NoRow})
  BY <1>3
<1> QED BY <1>1, <1>4 DEF AnyRows

LEMMA OneTyped ==
    ASSUME SamplerOK, NEW n \in 0..(Len(DataIndex) - 1)
    PROVE  AnsweredRows(<<n>>) \in AnyRows
<1>1. [k \in DOMAIN <<n>> |-> Found(<<n>>[k])] = <<Found(n)>>
  OBVIOUS
<1>2. AnsweredRows(<<n>>) = TakenRows(Found(n))
  BY <1>1, FlattenOne DEF AnsweredRows
<1> QED BY <1>2, NumberIs, SamplerParameters, TakenTyped

LEMMA TwoTyped ==
    ASSUME SamplerOK, NEW n \in 0..(Len(DataIndex) - 1), NEW m \in 0..(Len(DataIndex) - 1)
    PROVE  AnsweredRows(<<n, m>>) \in AnyRows
<1> DEFINE f == Found(n)
           g == Found(m)
<1>1. [k \in DOMAIN <<n, m>> |-> Found(<<n, m>>[k])] = <<f, g>>
  OBVIOUS
<1>2. f \in [1..StepLen -> TableEntry] /\ g \in [1..StepLen -> TableEntry]
  BY NumberIs
<1> HIDE DEF f, g
<1>3. AnsweredRows(<<n, m>>) = TakenRows(f \o g)
  BY <1>1, FlattenTwo DEF AnsweredRows
<1>4. StepLen \in Nat /\ StepLen + StepLen \in Nat \ {0}
  BY SamplerParameters
<1>5. f \o g \in [1..(StepLen + StepLen) -> TableEntry]
  BY <1>2, <1>4, JoinedRows
<1> QED BY <1>3, <1>4, <1>5, TakenTyped

\* By day and stock: the column of a stock that has rows, whichever it is.
LEMMA PointTyped ==
    ASSUME SamplerOK, NEW p \in Row, NEW col \in Nat, col < Len(Stocks),
           NEW row, row = Cardinality({i \in DOMAIN Days : Days[i] <= p.day}) - 1
    PROVE  TakenRows(GetIndices(row, col)) \in AnyRows
<1> DEFINE N == Cardinality(DataStocks)
           q == [day |-> p.day, stock |-> Stocks[col + 1]]
<1>1. /\ DataDays \in SUBSET Int /\ IsFiniteSet(DataDays) /\ Days = Sorted(DataDays)
      /\ DataStocks \in SUBSET Int /\ IsFiniteSet(DataStocks) /\ Stocks = Sorted(DataStocks)
  BY DataSets
<1>2. N \in Nat /\ Stocks \in [1..N -> DataStocks]
  BY <1>1, SortedIs, FS_CardinalityType
<1>3. Len(Stocks) = N
  <2> HIDE DEF N
  <2> QED BY <1>2
<1> HIDE DEF N
<1>4. Stocks[col + 1] \in DataStocks
  <2>1. col + 1 \in 1..N
    BY <1>2, <1>3
  <2> QED BY <1>2, <2>1
<1>5. q \in Row
  <2>1. \A r \in Data : r.stock \in 1..NumStock
    BY DataSets DEF Row
  <2>2. Stocks[col + 1] \in 1..NumStock
    BY <1>4, <2>1 DEF DataStocks
  <2> QED BY <2>2 DEF Row
<1>6. q.day = p.day /\ q.stock = Stocks[col + 1]
  OBVIOUS
<1> HIDE DEF q
<1>7. p.day \in Int
  BY SamplerParameters DEF Row
<1>8. row = Cardinality(UpTo(DataDays, q.day)) - 1
  BY <1>1, <1>6, <1>7, PlacesUpTo
<1>9. Column(q, col)
  BY <1>6 DEF Column
<1>10. GetIndices(row, col) \in [1..StepLen -> TableEntry]
  BY <1>5, <1>8, <1>9, IndicesAre
<1> QED BY <1>10, SamplerParameters, TakenTyped

SamplerTypeInv == SamplerOK /\ SamplerTypeOK

LEMMA NumbersType ==
    ASSUME NEW numbers, GetNumbers(numbers),
           (\A k \in DOMAIN numbers : numbers[k] \in 0..(Len(DataIndex) - 1))
              => AnsweredRows(numbers) \in AnyRows
    PROVE  reply'.answer \in AnyRows /\ reply'.status \in {"none", "ok", "error"}
<1>1. CASE Built /\ \A k \in DOMAIN numbers : numbers[k] \in 0..(Len(DataIndex) - 1)
  <2>1. reply' = [numbers |-> numbers, at |-> NoRow, answer |-> AnsweredRows(numbers), status |-> "ok"]
    BY <1>1 DEF GetNumbers, Replies, AnsweredRows, Found
  <2>2. AnsweredRows(numbers) \in AnyRows
    BY <1>1
  <2> HIDE DEF AnyRows
  <2> QED BY <2>1, <2>2
<1>2. CASE ~(Built /\ \A k \in DOMAIN numbers : numbers[k] \in 0..(Len(DataIndex) - 1))
  <2>1. reply' = [numbers |-> numbers, at |-> NoRow, answer |-> <<>>, status |-> "error"]
    BY <1>2 DEF GetNumbers, Refuses
  <2>2. <<>> \in AnyRows
    BY DEF AnyRows
  <2> QED BY <2>1, <2>2
<1> QED BY <1>1, <1>2

LEMMA PointType ==
    ASSUME SamplerOK, NEW p \in Row, GetAt(p)
    PROVE  reply'.answer \in AnyRows /\ reply'.status \in {"none", "ok", "error"}
<1> DEFINE row == Cardinality({i \in DOMAIN Days : Days[i] <= p.day}) - 1
           col == Cardinality({j \in DOMAIN Stocks : Stocks[j] < p.stock})
           rows == TakenRows(GetIndices(row, col))
<1>1. CASE Built /\ col < Len(Stocks)
  <2>1. reply' = [numbers |-> <<>>, at |-> p, answer |-> rows, status |-> "ok"]
    BY <1>1 DEF GetAt, Replies
  <2>2. col \in Nat
    <3>1. DataStocks \in SUBSET Int /\ IsFiniteSet(DataStocks) /\ Stocks = Sorted(DataStocks)
      BY DataSets
    <3>2. DOMAIN Stocks = 1..Cardinality(DataStocks) /\ Cardinality(DataStocks) \in Nat
      BY <3>1, SortedIs, FS_CardinalityType
    <3>3. IsFiniteSet(1..Cardinality(DataStocks))
      BY <3>2, FS_Interval
    <3>4. IsFiniteSet({j \in DOMAIN Stocks : Stocks[j] < p.stock})
      BY <3>2, <3>3, FS_Subset
    <3> QED BY <3>4, FS_CardinalityType
  <2> HIDE DEF row, col
  <2>3. rows \in AnyRows
    BY <1>1, <2>2, PointTyped DEF row
  <2> HIDE DEF rows
  <2> QED BY <2>1, <2>3
<1>2. CASE ~(Built /\ col < Len(Stocks))
  <2>1. reply' = [numbers |-> <<>>, at |-> p, answer |-> <<>>, status |-> "error"]
    BY <1>2 DEF GetAt, Refuses
  <2>2. <<>> \in AnyRows
    BY DEF AnyRows
  <2> QED BY <2>1, <2>2
<1> QED BY <1>1, <1>2

LEMMA SamplerTypeInit == SamplerInit => SamplerTypeInv
<1> SUFFICES ASSUME SamplerInit PROVE SamplerTypeInv
  OBVIOUS
<1>1. SamplerOK
  BY DEF SamplerInit, SamplerOK
<1>2. reply.answer = <<>> /\ reply.status = "none"
  BY DEF SamplerInit, NoReply
<1>3. reply.answer \in Seq(Row \union {NoRow})
  BY <1>2
<1> QED BY <1>1, <1>2, <1>3 DEF SamplerInit, SamplerTypeInv, SamplerTypeOK

LEMMA SamplerTypeNext == SamplerTypeInv /\ [SamplerNext]_samplerVars => SamplerTypeInv'
<1> SUFFICES ASSUME SamplerTypeInv, [SamplerNext]_samplerVars PROVE SamplerTypeInv'
  OBVIOUS
<1>1. SamplerOK /\ SamplerTypeOK
  BY DEF SamplerTypeInv
<1>2. UNCHANGED <<inferDays, frame, keep, segment, fill>>
  BY DEF SamplerNext, samplerVars
<1>3. SamplerOK'
  BY <1>1, <1>2, SameMeaning
<1>4. reply'.answer \in AnyRows /\ reply'.status \in {"none", "ok", "error"}
  <2>1. ASSUME NEW n \in Nat, GetNumbers(<<n>>)
        PROVE  reply'.answer \in AnyRows /\ reply'.status \in {"none", "ok", "error"}
    <3>1. (\A k \in DOMAIN <<n>> : <<n>>[k] \in 0..(Len(DataIndex) - 1)) => n \in 0..(Len(DataIndex) - 1)
      <4>1. 1 \in DOMAIN <<n>> /\ <<n>>[1] = n
        OBVIOUS
      <4> QED BY <4>1
    <3> QED BY <1>1, <2>1, <3>1, OneTyped, NumbersType
  <2>2. ASSUME NEW n \in Nat, GetNumbers(<<n, n + 1>>)
        PROVE  reply'.answer \in AnyRows /\ reply'.status \in {"none", "ok", "error"}
    <3> DEFINE m == n + 1
    <3>1. (\A k \in DOMAIN <<n, m>> : <<n, m>>[k] \in 0..(Len(DataIndex) - 1))
             => n \in 0..(Len(DataIndex) - 1) /\ m \in 0..(Len(DataIndex) - 1)
      <4>1. 1 \in DOMAIN <<n, m>> /\ <<n, m>>[1] = n /\ 2 \in DOMAIN <<n, m>> /\ <<n, m>>[2] = m
        OBVIOUS
      <4> HIDE DEF m
      <4> QED BY <4>1
    <3>2. GetNumbers(<<n, m>>)
      BY <2>2
    <3> HIDE DEF m
    <3> QED BY <1>1, <3>1, <3>2, TwoTyped, NumbersType
  <2>3. CASE SamplerNext
    <3>1. ASSUME NEW n \in 0..Cardinality(Row), GetNumbers(<<n>>) \/ GetNumbers(<<n, n + 1>>)
          PROVE  reply'.answer \in AnyRows /\ reply'.status \in {"none", "ok", "error"}
      BY <2>1, <2>2, <3>1
    <3>2. ASSUME NEW p \in Row, GetAt(p)
          PROVE  reply'.answer \in AnyRows /\ reply'.status \in {"none", "ok", "error"}
      BY <1>1, <3>2, PointType
    <3> QED BY <2>3, <3>1, <3>2 DEF SamplerNext
  <2>4. CASE UNCHANGED samplerVars
    <3>1. reply' = reply
      BY <2>4 DEF samplerVars
    <3> QED BY <1>1, <3>1 DEF SamplerTypeOK, AnyRows
  <2> QED BY <2>3, <2>4
<1>5. SamplerTypeOK'
  BY <1>1, <1>2, <1>4 DEF SamplerTypeOK, AnyRows
<1> QED BY <1>3, <1>5 DEF SamplerTypeInv

\* Every answer of the sampler is rows of its frame and rows of NaN, also that for a stock
\* without a row, which is answered with the next stock's.
THEOREM SamplerTypeCorrect == SamplerSpec => []SamplerTypeOK
<1>1. SamplerTypeInv => SamplerTypeOK
  BY DEF SamplerTypeInv
<1> QED BY <1>1, SamplerTypeInit, SamplerTypeNext, PTL DEF SamplerSpec

\* However a dataset is configured and set up again, its frames are data up to some day and
\* the processors they went through, each with the last day its statistics have seen.
THEOREM PreparationTypeCorrect == PreparationSpec => []PreparationTypeOK
<1>1. PreparationInv => PreparationTypeOK
  BY DEF PreparationInv, PreparationShape, PreparationTypeOK, FrameEnds, StatsSet
<1> QED BY <1>1, PreparationStarts, PreparationSteps, PTL DEF PreparationSpec
===============================================================================
