------------------------------ MODULE SyncProofs ------------------------------
(***************************************************************************)
(* What the daily sync promises.  The first part is about the data it      *)
(* writes (BinStore), for any number of symbols and fields, any trading    *)
(* histories and any number of killed syncs and lost workers; the second   *)
(* about the service that starts it (SyncService), for any number of sync  *)
(* and refresh threads and any number of data versions.  The slot and the  *)
(* summary refresh share nothing but "asked" and "data", so each has an    *)
(* invariant of its own.                                                   *)
(***************************************************************************)
EXTENDS BinStore, SyncService, SetLemmas, TLAPS

-----------------------------------------------------------------------------
(* The least and the greatest of a set of days.                            *)

\* The latest of some days is one of them, or no day when there are none.
LEMMA MaxDayOf ==
    ASSUME NEW D, D \subseteq Day
    PROVE  /\ MaxDay(D) \in 0..Today
           /\ D = {} => MaxDay(D) = Never
           /\ D # {} => MaxDay(D) \in D
           /\ \A d \in D : d <= MaxDay(D)
<1>1. CASE D = {}
  BY <1>1, BinAssumption DEF MaxDay, Never, BinAssumption
<1>2. CASE D # {}
  <2>1. D \subseteq 0..Today /\ Today \in Nat
    BY BinAssumption DEF Day, BinAssumption
  <2>2. Max(D) \in D /\ \A d \in D : d <= Max(D)
    BY <1>2, <2>1, MaxIsGreatest
  <2> QED BY <1>2, <2>1, <2>2 DEF MaxDay
<1> QED BY <1>1, <1>2

-----------------------------------------------------------------------------
(* The calendar.                                                           *)

Increasing(c) == \A p, q \in DOMAIN c : p < q => c[p] < c[q]

\* It has at most one entry per day.
LEMMA CalendarShort ==
    ASSUME NEW c \in Seq(Day), Increasing(c)
    PROVE  Len(c) \in 0..Today /\ DOMAIN c \subseteq Day
<1>1. Today \in Nat
  BY BinAssumption DEF BinAssumption
<1>2. c \in Injection(1..Len(c), Day)
  <2>1. c \in [1..Len(c) -> Day]
    OBVIOUS
  <2>2. ASSUME NEW p \in 1..Len(c), NEW q \in 1..Len(c), c[p] = c[q] PROVE p = q
    <3>1. c[p] \in Nat /\ c[q] \in Nat /\ DOMAIN c = 1..Len(c)
      BY <1>1 DEF Day
    <3>2. ~(p < q) /\ ~(q < p)
      BY <2>2, <3>1 DEF Increasing
    <3> QED BY <3>2
  <2>3. IsInjective(c)
    BY <2>1, <2>2 DEF IsInjective
  <2> QED BY <2>1, <2>3, Zenon DEF Injection
<1>3. IsFiniteSet(Day) /\ Cardinality(Day) = Today
  BY <1>1, FS_Interval DEF Day
<1>4. Cardinality(1..Len(c)) <= Today
  BY <1>2, <1>3, FS_Injection
<1>5. Cardinality(1..Len(c)) = Len(c)
  <2>1. Len(c) \in Nat
    OBVIOUS
  <2>2. Cardinality(1..Len(c)) = IF 1 > Len(c) THEN 0 ELSE Len(c) - 1 + 1
    BY <2>1, FS_Interval
  <2> QED BY <2>1, <2>2
<1> QED BY <1>1, <1>4, <1>5 DEF Day

\* Later days in order, put after it, leave it in order.
LEMMA CalendarExtends ==
    ASSUME NEW c \in Seq(Day), Increasing(c),
           NEW D \in SUBSET Day, \A d \in D, x \in ToSet(c) : d > x,
           NEW e \in InOrder(D)
    PROVE  /\ c \o e \in Seq(Day)
           /\ Increasing(c \o e)
           /\ DOMAIN c \subseteq DOMAIN (c \o e)
           /\ \A p \in DOMAIN c : (c \o e)[p] = c[p]
<1> DEFINE n == Cardinality(D)
<1>1. Today \in Nat /\ n \in Nat
  <2>1. Today \in Nat
    BY BinAssumption DEF BinAssumption
  <2>2. IsFiniteSet(Day)
    BY <2>1, FS_Interval DEF Day
  <2>3. IsFiniteSet(D)
    BY <2>2, FS_Subset
  <2> QED BY <2>1, <2>3, FS_CardinalityType
<1>2. e \in [1..n -> D] /\ \A i, j \in 1..n : i < j => e[i] < e[j]
  BY DEF InOrder
<1> HIDE DEF n
<1>3. e \in Seq(Day) /\ Len(e) = n
  BY <1>1, <1>2
<1>4. c \o e \in Seq(Day) /\ Len(c \o e) = Len(c) + n
  BY <1>3
<1>5. \A p \in 1..Len(c) : (c \o e)[p] = c[p]
  BY <1>3
<1>6. \A p \in Len(c) + 1..Len(c) + n : (c \o e)[p] = e[p - Len(c)]
  BY <1>1, <1>3
<1>7. Increasing(c \o e)
  <2> SUFFICES ASSUME NEW p \in 1..Len(c) + n, NEW q \in 1..Len(c) + n, p < q
               PROVE  (c \o e)[p] < (c \o e)[q]
    BY <1>4 DEF Increasing
  <2>0. Len(c) \in Nat /\ n \in Nat /\ p \in Nat /\ q \in Nat
    BY <1>1
  <2>1. CASE q <= Len(c)
    BY <2>0, <2>1, <1>5 DEF Increasing
  <2>2. CASE p <= Len(c) /\ q > Len(c)
    <3>0. p \in 1..Len(c) /\ q \in Len(c) + 1..Len(c) + n
      BY <2>0, <2>2
    <3>1. e[q - Len(c)] \in D /\ c[p] \in ToSet(c)
      BY <2>2, <1>1, <1>2 DEF ToSet
    <3>2. e[q - Len(c)] > c[p]
      BY <3>1
    <3>3. (c \o e)[p] = c[p] /\ (c \o e)[q] = e[q - Len(c)]
      BY <3>0, <1>5, <1>6
    <3>4. c[p] \in Nat /\ e[q - Len(c)] \in Nat
      <4>1. c[p] \in Day /\ e[q - Len(c)] \in Day
        BY <3>0, <3>1
      <4> QED BY <4>1, <1>1 DEF Day
    <3> QED BY <3>2, <3>3, <3>4
  <2>3. CASE p > Len(c)
    <3>1. p - Len(c) \in 1..n /\ q - Len(c) \in 1..n /\ p - Len(c) < q - Len(c)
      BY <2>0, <2>3
    <3>2. p \in Len(c) + 1..Len(c) + n /\ q \in Len(c) + 1..Len(c) + n
      BY <2>0, <2>3
    <3>3. e[p - Len(c)] < e[q - Len(c)]
      BY <3>1, <1>2
    <3> QED BY <3>2, <3>3, <1>6
  <2>4. q <= Len(c) \/ (p <= Len(c) /\ q > Len(c)) \/ p > Len(c)
    BY <2>0
  <2> QED BY <2>1, <2>2, <2>3, <2>4, Zenon
<1> QED BY <1>1, <1>4, <1>5, <1>7

-----------------------------------------------------------------------------
(* Type correctness: indexes stay in range because the calendar is in      *)
(* order.                                                                  *)

TypeInv == BinTypeOK /\ Increasing(cal)

LEMMA FieldFacts ==
    /\ Len(FieldOrder) \in Nat
    /\ DOMAIN FieldOrder = 1..Len(FieldOrder)
    /\ \A i \in DOMAIN FieldOrder : FieldOrder[i] \in Field
    /\ "close" \in Field
BY BinAssumption DEF BinAssumption, Field, ToSet

LEMMA TypeInit == BinInit => TypeInv
<1> SUFFICES ASSUME BinInit PROVE TypeInv
  OBVIOUS
<1>1. FlagsOK
  BY DEF BinInit, FlagsOK
<1>2. Today \in Nat \ {0} /\ MaxMishaps \in Nat /\ Len(FieldOrder) \in Nat
  BY BinAssumption, FieldFacts DEF BinAssumption
<1>3. StateOK
  BY <1>2 DEF BinInit, StateOK, NoneYet, NoBars, AllOff, NoPlan, Day, NaN
<1>4. Increasing(cal)
  BY DEF BinInit, Increasing
<1> QED BY <1>1, <1>3, <1>4 DEF TypeInv, BinTypeOK

LEMMA FlagsNext == FlagsOK /\ [BinNext]_binVars => FlagsOK'
BY DEF FlagsOK, BinNext, Sync, NextDay, Killed, StartSync, Fetch, PublishCalendar, ReadBins,
       WriteField, WriteEnds, WritesOver, UpdateEndDates, UpdateStartDates, WriteRaises, Mishap,
       Forget, binVars, diskVars, jobVars, faultVars

\* What a sync forgets is well-typed.
LEMMA ForgetType ==
    ASSUME Forget
    PROVE  /\ phase' = "idle"
           /\ bars' \in [Symbol -> SUBSET Day]
           /\ worker' \in [Symbol -> {"off", "todo", "busy", "done", "lost"}]
           /\ plan' \in [Symbol -> [index : 0..Today, from : 0..Today + 1]]
           /\ written' \in [Symbol -> 0..Len(FieldOrder)]
<1>1. Today \in Nat /\ Len(FieldOrder) \in Nat
  BY BinAssumption, FieldFacts DEF BinAssumption
<1> QED BY <1>1 DEF Forget, NoBars, AllOff, NoPlan, NoneYet

\* The last close is an index with a close, or 0.
LEMMA LastCloseOf ==
    ASSUME StateOK, NEW s \in Symbol
    PROVE  /\ LastClose(s) \in 0..Today
           /\ LastClose(s) # Never => LastClose(s) \in Day /\ bin[s]["close"][LastClose(s)] # NaN
           /\ \A p \in Day : bin[s]["close"][p] # NaN => p <= LastClose(s)
<1> DEFINE C == {p \in Day : bin[s]["close"][p] # NaN}
<1>1. /\ MaxDay(C) \in 0..Today
      /\ C = {} => MaxDay(C) = Never
      /\ C # {} => MaxDay(C) \in C
      /\ \A d \in C : d <= MaxDay(C)
  BY MaxDayOf
<1>2. LastClose(s) = MaxDay(C)
  BY DEF LastClose
<1> QED BY <1>1, <1>2

\* A write starts within the calendar, and after the last close.
LEMMA PlanType ==
    ASSUME TypeInv, NEW s \in Symbol, ~(start[s] = Never /\ BarIndexes(s) = {})
    PROVE  /\ PlanOf(s) \in [index : 0..Today, from : 0..Today + 1]
           /\ LastClose(s) < PlanOf(s).from
<1>1. Today \in Nat \ {0}
  BY BinAssumption DEF BinAssumption
<1>2. BarIndexes(s) \subseteq Day
  BY CalendarShort DEF BarIndexes, TypeInv, BinTypeOK, StateOK
<1> DEFINE index == IF start[s] # Never THEN start[s] ELSE Min(BarIndexes(s))
<1>3. index \in 0..Today
  <2>1. CASE start[s] # Never
    BY <2>1 DEF TypeInv, BinTypeOK, StateOK
  <2>2. CASE start[s] = Never
    <3>1. BarIndexes(s) # {} /\ BarIndexes(s) \in SUBSET Nat
      BY <2>2, <1>1, <1>2 DEF Day
    <3>2. Min(BarIndexes(s)) \in BarIndexes(s)
      BY <3>1, MinIsLeast
    <3> QED BY <2>2, <3>2, <1>1, <1>2 DEF Day
  <2> QED BY <2>1, <2>2
<1>4. LastClose(s) \in 0..Today
  BY LastCloseOf DEF TypeInv, BinTypeOK
<1> DEFINE B == {index, LastClose(s) + 1}
<1>5. PlanOf(s) = [index |-> index, from |-> Max(B)]
  BY DEF PlanOf
<1> HIDE DEF index
<1>6. Max(B) \in B /\ LastClose(s) + 1 <= Max(B)
  <2>1. B \subseteq 0..Today + 1 /\ Today + 1 \in Nat /\ B # {}
    BY <1>1, <1>3, <1>4
  <2>2. LastClose(s) + 1 \in B
    OBVIOUS
  <2> HIDE DEF B
  <2> QED BY <2>1, <2>2, MaxIsGreatest
<1> QED BY <1>1, <1>3, <1>4, <1>5, <1>6

\* What replacing the next file changes.
LEMMA WriteEffect ==
    ASSUME TypeInv, NEW s \in Symbol, WriteField(s)
    PROVE  /\ written[s] + 1 \in DOMAIN FieldOrder
           /\ bin' \in [Symbol -> [Field -> [Day -> Day \cup {NaN}]]]
           /\ \A t \in Symbol, g \in Field, p \in Day :
                bin'[t][g][p] =
                    IF t = s /\ g = FieldOrder[written[s] + 1]
                             /\ p \in DOMAIN cal /\ p >= plan[s].from
                    THEN IF cal[p] \in bars[s] THEN cal[p] ELSE NaN
                    ELSE bin[t][g][p]
<1> DEFINE f == FieldOrder[written[s] + 1]
<1>1. written[s] + 1 \in DOMAIN FieldOrder /\ f \in Field
  BY FieldFacts DEF WriteField, TypeInv, BinTypeOK, StateOK
<1>2. bin' = [bin EXCEPT ![s] = [@ EXCEPT ![f] = NewValues(s, f)]]
  BY DEF WriteField
<1> HIDE DEF f
<1>3. NewValues(s, f) \in [Day -> Day \cup {NaN}]
  BY <1>1 DEF NewValues, TypeInv, BinTypeOK, StateOK
<1>4. \A p \in Day :
        NewValues(s, f)[p] = IF p \in DOMAIN cal /\ p >= plan[s].from
                             THEN IF cal[p] \in bars[s] THEN cal[p] ELSE NaN
                             ELSE bin[s][f][p]
  BY DEF NewValues
<1>5. bin \in [Symbol -> [Field -> [Day -> Day \cup {NaN}]]]
  BY DEF TypeInv, BinTypeOK, StateOK
<1>6. \A t \in Symbol, g \in Field :
        bin'[t][g] = IF t = s /\ g = f THEN NewValues(s, f) ELSE bin[t][g]
  BY <1>1, <1>2, <1>5
<1>7. bin' \in [Symbol -> [Field -> [Day -> Day \cup {NaN}]]]
  BY <1>1, <1>2, <1>3, <1>5
<1>8. \A t \in Symbol, g \in Field, p \in Day :
        bin'[t][g][p] = IF t = s /\ g = f /\ p \in DOMAIN cal /\ p >= plan[s].from
                        THEN IF cal[p] \in bars[s] THEN cal[p] ELSE NaN
                        ELSE bin[t][g][p]
  BY <1>4, <1>6, Zenon
<1> QED BY <1>1, <1>7, <1>8 DEF f

\* Publishing the calendar keeps every index.
LEMMA CalendarGrows ==
    ASSUME TypeInv, PublishCalendar
    PROVE  /\ cal' \in Seq(Day)
           /\ Increasing(cal')
           /\ DOMAIN cal \subseteq DOMAIN cal'
           /\ \A p \in DOMAIN cal : cal'[p] = cal[p]
<1> DEFINE D == {d \in AcceptedDays : \A c \in InCalendar : d > c}
<1>1. PICK e \in InOrder(D) : cal' = cal \o e
  BY DEF PublishCalendar, ExtendedCalendar
<1>2. \A s \in Symbol : bars[s] \subseteq Day
  BY DEF TypeInv, BinTypeOK, StateOK
<1>3. NewDays \subseteq Day
  BY <1>2 DEF NewDays
<1>4. AcceptedDays \subseteq NewDays
  BY DEF AcceptedDays
<1>5. D \in SUBSET Day /\ \A d \in D, x \in ToSet(cal) : d > x
  BY <1>3, <1>4 DEF InCalendar
<1>6. cal \in Seq(Day) /\ Increasing(cal)
  BY DEF TypeInv, BinTypeOK, StateOK
<1> HIDE DEF D
<1> QED BY <1>1, <1>5, <1>6, CalendarExtends

LEMMA StateNext == TypeInv /\ [BinNext]_binVars => StateOK' /\ Increasing(cal)'
<1> SUFFICES ASSUME TypeInv, [BinNext]_binVars PROVE StateOK' /\ Increasing(cal)'
  OBVIOUS
<1>0. /\ Today \in Nat \ {0} /\ MaxMishaps \in Nat
      /\ Len(FieldOrder) \in Nat
      /\ Histories \subseteq [Symbol -> SUBSET Day]
      /\ StateOK
      /\ Increasing(cal)
  BY BinAssumption, FieldFacts DEF BinAssumption, TypeInv, BinTypeOK
<1>1. CASE NextDay
  BY <1>0, <1>1 DEF NextDay, StateOK, Day, diskVars, jobVars, faultVars, Increasing
<1>2. ASSUME NEW f \in BOOLEAN, NEW probe \in 0..Today, StartSync(f, probe)
      PROVE  StateOK' /\ Increasing(cal)'
  <2>1. \A s \in Symbol : Offered(s) \subseteq Day /\ Since(s, lastDate[s] + 1) \subseteq Day
    BY <1>0 DEF Offered, Since, StateOK
  <2>2. bars' \in [Symbol -> SUBSET Day]
    BY <1>2, <2>1 DEF StartSync
  <2>3. skipped' \in [Symbol -> SUBSET Day]
    BY <1>0, <1>2, <2>1 DEF StartSync, StateOK
  <2> QED BY <1>0, <1>2, <2>2, <2>3 DEF StartSync, StateOK, diskVars, faultVars, Increasing
<1>3. ASSUME NEW ok \in SUBSET Symbol, Fetch(ok) PROVE StateOK' /\ Increasing(cal)'
  <2>1. CASE Forget
    BY <1>0, <1>3, <2>1, ForgetType DEF Fetch, StateOK, diskVars, faultVars, Increasing
  <2>2. CASE /\ phase' = "calendar"
             /\ bars' = [s \in Symbol |-> IF s \in ok THEN bars[s] ELSE {}]
             /\ UNCHANGED <<worker, plan, written>>
    <3>1. bars' \in [Symbol -> SUBSET Day]
      BY <1>0, <2>2 DEF StateOK
    <3> QED BY <1>0, <1>3, <2>2, <3>1 DEF Fetch, StateOK, diskVars, faultVars, Increasing
  <2> QED BY <1>3, <2>1, <2>2 DEF Fetch
<1>4. CASE PublishCalendar
  <2>1. cal' \in Seq(Day) /\ Increasing(cal')
    BY <1>4, CalendarGrows
  <2> QED BY <1>0, <1>4, <2>1 DEF PublishCalendar, StateOK, faultVars, Increasing
<1>5. ASSUME NEW s \in Symbol, ReadBins(s) PROVE StateOK' /\ Increasing(cal)'
  <2>1. CASE start[s] = Never /\ BarIndexes(s) = {}
    BY <1>0, <1>5, <2>1 DEF ReadBins, StateOK, diskVars, faultVars, Increasing
  <2>2. CASE ~(start[s] = Never /\ BarIndexes(s) = {})
    <3>1. PlanOf(s) \in [index : 0..Today, from : 0..Today + 1]
      BY <2>2, PlanType
    <3>2. worker' = [worker EXCEPT ![s] = "busy"] /\ plan' = [plan EXCEPT ![s] = PlanOf(s)]
      BY <1>5, <2>2 DEF ReadBins
    <3> QED BY <1>0, <1>5, <3>1, <3>2 DEF ReadBins, StateOK, diskVars, faultVars, Increasing
  <2> QED BY <2>1, <2>2
<1>6. ASSUME NEW s \in Symbol, WriteField(s) PROVE StateOK' /\ Increasing(cal)'
  <2>1. bin' \in [Symbol -> [Field -> [Day -> Day \cup {NaN}]]]
    BY <1>6, WriteEffect
  <2>2. plan[s].index \in 0..Today
    BY <1>0 DEF StateOK
  <2>3. start' \in [Symbol -> 0..Today] /\ written' \in [Symbol -> 0..Len(FieldOrder)]
    BY <1>0, <1>6, <2>2 DEF WriteField, StateOK
  <2> QED BY <1>0, <1>6, <2>1, <2>3 DEF WriteField, StateOK, faultVars, Increasing
<1>7. ASSUME NEW s \in Symbol, WriteEnds(s) PROVE StateOK' /\ Increasing(cal)'
  BY <1>0, <1>7 DEF WriteEnds, StateOK, diskVars, faultVars, Increasing
<1>8. CASE WritesOver
  BY <1>0, <1>8 DEF WritesOver, StateOK, diskVars, faultVars, Increasing
<1>9. CASE UpdateEndDates
  <2>1. \A s \in Symbol : LastClose(s) \in DOMAIN cal => cal[LastClose(s)] \in 0..Today
    BY <1>0 DEF StateOK, Day
  <2>2. lastDate' \in [Symbol -> 0..Today]
    BY <1>0, <1>9, <2>1 DEF UpdateEndDates, StateOK
  <2> QED BY <1>0, <1>9, <2>2 DEF UpdateEndDates, StateOK, faultVars, Increasing
<1>10. CASE UpdateStartDates
  <2>1. \A s \in Symbol : start[s] \in DOMAIN cal => cal[start[s]] \in 0..Today
    BY <1>0 DEF StateOK, Day
  <2>2. firstDate' \in [Symbol -> 0..Today]
    BY <1>0, <1>10, <2>1 DEF UpdateStartDates, StateOK
  <2>3. Forget
    BY <1>10 DEF UpdateStartDates
  <2> QED BY <1>0, <1>10, <2>2, <2>3, ForgetType
             DEF UpdateStartDates, StateOK, faultVars, Increasing
<1>11. CASE Killed
  <2>1. Forget /\ mishaps' \in 0..MaxMishaps /\ skipped' = skipped
    BY <1>0, <1>11 DEF Killed, Mishap, StateOK
  <2> QED BY <1>0, <1>11, <2>1, ForgetType DEF Killed, StateOK, diskVars, Increasing
<1>12. ASSUME NEW s \in Symbol, WriteRaises(s) PROVE StateOK' /\ Increasing(cal)'
  <2>1. mishaps' \in 0..MaxMishaps /\ skipped' = skipped
    BY <1>0, <1>12 DEF WriteRaises, Mishap, StateOK
  <2> QED BY <1>0, <1>12, <2>1 DEF WriteRaises, StateOK, diskVars, Increasing
<1>13. CASE UNCHANGED binVars
  BY <1>0, <1>13 DEF binVars, diskVars, jobVars, faultVars, StateOK, Increasing
<1> QED
  BY <1>1, <1>2, <1>3, <1>4, <1>5, <1>6, <1>7, <1>8, <1>9, <1>10, <1>11, <1>12, <1>13
     DEF BinNext, Sync

LEMMA TypeNext == TypeInv /\ [BinNext]_binVars => TypeInv'
<1> SUFFICES ASSUME TypeInv, [BinNext]_binVars PROVE TypeInv'
  OBVIOUS
<1>1. FlagsOK'
  BY FlagsNext DEF TypeInv, BinTypeOK
<1>2. StateOK' /\ Increasing(cal)'
  BY StateNext
<1> QED BY <1>1, <1>2 DEF TypeInv, BinTypeOK

LEMMA TypeInvariant == BinSpec => []TypeInv
BY TypeInit, TypeNext, PTL DEF BinSpec

\* Every reachable state is well-typed: no header and no index to write ever
\* points outside the calendar's days.
THEOREM BinTypeCorrect == BinSpec => []BinTypeOK
<1>1. TypeInv => BinTypeOK
  BY DEF TypeInv
<1> QED BY <1>1, TypeInvariant, PTL

-----------------------------------------------------------------------------
(* The inductive invariant behind the safety properties.                   *)

CloseAt == CHOOSE i \in DOMAIN FieldOrder : FieldOrder[i] = "close"

\* A value on disk is the day of its index.
Placed ==
    \A s \in Symbol, f \in Field, p \in Day :
        bin[s][f][p] # NaN => p \in DOMAIN cal /\ bin[s][f][p] = cal[p]

\* Workers exist while the bins are written, and have written nothing before
\* they have read.
Stages ==
    \A s \in Symbol :
        /\ worker[s] # "off" => phase \in {"write", "ends", "starts"}
        /\ worker[s] \in {"todo", "busy"} => phase = "write"
        /\ worker[s] \in {"off", "todo"} => written[s] = 0

\* From write_start on, the files already replaced hold the fetched bars, and
\* neither the close, until it is replaced, nor a later field holds anything.
Progress ==
    \A s \in Symbol : worker[s] = "busy" =>
        \A i \in DOMAIN FieldOrder, p \in Day : p >= plan[s].from =>
            /\ i <= written[s] /\ p \in DOMAIN cal =>
                    bin[s][FieldOrder[i]][p] = IF cal[p] \in bars[s] THEN cal[p] ELSE NaN
            /\ i > written[s] /\ i >= CloseAt => bin[s][FieldOrder[i]][p] = NaN

\* The fields written after the close have nothing where it has nothing.
LaterFields ==
    \A s \in Symbol, p \in Day : bin[s]["close"][p] = NaN =>
        \A i \in DOMAIN FieldOrder : i > CloseAt => bin[s][FieldOrder[i]][p] = NaN

\* Field i of s has yet to be replaced by the worker that replaced its close.
Pending(s, i, p) ==
    /\ worker[s] = "busy"
    /\ 1 <= written[s] /\ written[s] < i
    /\ plan[s].from <= p

\* FieldsAgree, with the places where a file may be behind the close.
Complete ==
    \A s \in Symbol, p \in Day : bin[s]["close"][p] # NaN =>
        \A i \in DOMAIN FieldOrder : bin[s][FieldOrder[i]][p] = NaN =>
            i > CloseAt /\ (torn \/ Pending(s, i, p))

\* CoverageTrue, with the close out of the reach of the write in progress.
Covered ==
    \A s \in Symbol : lastDate[s] # Never =>
        \E p \in DOMAIN cal :
            /\ cal[p] = lastDate[s]
            /\ bin[s]["close"][p] = cal[p]
            /\ worker[s] = "busy" => p < plan[s].from

BinInv ==
    /\ TypeInv
    /\ Placed
    /\ Stages
    /\ Progress
    /\ LaterFields
    /\ Complete
    /\ Covered

LEMMA CloseFacts ==
    /\ CloseAt \in DOMAIN FieldOrder
    /\ FieldOrder[CloseAt] = "close"
    /\ \A i, j \in DOMAIN FieldOrder : FieldOrder[i] = FieldOrder[j] => i = j
<1>1. \E i \in DOMAIN FieldOrder : FieldOrder[i] = "close"
  BY BinAssumption DEF BinAssumption, Field, ToSet
<1>2. \A i, j \in DOMAIN FieldOrder : FieldOrder[i] = FieldOrder[j] => i = j
  BY BinAssumption DEF BinAssumption, IsInjective
<1> QED BY <1>1, <1>2 DEF CloseAt

LEMMA InvInit == BinInit => BinInv
<1> SUFFICES ASSUME BinInit PROVE BinInv
  OBVIOUS
<1>1. TypeInv
  BY TypeInit
<1>2. \A s \in Symbol, f \in Field, p \in Day : bin[s][f][p] = NaN
  BY DEF BinInit
<1>3. \A s \in Symbol : worker[s] = "off" /\ written[s] = 0 /\ lastDate[s] = Never
  BY DEF BinInit, AllOff, NoneYet, Never
<1>4. Placed /\ LaterFields /\ Complete
  BY <1>2, FieldFacts DEF Placed, LaterFields, Complete
<1>5. Stages /\ Progress /\ Covered
  BY <1>3 DEF Stages, Progress, Covered
<1> QED BY <1>1, <1>4, <1>5 DEF BinInv

\* Who changes the files and the calendar.
LEMMA DiskStep ==
    ASSUME [BinNext]_binVars
    PROVE  \/ UNCHANGED <<bin, cal>>
           \/ PublishCalendar
           \/ \E s \in Symbol : WriteField(s)
BY DEF BinNext, Sync, NextDay, Killed, StartSync, Fetch, ReadBins, WriteEnds, WritesOver,
       UpdateEndDates, UpdateStartDates, WriteRaises, Forget, binVars, diskVars, jobVars, faultVars

LEMMA PlacedNext == BinInv /\ [BinNext]_binVars => Placed'
<1> SUFFICES ASSUME BinInv, [BinNext]_binVars PROVE Placed'
  OBVIOUS
<1>1. CASE UNCHANGED <<bin, cal>>
  BY <1>1 DEF BinInv, Placed
<1>2. CASE PublishCalendar
  <2>1. bin' = bin
    BY <1>2 DEF PublishCalendar
  <2>2. DOMAIN cal \subseteq DOMAIN cal' /\ \A p \in DOMAIN cal : cal'[p] = cal[p]
    BY <1>2, CalendarGrows DEF BinInv
  <2> QED BY <2>1, <2>2 DEF BinInv, Placed
<1>3. ASSUME NEW s \in Symbol, WriteField(s) PROVE Placed'
  <2>1. cal' = cal
    BY <1>3 DEF WriteField
  <2> SUFFICES ASSUME NEW t \in Symbol, NEW g \in Field, NEW p \in Day, bin'[t][g][p] # NaN
               PROVE  p \in DOMAIN cal /\ bin'[t][g][p] = cal[p]
    BY <2>1 DEF Placed
  <2>2. \/ p \in DOMAIN cal /\ bin'[t][g][p] \in {cal[p], NaN}
        \/ bin'[t][g][p] = bin[t][g][p]
    BY <1>3, WriteEffect DEF BinInv
  <2> QED BY <2>2 DEF BinInv, Placed
<1> QED BY <1>1, <1>2, <1>3, DiskStep

LEMMA StagesNext == BinInv /\ [BinNext]_binVars => Stages'
<1> SUFFICES ASSUME BinInv, [BinNext]_binVars PROVE Stages'
  OBVIOUS
<1>0. Stages /\ StateOK
  BY DEF BinInv, TypeInv, BinTypeOK
<1>1. CASE UNCHANGED <<phase, worker, written>>
  BY <1>0, <1>1 DEF Stages
<1>2. CASE Forget
  BY <1>2 DEF Forget, AllOff, NoneYet, Stages
<1>3. ASSUME NEW f \in BOOLEAN, NEW probe \in 0..Today, StartSync(f, probe) PROVE Stages'
  BY <1>0, <1>3 DEF StartSync, Stages
<1>4. ASSUME NEW ok \in SUBSET Symbol, Fetch(ok) PROVE Stages'
  BY <1>0, <1>2, <1>4 DEF Fetch, Stages
<1>5. CASE PublishCalendar
  BY <1>0, <1>5 DEF PublishCalendar, Stages
<1>6. ASSUME NEW s \in Symbol, ReadBins(s) PROVE Stages'
  BY <1>0, <1>6 DEF ReadBins, Stages, StateOK
<1>7. ASSUME NEW s \in Symbol, WriteField(s) PROVE Stages'
  BY <1>0, <1>7 DEF WriteField, Stages, StateOK
<1>8. ASSUME NEW s \in Symbol, WriteEnds(s) \/ WriteRaises(s) PROVE Stages'
  BY <1>0, <1>8 DEF WriteEnds, WriteRaises, Stages, StateOK
<1>9. CASE WritesOver
  BY <1>0, <1>9 DEF WritesOver, Stages
<1>10. CASE UpdateEndDates
  BY <1>0, <1>10 DEF UpdateEndDates, Stages
<1> QED
  BY <1>1, <1>2, <1>3, <1>4, <1>5, <1>6, <1>7, <1>8, <1>9, <1>10
     DEF BinNext, Sync, NextDay, Killed, UpdateStartDates, jobVars, binVars

\* A worker that is writing has just read, has just replaced a file, or was
\* left alone, and so was everything it works with.
LEMMA BusyStep ==
    ASSUME BinInv, [BinNext]_binVars, NEW s \in Symbol, worker'[s] = "busy"
    PROVE  \/ ReadBins(s)
           \/ WriteField(s)
           \/ /\ worker[s] = "busy"
              /\ cal' = cal
              /\ bars'[s] = bars[s] /\ plan'[s] = plan[s] /\ written'[s] = written[s]
              /\ bin'[s] = bin[s]
<1> DEFINE Left == /\ worker[s] = "busy"
                   /\ cal' = cal
                   /\ bars'[s] = bars[s] /\ plan'[s] = plan[s] /\ written'[s] = written[s]
                   /\ bin'[s] = bin[s]
<1> SUFFICES ASSUME ~ReadBins(s), ~WriteField(s) PROVE Left
  BY DEF Left
<1>0. /\ worker[s] \in {"todo", "busy"} => phase = "write"
      /\ StateOK
  BY DEF BinInv, Stages, TypeInv, BinTypeOK
<1>1. CASE Forget
  BY <1>1 DEF Forget, AllOff
<1>2. CASE UNCHANGED <<diskVars, jobVars>> \/ UNCHANGED binVars
  BY <1>2 DEF diskVars, jobVars, binVars
<1>3. ASSUME NEW f \in BOOLEAN, NEW probe \in 0..Today, StartSync(f, probe) PROVE Left
  BY <1>0, <1>3 DEF StartSync
<1>4. ASSUME NEW ok \in SUBSET Symbol, Fetch(ok) PROVE Left
  BY <1>0, <1>1, <1>4 DEF Fetch
<1>5. CASE PublishCalendar
  BY <1>0, <1>5 DEF PublishCalendar
<1>6. ASSUME NEW t \in Symbol, ReadBins(t) PROVE Left
  BY <1>0, <1>6 DEF ReadBins, StateOK, diskVars
<1>7. ASSUME NEW t \in Symbol, WriteField(t) PROVE Left
  BY <1>0, <1>7 DEF WriteField, StateOK
<1>8. ASSUME NEW t \in Symbol, WriteEnds(t) \/ WriteRaises(t) PROVE Left
  BY <1>0, <1>8 DEF WriteEnds, WriteRaises, StateOK, diskVars
<1>9. CASE WritesOver \/ UpdateEndDates
  BY <1>9 DEF WritesOver, UpdateEndDates, diskVars
<1> HIDE DEF Left
<1> QED
  BY <1>1, <1>2, <1>3, <1>4, <1>5, <1>6, <1>7, <1>8, <1>9
     DEF BinNext, Sync, NextDay, Killed, UpdateStartDates

\* The value of the file that is replaced, and of the others, from write_start on.
LEMMA ProgressNext == BinInv /\ [BinNext]_binVars => Progress'
<1> SUFFICES ASSUME BinInv, [BinNext]_binVars,
                    NEW s \in Symbol, worker'[s] = "busy",
                    NEW i \in DOMAIN FieldOrder, NEW p \in Day, p >= plan'[s].from
             PROVE  /\ i <= written'[s] /\ p \in DOMAIN cal' =>
                          bin'[s][FieldOrder[i]][p] = IF cal'[p] \in bars'[s] THEN cal'[p] ELSE NaN
                    /\ i > written'[s] /\ i >= CloseAt => bin'[s][FieldOrder[i]][p] = NaN
  BY DEF Progress
<1>0. /\ TypeInv /\ StateOK
      /\ i \in Nat /\ i >= 1 /\ CloseAt \in Nat /\ FieldOrder[i] \in Field
      /\ Today \in Nat /\ p \in Nat
      /\ CloseAt \in DOMAIN FieldOrder /\ FieldOrder[CloseAt] = "close"
  BY FieldFacts, CloseFacts, BinAssumption DEF BinAssumption, BinInv, TypeInv, BinTypeOK, Day
<1>1. CASE ReadBins(s)
  <2>1. ~(start[s] = Never /\ BarIndexes(s) = {}) /\ worker[s] = "todo"
    BY <1>0, <1>1 DEF ReadBins, StateOK
  <2>2. plan'[s] = PlanOf(s) /\ written'[s] = written[s] /\ bin' = bin
    BY <1>0, <1>1, <2>1 DEF ReadBins, StateOK, diskVars
  <2>3. written[s] = 0
    BY <2>1 DEF BinInv, Stages
  <2>4. LastClose(s) < p
    BY <1>0, <2>1, <2>2, PlanType, LastCloseOf
  <2>5. bin[s]["close"][p] = NaN
    BY <1>0, <2>4, LastCloseOf
  <2>6. i >= CloseAt => bin[s][FieldOrder[i]][p] = NaN
    <3>1. CASE i = CloseAt
      BY <1>0, <2>5, <3>1
    <3>2. CASE i > CloseAt
      BY <2>5, <3>2 DEF BinInv, LaterFields
    <3> QED BY <1>0, <3>1, <3>2
  <2> QED BY <1>0, <2>2, <2>3, <2>6
<1>2. CASE WriteField(s)
  <2>1. /\ worker[s] = "busy" /\ cal' = cal /\ bars' = bars /\ plan' = plan
        /\ written'[s] = written[s] + 1 /\ written[s] \in Nat
    BY <1>0, <1>2 DEF WriteField, StateOK
  <2>2. /\ i <= written[s] /\ p \in DOMAIN cal =>
              bin[s][FieldOrder[i]][p] = IF cal[p] \in bars[s] THEN cal[p] ELSE NaN
        /\ i > written[s] /\ i >= CloseAt => bin[s][FieldOrder[i]][p] = NaN
    BY <2>1 DEF BinInv, Progress
  <2>3. CASE i = written[s] + 1
    BY <1>0, <1>2, <2>1, <2>3, WriteEffect
  <2>4. CASE i # written[s] + 1
    <3>1. FieldOrder[i] # FieldOrder[written[s] + 1]
      BY <1>0, <1>2, <2>4, WriteEffect, CloseFacts
    <3>2. bin'[s][FieldOrder[i]][p] = bin[s][FieldOrder[i]][p]
      BY <1>0, <1>2, <3>1, WriteEffect
    <3> QED BY <1>0, <2>1, <2>2, <2>4, <3>2
  <2> QED BY <2>3, <2>4
<1>3. CASE /\ worker[s] = "busy"
           /\ cal' = cal
           /\ bars'[s] = bars[s] /\ plan'[s] = plan[s] /\ written'[s] = written[s]
           /\ bin'[s] = bin[s]
  BY <1>3 DEF BinInv, Progress
<1> QED BY <1>1, <1>2, <1>3, BusyStep

\* The files of a symbol change only when its worker replaces one.
LEMMA OthersLeft ==
    ASSUME BinInv, [BinNext]_binVars, NEW s \in Symbol, ~WriteField(s)
    PROVE  bin'[s] = bin[s]
<1>1. ASSUME NEW t \in Symbol, WriteField(t) PROVE bin'[s] = bin[s]
  BY <1>1 DEF WriteField, BinInv, TypeInv, BinTypeOK, StateOK
<1> QED BY <1>1, DiskStep DEF PublishCalendar

\* What is known when file w of symbol s is replaced.
LEMMA Replacing ==
    ASSUME BinInv, NEW s \in Symbol, WriteField(s), NEW w, w = written[s] + 1
    PROVE  /\ w \in Nat /\ w \in DOMAIN FieldOrder /\ written[s] \in Nat
           /\ worker[s] = "busy" /\ written'[s] = w
           /\ UNCHANGED <<cal, bars, plan, worker, lastDate, torn>>
           /\ \A g \in Field, p \in Day :
                bin'[s][g][p] = IF g = FieldOrder[w] /\ p \in DOMAIN cal /\ p >= plan[s].from
                                THEN IF cal[p] \in bars[s] THEN cal[p] ELSE NaN
                                ELSE bin[s][g][p]
           /\ \A i \in DOMAIN FieldOrder, p \in Day : p >= plan[s].from =>
                /\ i < w /\ p \in DOMAIN cal =>
                        bin[s][FieldOrder[i]][p] = IF cal[p] \in bars[s] THEN cal[p] ELSE NaN
                /\ i >= w /\ i >= CloseAt => bin[s][FieldOrder[i]][p] = NaN
<1>1. TypeInv /\ StateOK
  BY DEF BinInv, TypeInv, BinTypeOK
<1>2. written[s] \in Nat /\ worker[s] = "busy" /\ written'[s] = w
  BY <1>1, FieldFacts DEF StateOK, WriteField
<1>3. w \in DOMAIN FieldOrder
  BY <1>1, WriteEffect
<1>4. UNCHANGED <<cal, bars, plan, worker, lastDate, torn>>
  BY DEF WriteField, faultVars
<1>5. \A g \in Field, p \in Day :
        bin'[s][g][p] = IF g = FieldOrder[w] /\ p \in DOMAIN cal /\ p >= plan[s].from
                        THEN IF cal[p] \in bars[s] THEN cal[p] ELSE NaN
                        ELSE bin[s][g][p]
  BY <1>1, WriteEffect
<1>6. \A i \in DOMAIN FieldOrder : i \in Nat
  BY FieldFacts
<1>7. \A i \in DOMAIN FieldOrder, p \in Day : p >= plan[s].from =>
        /\ i < w /\ p \in DOMAIN cal =>
                bin[s][FieldOrder[i]][p] = IF cal[p] \in bars[s] THEN cal[p] ELSE NaN
        /\ i >= w /\ i >= CloseAt => bin[s][FieldOrder[i]][p] = NaN
  BY <1>2, <1>6 DEF BinInv, Progress
<1> QED BY <1>2, <1>3, <1>4, <1>5, <1>7

LEMMA LaterFieldsNext == BinInv /\ [BinNext]_binVars => LaterFields'
<1> SUFFICES ASSUME BinInv, [BinNext]_binVars,
                    NEW s \in Symbol, NEW p \in Day, bin'[s]["close"][p] = NaN,
                    NEW i \in DOMAIN FieldOrder, i > CloseAt
             PROVE  bin'[s][FieldOrder[i]][p] = NaN
  BY DEF LaterFields
<1>0. /\ i \in Nat /\ CloseAt \in Nat /\ FieldOrder[i] \in Field
      /\ CloseAt \in DOMAIN FieldOrder /\ FieldOrder[CloseAt] = "close" /\ "close" \in Field
      /\ \A j, k \in DOMAIN FieldOrder : FieldOrder[j] = FieldOrder[k] => j = k
  BY FieldFacts, CloseFacts
<1>1. bin[s]["close"][p] = NaN => bin[s][FieldOrder[i]][p] = NaN
  BY DEF BinInv, LaterFields
<1>2. CASE ~WriteField(s)
  BY <1>1, <1>2, OthersLeft
<1>3. ASSUME WriteField(s), NEW w, w = written[s] + 1
      PROVE  bin'[s][FieldOrder[i]][p] = NaN
  <2>0. w \in Nat /\ w \in DOMAIN FieldOrder
    BY <1>3, Replacing
  <2>1. \A g \in Field :
          bin'[s][g][p] = IF g = FieldOrder[w] /\ p \in DOMAIN cal /\ p >= plan[s].from
                          THEN IF cal[p] \in bars[s] THEN cal[p] ELSE NaN
                          ELSE bin[s][g][p]
    BY <1>3, Replacing
  <2>2. p >= plan[s].from =>
            /\ CloseAt < w /\ p \in DOMAIN cal =>
                    bin[s]["close"][p] = IF cal[p] \in bars[s] THEN cal[p] ELSE NaN
            /\ i >= w => bin[s][FieldOrder[i]][p] = NaN
    BY <1>0, <1>3, Replacing
  <2>3. CASE ~(p \in DOMAIN cal /\ p >= plan[s].from)
    BY <1>0, <1>1, <2>1, <2>3
  <2>4. CASE p \in DOMAIN cal /\ p >= plan[s].from /\ w = i
    BY <1>0, <2>0, <2>1, <2>2, <2>4
  <2>5. CASE p \in DOMAIN cal /\ p >= plan[s].from /\ w = CloseAt
    BY <1>0, <2>0, <2>1, <2>2, <2>5
  <2>6. CASE w # i /\ w # CloseAt
    BY <1>0, <1>1, <2>0, <2>1, <2>6
  <2> QED BY <2>3, <2>4, <2>5, <2>6
<1> QED BY <1>2, <1>3

\* A file that is behind the close has yet to be replaced, or never will be.
LEMMA PendingKept ==
    ASSUME BinInv, [BinNext]_binVars,
           NEW s \in Symbol, NEW i \in DOMAIN FieldOrder, NEW p \in Day,
           ~WriteField(s), torn \/ Pending(s, i, p)
    PROVE  torn' \/ Pending(s, i, p)'
<1>1. CASE torn
  BY <1>1 DEF BinNext, Sync, NextDay, Killed, StartSync, Fetch, PublishCalendar, ReadBins,
       WriteField, WriteEnds, WritesOver, UpdateEndDates, UpdateStartDates, WriteRaises, Mishap,
       Forget, binVars, diskVars, jobVars, faultVars
<1>2. CASE Pending(s, i, p)
  <2>0. /\ StateOK
        /\ worker[s] = "busy" /\ phase = "write" /\ Between(s)
        /\ written[s] # Len(FieldOrder)
    BY <1>2, FieldFacts DEF Pending, Between, BinInv, Stages, TypeInv, BinTypeOK, StateOK
  <2>1. CASE UNCHANGED <<worker, written, plan>>
    BY <1>2, <2>1 DEF Pending
  <2>2. CASE Killed
    BY <2>0, <2>2 DEF Killed, Mishap
  <2>3. ASSUME NEW t \in Symbol, WriteRaises(t) PROVE torn' \/ Pending(s, i, p)'
    <3>1. CASE t = s
      BY <2>0, <2>3, <3>1 DEF WriteRaises, Mishap
    <3>2. CASE t # s
      BY <1>2, <2>0, <2>3, <3>2 DEF WriteRaises, Pending, StateOK
    <3> QED BY <3>1, <3>2
  <2>4. ASSUME NEW t \in Symbol, ReadBins(t) \/ WriteEnds(t) PROVE Pending(s, i, p)'
    BY <1>2, <2>0, <2>4 DEF ReadBins, WriteEnds, Pending, StateOK
  <2>5. ASSUME NEW t \in Symbol, WriteField(t) PROVE Pending(s, i, p)'
    BY <1>2, <2>0, <2>5 DEF WriteField, Pending, StateOK
  <2> QED
    BY <2>0, <2>1, <2>2, <2>3, <2>4, <2>5
       DEF BinNext, Sync, NextDay, StartSync, Fetch, PublishCalendar, WritesOver,
           UpdateEndDates, UpdateStartDates, jobVars, binVars
<1> QED BY <1>1, <1>2

\* The numbers a write works with are numbers.
LEMMA InRange ==
    ASSUME BinInv
    PROVE  /\ \A p \in DOMAIN cal : cal[p] \in Day /\ cal[p] # NaN
           /\ \A p \in Day : p \in Nat /\ p >= 1
           /\ \A s \in Symbol : plan[s].from \in Nat
<1>1. Today \in Nat /\ StateOK
  BY BinAssumption DEF BinAssumption, BinInv, TypeInv, BinTypeOK
<1>2. \A p \in DOMAIN cal : cal[p] \in Day
  BY <1>1 DEF StateOK
<1>3. \A s \in Symbol : plan[s] \in [index : 0..Today, from : 0..Today + 1]
  BY <1>1 DEF StateOK
<1>4. \A p \in Day : p \in Nat /\ p >= 1
  BY <1>1 DEF Day
<1> QED BY <1>1, <1>2, <1>3, <1>4 DEF NaN

LEMMA CompleteNext == BinInv /\ [BinNext]_binVars => Complete'
<1> SUFFICES ASSUME BinInv, [BinNext]_binVars,
                    NEW s \in Symbol, NEW p \in Day, bin'[s]["close"][p] # NaN,
                    NEW i \in DOMAIN FieldOrder, bin'[s][FieldOrder[i]][p] = NaN
             PROVE  i > CloseAt /\ (torn' \/ Pending(s, i, p)')
  BY DEF Complete
<1>0. /\ i \in Nat /\ i >= 1 /\ CloseAt \in Nat /\ CloseAt >= 1
      /\ FieldOrder[i] \in Field /\ "close" \in Field
      /\ CloseAt \in DOMAIN FieldOrder /\ FieldOrder[CloseAt] = "close"
      /\ \A j, k \in DOMAIN FieldOrder : FieldOrder[j] = FieldOrder[k] => j = k
  BY FieldFacts, CloseFacts
<1>1. bin[s]["close"][p] # NaN /\ bin[s][FieldOrder[i]][p] = NaN =>
          i > CloseAt /\ (torn \/ Pending(s, i, p))
  BY DEF BinInv, Complete
<1>2. CASE ~WriteField(s)
  <2>1. i > CloseAt /\ (torn \/ Pending(s, i, p))
    BY <1>1, <1>2, OthersLeft
  <2> QED BY <1>2, <2>1, PendingKept
<1>3. ASSUME WriteField(s), NEW w, w = written[s] + 1
      PROVE  i > CloseAt /\ (torn' \/ Pending(s, i, p)')
  <2>0. /\ w \in Nat /\ w \in DOMAIN FieldOrder
        /\ worker'[s] = "busy" /\ written'[s] = w /\ plan' = plan /\ torn' = torn
    BY <1>3, Replacing
  <2>1. \A g \in Field :
          bin'[s][g][p] = IF g = FieldOrder[w] /\ p \in DOMAIN cal /\ p >= plan[s].from
                          THEN IF cal[p] \in bars[s] THEN cal[p] ELSE NaN
                          ELSE bin[s][g][p]
    BY <1>3, Replacing
  <2>2. CASE ~(p \in DOMAIN cal /\ p >= plan[s].from)
    <3>1. bin[s]["close"][p] # NaN /\ bin[s][FieldOrder[i]][p] = NaN
      BY <1>0, <2>1, <2>2
    <3>2. p \in DOMAIN cal
      BY <1>0, <3>1 DEF BinInv, Placed
    <3>3. ~Pending(s, i, p)
      BY <2>2, <3>2, InRange DEF Pending
    <3> QED BY <1>1, <2>0, <3>1, <3>3
  <2>3. CASE p \in DOMAIN cal /\ p >= plan[s].from
    <3>0. cal[p] # NaN
      BY <2>3, InRange
    <3>1. \A j \in DOMAIN FieldOrder :
            /\ j < w => bin[s][FieldOrder[j]][p] = IF cal[p] \in bars[s] THEN cal[p] ELSE NaN
            /\ j >= w /\ j >= CloseAt => bin[s][FieldOrder[j]][p] = NaN
      BY <1>3, <2>3, Replacing
    <3>2. \A j \in DOMAIN FieldOrder :
            /\ FieldOrder[j] \in Field
            /\ j <= w => bin'[s][FieldOrder[j]][p] = IF cal[p] \in bars[s] THEN cal[p] ELSE NaN
            /\ j > w /\ j >= CloseAt => bin'[s][FieldOrder[j]][p] = NaN
      <4> SUFFICES ASSUME NEW j \in DOMAIN FieldOrder
                   PROVE  /\ FieldOrder[j] \in Field
                          /\ j <= w => bin'[s][FieldOrder[j]][p] = IF cal[p] \in bars[s] THEN cal[p] ELSE NaN
                          /\ j > w /\ j >= CloseAt => bin'[s][FieldOrder[j]][p] = NaN
        OBVIOUS
      <4>0. j \in Nat /\ FieldOrder[j] \in Field
        BY FieldFacts
      <4>1. CASE j = w
        BY <2>0, <2>1, <2>3, <4>0, <4>1
      <4>2. CASE j # w
        <5>1. bin'[s][FieldOrder[j]][p] = bin[s][FieldOrder[j]][p]
          BY <1>0, <2>0, <2>1, <4>0, <4>2
        <5> QED BY <1>0, <2>0, <3>1, <4>0, <4>2, <5>1
      <4> QED BY <4>1, <4>2
    <3>3. CloseAt <= w /\ cal[p] \in bars[s]
      BY <1>0, <2>0, <3>2
    <3>4. i > w
      BY <1>0, <2>0, <3>0, <3>2, <3>3
    <3>5. i > CloseAt
      BY <1>0, <2>0, <3>3, <3>4
    <3>6. Pending(s, i, p)'
      BY <1>0, <2>0, <2>3, <3>3, <3>4, InRange DEF Pending
    <3> QED BY <3>5, <3>6
  <2> QED BY <2>2, <2>3
<1> QED BY <1>2, <1>3

LEMMA CoveredNext == BinInv /\ [BinNext]_binVars => Covered'
<1> SUFFICES ASSUME BinInv, [BinNext]_binVars, NEW s \in Symbol, lastDate'[s] # Never
             PROVE  \E p \in DOMAIN cal' :
                        /\ cal'[p] = lastDate'[s]
                        /\ bin'[s]["close"][p] = cal'[p]
                        /\ worker'[s] = "busy" => p < plan'[s].from
  BY DEF Covered
<1>0. TypeInv /\ StateOK /\ Today \in Nat /\ "close" \in Field
  BY FieldFacts, BinAssumption DEF BinAssumption, BinInv, TypeInv, BinTypeOK
<1>1. ASSUME UpdateEndDates, worker[s] = "done", LastClose(s) \in DOMAIN cal
      PROVE  /\ cal[LastClose(s)] = lastDate'[s]
             /\ bin[s]["close"][LastClose(s)] = cal[LastClose(s)]
  <2>1. LastClose(s) # Never
    BY <1>0, <1>1 DEF StateOK, Never
  <2>2. LastClose(s) \in Day /\ bin[s]["close"][LastClose(s)] # NaN
    BY <1>0, <2>1, LastCloseOf
  <2> QED BY <1>0, <1>1, <2>2 DEF UpdateEndDates, BinInv, Placed
<1>2. CASE UpdateEndDates /\ worker[s] = "done" /\ LastClose(s) \in DOMAIN cal
  BY <1>1, <1>2 DEF UpdateEndDates
<1>3. CASE ~(UpdateEndDates /\ worker[s] = "done" /\ LastClose(s) \in DOMAIN cal)
  <2>1. lastDate'[s] = lastDate[s]
    BY <1>3 DEF BinNext, Sync, NextDay, Killed, StartSync, Fetch, PublishCalendar, ReadBins,
         WriteField, WriteEnds, WritesOver, UpdateEndDates, UpdateStartDates, WriteRaises,
         binVars, diskVars
  <2>2. PICK p \in DOMAIN cal :
            /\ cal[p] = lastDate[s]
            /\ bin[s]["close"][p] = cal[p]
            /\ worker[s] = "busy" => p < plan[s].from
    BY <2>1 DEF BinInv, Covered
  <2>3. p \in DOMAIN cal' /\ cal'[p] = cal[p]
    <3>1. CASE PublishCalendar
      BY <1>0, <3>1, CalendarGrows
    <3> QED BY <3>1, DiskStep DEF WriteField
  <2>4. p \in Day /\ p \in Nat /\ cal[p] # NaN
    <3>1. p \in Day
      BY <1>0, CalendarShort DEF TypeInv, StateOK
    <3> QED BY <3>1, InRange
  <2>5. bin'[s]["close"][p] = bin[s]["close"][p]
    <3>1. ASSUME WriteField(s), NEW w, w = written[s] + 1
          PROVE  bin'[s]["close"][p] = bin[s]["close"][p]
      <4>1. worker[s] = "busy"
        BY <3>1, Replacing
      <4>2. ~(p >= plan[s].from)
        BY <2>2, <2>4, <4>1, InRange
      <4> QED BY <1>0, <2>4, <3>1, <4>2, Replacing
    <3> QED BY <3>1, OthersLeft
  <2>6. ASSUME worker'[s] = "busy" PROVE p < plan'[s].from
    <3>1. CASE ReadBins(s)
      <4>1. ~(start[s] = Never /\ BarIndexes(s) = {}) /\ plan'[s] = PlanOf(s)
        BY <1>0, <2>6, <3>1 DEF ReadBins, StateOK
      <4>2. p <= LastClose(s) /\ LastClose(s) \in Nat
        BY <1>0, <2>2, <2>4, LastCloseOf
      <4>3. LastClose(s) < PlanOf(s).from /\ PlanOf(s).from \in 0..Today + 1
        BY <1>0, <4>1, PlanType
      <4> QED BY <1>0, <2>4, <4>1, <4>2, <4>3
    <3>2. CASE WriteField(s)
      BY <2>2, <3>2, Replacing DEF WriteField
    <3> QED BY <2>2, <2>6, <3>1, <3>2, BusyStep
  <2> QED BY <2>1, <2>2, <2>3, <2>5, <2>6
<1> QED BY <1>2, <1>3

-----------------------------------------------------------------------------
(* The safety properties.                                                  *)

LEMMA BinInvariant == BinSpec => []BinInv
<1>1. BinInv /\ [BinNext]_binVars => BinInv'
  BY TypeNext, PlacedNext, StagesNext, ProgressNext, LaterFieldsNext, CompleteNext, CoveredNext
     DEF BinInv
<1> QED BY <1>1, InvInit, PTL DEF BinSpec

\* Every bar on disk stands at the index of its day, whatever was killed or
\* raised: the promise the readers of the bins rely on.
THEOREM BarsAligned == BinSpec => []Aligned
<1>1. BinInv => Aligned
  BY DEF BinInv, TypeInv, Increasing, Placed, Aligned
<1> QED BY <1>1, BinInvariant, PTL

\* instruments/all.txt never claims a day whose close is not on disk.
THEOREM CoverageIsTrue == BinSpec => []CoverageTrue
<1>1. BinInv => CoverageTrue
  BY DEF BinInv, Covered, CoverageTrue
<1> QED BY <1>1, BinInvariant, PTL

\* A file is behind the close only while a worker is between the two, or after
\* one was stopped there, and never a file that is written before it.
THEOREM FieldsAreInStep == BinSpec => []FieldsAgree
<1>1. BinInv => FieldsAgree
  <2> SUFFICES ASSUME BinInv, NEW s \in Symbol, NEW p \in Day, bin[s]["close"][p] # NaN,
                      NEW i \in DOMAIN FieldOrder, bin[s][FieldOrder[i]][p] = NaN
               PROVE  /\ \E c \in 1..i - 1 : FieldOrder[c] = "close"
                      /\ torn \/ (Between(s) /\ i > written[s])
    BY DEF FieldsAgree
  <2>0. i \in 1..Len(FieldOrder) /\ Len(FieldOrder) \in Nat /\ CloseAt \in 1..Len(FieldOrder)
    BY FieldFacts, CloseFacts
  <2>1. i > CloseAt /\ (torn \/ Pending(s, i, p))
    BY DEF BinInv, Complete
  <2>2. CloseAt \in 1..i - 1 /\ FieldOrder[CloseAt] = "close"
    BY <2>0, <2>1, CloseFacts
  <2>3. Pending(s, i, p) => Between(s) /\ i > written[s]
    BY <2>0 DEF Pending, Between, BinInv, TypeInv, BinTypeOK, StateOK
  <2> QED BY <2>1, <2>2, <2>3
<1> QED BY <1>1, BinInvariant, PTL

\* No write goes over a bar that an earlier sync has accepted.
LEMMA WriteSpares ==
    ASSUME BinInv, [BinNext]_binVars,
           NEW s \in Symbol, NEW f \in Field, NEW p \in Day,
           bin[s][f][p] # NaN, p <= LastClose(s)
    PROVE  bin'[s][f][p] = bin[s][f][p]
<1>1. CASE ~WriteField(s)
  BY <1>1, OthersLeft
<1>2. ASSUME WriteField(s), NEW w, w = written[s] + 1, f = FieldOrder[w], p >= plan[s].from
      PROVE  FALSE
  <2>0. /\ w \in Nat /\ w \in DOMAIN FieldOrder /\ CloseAt \in Nat
        /\ CloseAt \in DOMAIN FieldOrder /\ FieldOrder[CloseAt] = "close"
        /\ StateOK /\ p \in Nat /\ p >= 1 /\ plan[s].from \in Nat
    <3>1. StateOK /\ Today \in Nat
      BY BinAssumption DEF BinAssumption, BinInv, TypeInv, BinTypeOK
    <3>2. plan[s].from \in Nat /\ p \in Nat /\ p >= 1
      BY InRange
    <3> QED BY <1>2, <3>1, <3>2, Replacing, FieldFacts, CloseFacts
  <2>1. CASE w >= CloseAt
    BY <1>2, <2>0, <2>1, Replacing
  <2>2. CASE w < CloseAt
    <3>1. LastClose(s) \in Day /\ bin[s]["close"][LastClose(s)] # NaN /\ LastClose(s) \in Nat
      BY <2>0, LastCloseOf DEF Never
    <3>2. LastClose(s) >= plan[s].from
      BY <1>2, <2>0, <3>1
    <3> QED BY <1>2, <2>0, <2>2, <3>1, <3>2, Replacing
  <2> QED BY <2>0, <2>1, <2>2
<1>3. CASE WriteField(s)
  BY <1>2, <1>3, Replacing
<1> QED BY <1>1, <1>3

\* A bar at or before the last close is never changed again.
THEOREM NothingIsLost == BinSpec => NothingLost
<1>1. BinInv /\ [BinNext]_binVars =>
        [\A s \in Symbol, f \in Field, p \in Day :
            bin[s][f][p] # NaN /\ p <= LastClose(s) => bin'[s][f][p] = bin[s][f][p]]_bin
  BY WriteSpares
<1> QED BY <1>1, BinInvariant, PTL DEF BinSpec, NothingLost

-----------------------------------------------------------------------------
(* What is missing after a sync: the bars of workers that raised, no others. *)

\* Once writing is reported complete, every fetched bar of a calendar day is on disk, or
\* its worker was lost.
OnlyLostMissing ==
    phase \in {"ends", "starts"} =>
        \A s \in Symbol, p \in DOMAIN cal :
            cal[p] \in bars[s] /\ p > LastClose(s) => worker[s] = "lost"

\* The widest window of bars a sync can have asked for on day T.
Window(s, T) ==
    {d \in traded[s] : d <= T /\ Cardinality({e \in traded[s] : d <= e /\ e <= T}) <= MaxBars}

\* The bars of s lie in that window; they fill it, or there are none, as long
\* as s has no end date.
GapFetched(s, T) ==
    /\ bars[s] \subseteq Window(s, T)
    /\ phase \in {"fetch", "calendar", "write"} /\ lastDate[s] = Never /\ bars[s] # {} =>
          Window(s, T) \subseteq bars[s]

\* No day of the calendar before index n lies in the window.
BeginsAt(s, n, T) ==
    /\ n \in DOMAIN cal
    /\ \A p \in DOMAIN cal : p < n => cal[p] \notin Window(s, T)

\* The files of a symbol begin with the first calendar day of its first window.
HeaderOK(s, T) ==
    IF start[s] = Never THEN \A f \in Field, p \in Day : bin[s][f][p] = NaN
                        ELSE BeginsAt(s, start[s], T)

\* What a worker passes over lies before the window, or is there.
PlanOK(s, T) ==
    worker[s] = "busy" =>
        /\ BeginsAt(s, plan[s].index, T)
        /\ \A p \in Day : p < plan[s].from => p < plan[s].index \/ p <= LastClose(s)

\* The bars at hand, the files and the plans, as of the day T on which the
\* bars were asked for.
AsOf(T) ==
    /\ \A p \in DOMAIN cal : cal[p] <= T
    /\ \A s \in Symbol : GapFetched(s, T) /\ HeaderOK(s, T) /\ PlanOK(s, T)

\* A worker that is done has written all bars, and one that is off had none to write.
Written ==
    \A s \in Symbol, p \in DOMAIN cal : cal[p] \in bars[s] =>
        /\ worker[s] = "done" => p <= LastClose(s)
        /\ phase \in {"write", "ends", "starts"} => worker[s] # "off"

WrittenInv == (\E T \in 0..today : AsOf(T)) /\ Written

LEMMA WrittenInit == BinInit => WrittenInv
<1> SUFFICES ASSUME BinInit PROVE WrittenInv
  OBVIOUS
<1>1. /\ cal = <<>> /\ phase = "idle"
      /\ \A s \in Symbol : worker[s] = "off" /\ start[s] = Never
      /\ \A s \in Symbol, f \in Field, p \in Day : bin[s][f][p] = NaN
  BY DEF BinInit, AllOff, NoneYet, Never
<1>2. DOMAIN cal = {} /\ today = 1 /\ \A s \in Symbol : bars[s] = {}
  BY <1>1 DEF BinInit, NoBars
<1>3. AsOf(1)
  BY <1>1, <1>2 DEF AsOf, GapFetched, HeaderOK, PlanOK
<1>4. 1 \in 0..today
  BY <1>2
<1> QED BY <1>1, <1>2, <1>3, <1>4 DEF WrittenInv, Written

\* What is true of the numbers of days and indexes.
LEMMA DaysAre ==
    ASSUME BinInv
    PROVE  /\ Today \in Nat /\ StateOK /\ today \in Nat /\ today <= Today
           /\ \A p \in DOMAIN cal : cal[p] \in Day /\ cal[p] \in Nat /\ p \in Day
           /\ \A p \in Day : p \in Nat
           /\ \A s \in Symbol : /\ LastClose(s) \in Nat /\ bars[s] \subseteq Day /\ traded[s] \subseteq Day
                                /\ lastDate[s] \in Nat /\ start[s] \in Nat
<1>1. Today \in Nat /\ StateOK /\ TypeInv
  BY BinAssumption DEF BinAssumption, BinInv, TypeInv, BinTypeOK
<1>2. DOMAIN cal \subseteq Day
  BY <1>1, CalendarShort DEF TypeInv, StateOK
<1>3. \A p \in DOMAIN cal : cal[p] \in Day
  BY <1>1 DEF StateOK
<1>4. \A s \in Symbol : LastClose(s) \in Nat
  BY <1>1, LastCloseOf
<1>5. \A p \in Day : p \in Nat
  BY <1>1 DEF Day
<1>6. today \in Nat /\ today <= Today
  BY <1>1 DEF StateOK, Day
<1>7. \A s \in Symbol : bars[s] \subseteq Day /\ traded[s] \subseteq Day /\ lastDate[s] \in Nat /\ start[s] \in Nat
  BY <1>1, BinAssumption DEF StateOK, BinAssumption
<1> QED BY <1>1, <1>2, <1>3, <1>4, <1>5, <1>6, <1>7

\* The smaller of two numbers.
LEMMA MinOfTwo ==
    ASSUME NEW x \in Int, NEW y \in Int
    PROVE  Min({x, y}) \in {x, y} /\ Min({x, y}) <= x
<1>1. \E m \in {x, y} : \A z \in {x, y} : m <= z
  OBVIOUS
<1> QED BY <1>1 DEF Min

\* The last close never goes back.
LEMMA LastCloseGrows ==
    ASSUME BinInv, [BinNext]_binVars, NEW s \in Symbol
    PROVE  /\ LastClose(s)' \in Nat /\ LastClose(s) <= LastClose(s)'
           /\ \A p \in Day : bin'[s]["close"][p] # NaN => p <= LastClose(s)'
<1> DEFINE C == {p \in Day : bin'[s]["close"][p] # NaN}
<1>1. MaxDay(C) \in 0..Today /\ \A d \in C : d <= MaxDay(C)
  BY MaxDayOf
<1>2. LastClose(s)' = MaxDay(C)
  BY DEF LastClose
<1>3. Today \in Nat /\ StateOK /\ LastClose(s) \in Nat
  BY DaysAre
<1>4. \A p \in Day : bin'[s]["close"][p] # NaN => p <= MaxDay(C)
  BY <1>1
<1> HIDE DEF C
<1>5. LastClose(s) <= MaxDay(C)
  <2>1. CASE LastClose(s) = 0
    BY <1>1, <1>3, <2>1
  <2>2. CASE LastClose(s) # 0
    <3>1. LastClose(s) \in Day /\ bin[s]["close"][LastClose(s)] # NaN
      BY <1>3, <2>2, LastCloseOf DEF Never
    <3>2. "close" \in Field /\ LastClose(s) <= LastClose(s)
      BY <1>3, FieldFacts
    <3>3. bin'[s]["close"][LastClose(s)] # NaN
      BY <3>1, <3>2, WriteSpares
    <3> QED BY <1>4, <3>1, <3>3
  <2> QED BY <2>1, <2>2
<1> QED BY <1>1, <1>2, <1>3, <1>4, <1>5


\* Nobody's trading history changes.
LEMMA HistoryStays == [BinNext]_binVars => traded' = traded
BY DEF BinNext, Sync, NextDay, Killed, StartSync, Fetch, PublishCalendar, ReadBins, WriteField,
       WriteEnds, WritesOver, UpdateEndDates, UpdateStartDates, WriteRaises, binVars

\* A window only moves on.
LEMMA WindowMoves ==
    ASSUME BinInv, NEW s \in Symbol, NEW T \in Nat, NEW U \in Nat, T <= U,
           NEW d \in Window(s, U), d <= T
    PROVE  d \in Window(s, T)
<1> DEFINE E(V) == {e \in traded[s] : d <= e /\ e <= V}
<1>1. /\ Today \in Nat /\ traded[s] \subseteq Day /\ d \in traded[s]
      /\ Cardinality(E(U)) <= MaxBars /\ MaxBars \in Nat
  BY DaysAre, BinAssumption DEF Window, BinAssumption
<1>2. E(T) \subseteq E(U) /\ E(U) \subseteq 1..Today
  BY <1>1 DEF Day
<1>3. IsFiniteSet(E(U))
  <2>1. IsFiniteSet(1..Today)
    BY <1>1, FS_Interval
  <2> QED BY <1>2, <2>1, FS_Subset
<1>4. Cardinality(E(T)) <= Cardinality(E(U)) /\ Cardinality(E(T)) \in Nat /\ Cardinality(E(U)) \in Nat
  BY <1>2, <1>3, FS_Subset, FS_CardinalityType
<1>5. Cardinality(E(T)) <= MaxBars
  BY <1>1, <1>4
<1> QED BY <1>1, <1>5 DEF Window

\* A bar that lies after the end date of its symbol is asked for, unless
\* there are more than MaxBars of them.
LEMMA NoSmallGap ==
    ASSUME BinInv, NEW s \in Symbol, Cardinality(Since(s, lastDate[s])) <= MaxBars
    PROVE  Since(s, lastDate[s]) \subseteq Offered(s)
<1> SUFFICES ASSUME NEW d \in Since(s, lastDate[s]) PROVE Cardinality(Since(s, d)) <= BarsToFetch(s)
  BY DEF Since, Offered
<1>1. /\ Today \in Nat /\ today \in Nat /\ today <= Today /\ lastDate[s] \in Nat /\ traded[s] \subseteq Day
      /\ MaxBars \in Nat /\ d \in Day /\ d \in Nat /\ lastDate[s] <= d /\ d <= today
  BY DaysAre, BinAssumption DEF BinAssumption, Since, Day
<1>2. Since(s, d) \subseteq Since(s, lastDate[s]) /\ Since(s, lastDate[s]) \subseteq lastDate[s]..today
  BY <1>1 DEF Since, Day
<1>3. /\ IsFiniteSet(lastDate[s]..today)
      /\ Cardinality(lastDate[s]..today) = today - lastDate[s] + 1
  <2> DEFINE l == lastDate[s]
  <2>1. l <= today /\ l \in Int /\ today \in Int /\ ~(l > today)
    BY <1>1
  <2> HIDE DEF l
  <2>2. IsFiniteSet(l..today) /\ Cardinality(l..today) = IF l > today THEN 0 ELSE today - l + 1
    BY <2>1, FS_Interval
  <2>3. Cardinality(l..today) = today - l + 1
    BY <2>1, <2>2
  <2> QED BY <2>2, <2>3 DEF l
<1>4. IsFiniteSet(Since(s, lastDate[s])) /\ Cardinality(Since(s, lastDate[s])) <= today - lastDate[s] + 1
  BY <1>2, <1>3, FS_Subset
<1>5. /\ Cardinality(Since(s, d)) <= Cardinality(Since(s, lastDate[s]))
      /\ Cardinality(Since(s, d)) \in Nat /\ Cardinality(Since(s, lastDate[s])) \in Nat
  BY <1>2, <1>4, FS_Subset, FS_CardinalityType
<1> DEFINE gap == today - lastDate[s]
           need == (3 * gap) \div 2 + 2
           c == Cardinality(Since(s, d))
<1>6. gap \in Nat /\ need \in Nat /\ c \in Nat /\ c <= MaxBars /\ c <= gap + 1
  BY <1>1, <1>4, <1>5
<1>7. gap + 1 <= need
  BY <1>1
<1>8. CASE lastDate[s] = Never
  BY <1>6, <1>8 DEF BarsToFetch
<1>9. CASE lastDate[s] # Never
  <2>1. BarsToFetch(s) = Min({MaxBars, Max({3, need})})
    BY <1>9 DEF BarsToFetch
  <2> HIDE DEF need, gap, c
  <2>2. Max({3, need}) \in {3, need} /\ need <= Max({3, need})
    <3>1. {3, need} \in SUBSET (0..need + 3) /\ need + 3 \in Nat /\ {3, need} # {}
      BY <1>6
    <3> QED BY <3>1, MaxIsGreatest
  <2> DEFINE m == Max({3, need})
  <2>3. m \in Nat /\ need <= m
    BY <1>6, <2>2
  <2> HIDE DEF m
  <2>4. Min({MaxBars, m}) \in {MaxBars, m}
    <3>1. {MaxBars, m} \in SUBSET Nat /\ {MaxBars, m} # {}
      BY <1>1, <2>3
    <3> QED BY <3>1, MinIsLeast
  <2>5. c <= Min({MaxBars, m})
    BY <1>1, <1>6, <1>7, <2>3, <2>4
  <2> QED BY <2>1, <2>5 DEF m, c
<1> QED BY <1>8, <1>9

\* What is offered lies in the window, and is all of it where there is no end date.
LEMMA OfferedWindow ==
    ASSUME BinInv, NEW s \in Symbol
    PROVE  /\ Offered(s) \subseteq Window(s, today)
           /\ lastDate[s] = Never => Window(s, today) \subseteq Offered(s)
<1>1. /\ Today \in Nat /\ today \in Nat /\ lastDate[s] \in Nat /\ traded[s] \subseteq Day /\ MaxBars \in Nat
  BY DaysAre, BinAssumption DEF BinAssumption
<1>2. CASE lastDate[s] = Never
  BY <1>2 DEF Offered, Window, BarsToFetch, Since
<1>3. CASE lastDate[s] # Never
  <2> SUFFICES ASSUME NEW d \in Offered(s) PROVE d \in Window(s, today)
    BY <1>3
  <2> DEFINE m == Max({3, (3 * (today - lastDate[s])) \div 2 + 2})
             c == Cardinality(Since(s, d))
  <2>1. d \in traded[s] /\ d <= today /\ c <= Min({MaxBars, m})
    BY <1>3 DEF Offered, BarsToFetch
  <2>2. today - lastDate[s] \in Int /\ (3 * (today - lastDate[s])) \div 2 + 2 \in Int
    BY <1>1
  <2>3. m \in Int
    <3> DEFINE w == (3 * (today - lastDate[s])) \div 2 + 2
    <3>1. w \in Int
      BY <2>2
    <3> HIDE DEF w
    <3> QED BY <3>1, MaxOfTwo DEF w
  <2> HIDE DEF m
  <2>4. Min({MaxBars, m}) \in Int /\ Min({MaxBars, m}) <= MaxBars
    BY <1>1, <2>3, MinOfTwo
  <2>5. c \in Nat
    <3>1. Since(s, d) \subseteq 1..Today
      BY <1>1 DEF Since, Day
    <3>2. IsFiniteSet(1..Today)
      BY <1>1, FS_Interval
    <3> QED BY <3>1, <3>2, FS_Subset, FS_CardinalityType
  <2>6. c <= MaxBars
    BY <1>1, <2>1, <2>4, <2>5
  <2> QED BY <2>1, <2>6 DEF Window, Since
<1> QED BY <1>2, <1>3

\* A symbol's first index stays its first while the calendar grows at its end
\* and the window moves on.
LEMMA BeginsKept ==
    ASSUME BinInv, [BinNext]_binVars, NEW s \in Symbol, NEW n, NEW T \in Nat, BeginsAt(s, n, T)
    PROVE  /\ Window(s, T)' = Window(s, T)
           /\ n \in DOMAIN cal'
           /\ \A p \in DOMAIN cal' : p < n => cal'[p] \notin Window(s, T)
<1>1. traded' = traded
  BY HistoryStays
<1>2. n \in DOMAIN cal /\ \A p \in DOMAIN cal : p < n => cal[p] \notin Window(s, T)
  BY DEF BeginsAt
<1>3. Window(s, T)' = Window(s, T)
  BY <1>1 DEF Window
<1>4. CASE cal' = cal
  BY <1>2, <1>3, <1>4
<1>5. CASE PublishCalendar
  <2>1. /\ cal' \in Seq(Day) /\ cal \in Seq(Day)
        /\ DOMAIN cal \subseteq DOMAIN cal' /\ \A p \in DOMAIN cal : cal'[p] = cal[p]
    BY <1>5, CalendarGrows DEF BinInv, TypeInv, BinTypeOK, StateOK
  <2>2. /\ DOMAIN cal = 1..Len(cal) /\ Len(cal) \in Nat
        /\ DOMAIN cal' = 1..Len(cal') /\ Len(cal') \in Nat
    BY <2>1
  <2>3. \A p \in DOMAIN cal' : p < n => p \in DOMAIN cal
    BY <1>2, <2>2
  <2> QED BY <1>2, <1>3, <2>1, <2>3
<1> QED BY <1>3, <1>4, <1>5, DiskStep DEF WriteField

LEMMA HeadersNext ==
    ASSUME BinInv, [BinNext]_binVars, NEW T \in Nat, AsOf(T), NEW s \in Symbol
    PROVE  HeaderOK(s, T)'
<1>1. ASSUME WriteField(s)
      PROVE  /\ start'[s] # Never /\ start'[s] \in DOMAIN cal'
             /\ \A p \in DOMAIN cal' : p < start'[s] => cal'[p] \notin Window(s, T)'
  <2>1. BeginsAt(s, plan[s].index, T)
    BY <1>1 DEF WriteField, AsOf, PlanOK
  <2>2. start'[s] = plan[s].index
    BY <1>1, DaysAre DEF WriteField, StateOK
  <2>3. plan[s].index \in DOMAIN cal
    BY <2>1 DEF BeginsAt
  <2>4. plan[s].index # Never
    BY <2>3, DaysAre DEF Never, Day
  <2> QED BY <2>1, <2>2, <2>4, BeginsKept
<1>2. ASSUME ~WriteField(s) PROVE start'[s] = start[s] /\ bin'[s] = bin[s]
  <2>1. bin'[s] = bin[s]
    BY <1>2, OthersLeft
  <2>2. ASSUME NEW t \in Symbol, WriteField(t) PROVE start'[s] = start[s]
    BY <1>2, <2>2, DaysAre DEF WriteField, StateOK
  <2>3. start' = start \/ \E t \in Symbol : WriteField(t)
    BY DEF BinNext, Sync, NextDay, Killed, StartSync, Fetch, PublishCalendar, ReadBins, WriteEnds,
           WritesOver, UpdateEndDates, UpdateStartDates, WriteRaises, binVars, diskVars
  <2> QED BY <2>1, <2>2, <2>3
<1>3. CASE WriteField(s)
  BY <1>1, <1>3 DEF HeaderOK, BeginsAt
<1>4. CASE ~WriteField(s) /\ start[s] = Never
  BY <1>2, <1>4 DEF AsOf, HeaderOK
<1>5. CASE ~WriteField(s) /\ start[s] # Never
  <2>1. BeginsAt(s, start[s], T)
    BY <1>5 DEF AsOf, HeaderOK
  <2>2. /\ start'[s] \in DOMAIN cal'
        /\ \A p \in DOMAIN cal' : p < start'[s] => cal'[p] \notin Window(s, T)'
    BY <1>2, <1>5, <2>1, BeginsKept
  <2> QED BY <1>2, <1>5, <2>2 DEF HeaderOK, BeginsAt
<1> QED BY <1>3, <1>4, <1>5

\* A worker starts at the first day of the window, or after its last close.
LEMMA PlanBegins ==
    ASSUME BinInv, NEW T \in Nat, AsOf(T), NEW s \in Symbol, phase = "write",
           ~(start[s] = Never /\ BarIndexes(s) = {})
    PROVE  /\ BeginsAt(s, PlanOf(s).index, T)
           /\ \A p \in Day : p < PlanOf(s).from => p < PlanOf(s).index \/ p <= LastClose(s)
<1>0. /\ Today \in Nat /\ StateOK /\ LastClose(s) \in Nat
      /\ \A p \in DOMAIN cal : cal[p] \in Day /\ cal[p] \in Nat /\ p \in Day
      /\ \A p \in Day : p \in Nat
  BY DaysAre
<1> DEFINE index == IF start[s] # Never THEN start[s] ELSE Min(BarIndexes(s))
           B == {index, LastClose(s) + 1}
<1>1. PlanOf(s) = [index |-> index, from |-> Max(B)]
  BY DEF PlanOf
<1>2. BeginsAt(s, index, T)
  <2>1. CASE start[s] # Never
    BY <2>1 DEF AsOf, HeaderOK
  <2>2. CASE start[s] = Never
    <3> DEFINE m == Min(BarIndexes(s))
    <3>1. BarIndexes(s) # {} /\ BarIndexes(s) \in SUBSET Nat
      BY <1>0, <2>2 DEF BarIndexes
    <3>2. m \in BarIndexes(s) /\ \A x \in BarIndexes(s) : m <= x
      BY <3>1, MinIsLeast
    <3> HIDE DEF m
    <3>3. m \in DOMAIN cal /\ m \in Nat /\ bars[s] # {}
      BY <3>1, <3>2 DEF BarIndexes
    <3>4. \A p \in DOMAIN cal : p < m => cal[p] \notin bars[s]
      BY <1>0, <3>2, <3>3 DEF BarIndexes
    <3>5. \A f \in Field, p \in Day : bin[s][f][p] = NaN
      BY <2>2 DEF AsOf, HeaderOK
    <3>6. lastDate[s] = Never
      <4>1. "close" \in Field /\ \A p \in DOMAIN cal : cal[p] # NaN
        BY FieldFacts, InRange
      <4> QED BY <1>0, <3>5, <4>1 DEF BinInv, Covered
    <3>7. Window(s, T) \subseteq bars[s]
      BY <3>3, <3>6 DEF AsOf, GapFetched
    <3>8. BeginsAt(s, m, T)
      BY <3>3, <3>4, <3>7 DEF BeginsAt
    <3> QED BY <2>2, <3>8 DEF m
  <2> QED BY <2>1, <2>2
<1>3. index \in Nat
  BY <1>0, <1>2 DEF BeginsAt
<1> HIDE DEF index
<1>4. Max(B) \in B
  <2>1. LastClose(s) \in 0..Today
    BY <1>0, LastCloseOf
  <2>2. index \in Day
    BY <1>0, <1>2 DEF BeginsAt
  <2>3. B \subseteq 0..Today + 1 /\ Today + 1 \in Nat /\ B # {}
    BY <1>0, <2>1, <2>2 DEF Day
  <2> HIDE DEF B
  <2> QED BY <2>3, MaxIsGreatest
<1>5. \A p \in Day : p < Max(B) => p < index \/ p <= LastClose(s)
  BY <1>0, <1>3, <1>4
<1> QED BY <1>1, <1>2, <1>5

LEMMA PlannedNext ==
    ASSUME BinInv, [BinNext]_binVars, NEW T \in Nat, AsOf(T), NEW s \in Symbol
    PROVE  PlanOK(s, T)'
<1> SUFFICES ASSUME worker'[s] = "busy"
             PROVE  /\ plan'[s].index \in DOMAIN cal'
                    /\ \A p \in DOMAIN cal' : p < plan'[s].index => cal'[p] \notin Window(s, T)'
                    /\ \A p \in Day : p < plan'[s].from => p < plan'[s].index \/ p <= LastClose(s)'
  BY DEF PlanOK, BeginsAt
<1>0. StateOK
  BY DaysAre
<1>1. /\ BeginsAt(s, plan'[s].index, T)
      /\ \A p \in Day : p < plan'[s].from => p < plan'[s].index \/ p <= LastClose(s)
  <2>1. CASE ReadBins(s)
    <3>1. ~(start[s] = Never /\ BarIndexes(s) = {}) /\ phase = "write" /\ plan'[s] = PlanOf(s)
      BY <1>0, <2>1 DEF ReadBins, StateOK
    <3> QED BY <3>1, PlanBegins
  <2>2. CASE worker[s] = "busy" /\ plan'[s] = plan[s]
    BY <2>2 DEF AsOf, PlanOK
  <2> QED BY <2>1, <2>2, BusyStep DEF WriteField
<1>2. \A p \in Day : p <= LastClose(s) => p <= LastClose(s)'
  BY LastCloseGrows, DaysAre
<1> QED BY <1>1, <1>2, BeginsKept

\* The days that publishing adds to the calendar are days of fetched bars.
LEMMA GrownFromBars ==
    ASSUME BinInv, PublishCalendar, NEW p \in DOMAIN cal'
    PROVE  \/ p \in DOMAIN cal /\ cal'[p] = cal[p]
           \/ \E s \in Symbol : cal'[p] \in bars[s]
<1> DEFINE D == {d \in AcceptedDays : \A c \in InCalendar : d > c}
           n == Cardinality(D)
<1>1. PICK e \in InOrder(D) : cal' = cal \o e
  BY DEF PublishCalendar, ExtendedCalendar
<1>2. D \subseteq UNION {bars[s] : s \in Symbol}
  BY DEF AcceptedDays, NewDays
<1>3. /\ cal \in Seq(Day) /\ DOMAIN cal \subseteq DOMAIN cal' /\ cal' \in Seq(Day)
      /\ \A q \in DOMAIN cal : cal'[q] = cal[q]
  BY CalendarGrows DEF BinInv, TypeInv, BinTypeOK, StateOK
<1>4. n \in Nat
  <2>1. D \subseteq Day /\ IsFiniteSet(Day)
    <3>1. Today \in Nat /\ \A s \in Symbol : bars[s] \subseteq Day
      BY DaysAre
    <3>2. D \subseteq Day
      BY <1>2, <3>1
    <3> HIDE DEF D
    <3> QED BY <3>1, <3>2, FS_Interval DEF Day
  <2>2. IsFiniteSet(D)
    BY <2>1, FS_Subset
  <2> HIDE DEF D
  <2> QED BY <2>2, FS_CardinalityType
<1>5. e \in [1..n -> D]
  BY DEF InOrder
<1> HIDE DEF D, n
<1>6. e \in Seq(D) /\ Len(e) = n /\ Len(cal) \in Nat /\ p \in 1..Len(cal)+n
  <2>1. e \in Seq(D) /\ Len(e) = n
    BY <1>4, <1>5
  <2>2. Len(cal \o e) = Len(cal) + n /\ Len(cal) \in Nat /\ DOMAIN cal' = 1..Len(cal')
    BY <1>3, <2>1
  <2> QED BY <1>1, <2>1, <2>2
<1>7. CASE p <= Len(cal)
  BY <1>3, <1>6, <1>7
<1>8. CASE p > Len(cal)
  <2>1. cal'[p] = e[p - Len(cal)] /\ p - Len(cal) \in 1..n
    BY <1>1, <1>3, <1>4, <1>6, <1>8
  <2>2. cal'[p] \in D
    BY <1>5, <2>1
  <2> QED BY <1>2, <2>2
<1> QED BY <1>4, <1>6, <1>7, <1>8

\* What a sync has fetched stays within the window of the day it asked.
LEMMA FetchedNext ==
    ASSUME BinInv, [BinNext]_binVars, NEW T \in 0..today, AsOf(T),
           ~ \E f \in BOOLEAN, probe \in 0..Today : StartSync(f, probe)
    PROVE  /\ \A p \in DOMAIN cal' : cal'[p] <= T
           /\ \A s \in Symbol : GapFetched(s, T)'
<1>0. /\ Today \in Nat /\ StateOK /\ today \in Nat /\ T \in Nat
      /\ \A p \in DOMAIN cal : cal[p] \in Nat
  BY DaysAre
<1>1. \A s \in Symbol : Window(s, T)' = Window(s, T)
  BY HistoryStays DEF Window
<1>2. ASSUME UNCHANGED cal, \A s \in Symbol : bars'[s] \in {bars[s], {}},
             \/ phase' \notin {"fetch", "calendar", "write"}
             \/ lastDate' = lastDate /\ phase \in {"fetch", "calendar", "write"}
             \/ lastDate' = lastDate /\ phase' = phase
      PROVE  /\ \A p \in DOMAIN cal' : cal'[p] <= T
             /\ \A s \in Symbol : GapFetched(s, T)'
  BY <1>1, <1>2 DEF AsOf, GapFetched
<1>3. ASSUME UNCHANGED cal, Forget
      PROVE  /\ \A p \in DOMAIN cal' : cal'[p] <= T
             /\ \A s \in Symbol : GapFetched(s, T)'
  BY <1>2, <1>3 DEF Forget, NoBars
<1>4. CASE PublishCalendar
  <2>1. UNCHANGED <<lastDate, bars>> /\ phase = "calendar"
    BY <1>4 DEF PublishCalendar
  <2>2. \A s \in Symbol : GapFetched(s, T)'
    BY <1>1, <2>1 DEF AsOf, GapFetched
  <2>3. \A p \in DOMAIN cal' : cal'[p] <= T
    <3>1. \A s \in Symbol, d \in Day : d \in bars[s] => d <= T
      BY DEF AsOf, GapFetched, Window
    <3>2. \A s \in Symbol : bars[s] \subseteq Day
      BY DaysAre
    <3>3. \A p \in DOMAIN cal : cal[p] <= T
      BY DEF AsOf
    <3> QED BY <1>4, <3>1, <3>2, <3>3, GrownFromBars
  <2> QED BY <2>2, <2>3
<1>5. CASE NextDay
  BY <1>2, <1>5 DEF NextDay, diskVars, jobVars
<1>6. ASSUME NEW ok \in SUBSET Symbol, Fetch(ok)
      PROVE  /\ \A p \in DOMAIN cal' : cal'[p] <= T
             /\ \A s \in Symbol : GapFetched(s, T)'
  <2>1. CASE Forget
    BY <1>3, <1>6, <2>1 DEF Fetch, diskVars
  <2>2. CASE /\ phase = "fetch"
             /\ bars' = [s \in Symbol |-> IF s \in ok THEN bars[s] ELSE {}]
    BY <1>2, <1>6, <2>2 DEF Fetch, diskVars
  <2> QED BY <1>6, <2>1, <2>2 DEF Fetch
<1>7. ASSUME NEW s \in Symbol, ReadBins(s) \/ WriteField(s) \/ WriteEnds(s) \/ WriteRaises(s)
      PROVE  /\ \A p \in DOMAIN cal' : cal'[p] <= T
             /\ \A t \in Symbol : GapFetched(t, T)'
  <2>1. UNCHANGED <<cal, lastDate, phase, bars>>
    BY <1>7 DEF ReadBins, WriteField, WriteEnds, WriteRaises, diskVars
  <2> QED BY <1>2, <2>1
<1>8. CASE WritesOver
  BY <1>2, <1>8 DEF WritesOver, diskVars
<1>9. CASE UpdateEndDates
  BY <1>2, <1>9 DEF UpdateEndDates
<1>10. CASE UpdateStartDates
  BY <1>3, <1>10 DEF UpdateStartDates
<1>11. CASE Killed
  BY <1>3, <1>11 DEF Killed, diskVars
<1>12. CASE UNCHANGED binVars
  BY <1>2, <1>12 DEF binVars, diskVars, jobVars
<1> QED
  BY <1>4, <1>5, <1>6, <1>7, <1>8, <1>9, <1>10, <1>11, <1>12 DEF BinNext, Sync

\* A new sync looks back from its own day.
LEMMA AsOfToday ==
    ASSUME BinInv, NEW T \in 0..today, AsOf(T), NEW f \in BOOLEAN, NEW probe \in 0..Today,
           StartSync(f, probe)
    PROVE  AsOf(today)'
<1>0. /\ Today \in Nat /\ StateOK /\ today \in Nat /\ T \in Nat /\ T <= today
      /\ \A p \in DOMAIN cal : cal[p] \in Nat
  BY DaysAre
<1>1. /\ UNCHANGED <<cal, traded, today, lastDate, start, bin, worker, plan>> /\ phase = "idle"
      /\ \A s \in Symbol : bars'[s] = {} \/ bars'[s] = Offered(s)
  BY DEF StartSync, diskVars
<1>2. \A s \in Symbol : Window(s, today)' = Window(s, today)
  BY <1>1 DEF Window
<1>3. \A p \in DOMAIN cal' : cal'[p] <= today'
  BY <1>0, <1>1 DEF AsOf
<1>4. ASSUME NEW s \in Symbol PROVE GapFetched(s, today)'
  BY <1>1, <1>2, OfferedWindow DEF GapFetched
<1>5. ASSUME NEW s \in Symbol, NEW n, BeginsAt(s, n, T) PROVE BeginsAt(s, n, today)
  <2>1. ASSUME NEW p \in DOMAIN cal, cal[p] \in Window(s, today) PROVE cal[p] \in Window(s, T)
    BY <1>0, <2>1, WindowMoves DEF AsOf
  <2> QED BY <1>5, <2>1 DEF BeginsAt
<1>6. ASSUME NEW s \in Symbol PROVE HeaderOK(s, today)'
  <2>1. HeaderOK(s, today)
    BY <1>5 DEF AsOf, HeaderOK
  <2> QED BY <1>1, <1>2, <2>1 DEF HeaderOK, BeginsAt
<1>7. ASSUME NEW s \in Symbol PROVE PlanOK(s, today)'
  <2>1. worker[s] # "busy"
    BY <1>1 DEF BinInv, Stages
  <2> QED BY <1>1, <2>1 DEF PlanOK
<1> QED BY <1>3, <1>4, <1>6, <1>7 DEF AsOf

LEMMA AsOfNext ==
    ASSUME BinInv, [BinNext]_binVars, \E T \in 0..today : AsOf(T)
    PROVE  \E T \in 0..today' : AsOf(T)'
<1>1. PICK T \in 0..today : AsOf(T)
  OBVIOUS
<1>2. /\ today \in Nat /\ today' \in Nat /\ today <= today' /\ T \in Nat
  <2>1. today \in Nat /\ T \in Nat
    BY <1>1, DaysAre
  <2>2. today' = today \/ today' = today + 1
    BY DEF BinNext, Sync, NextDay, Killed, StartSync, Fetch, PublishCalendar, ReadBins, WriteField,
           WriteEnds, WritesOver, UpdateEndDates, UpdateStartDates, WriteRaises, binVars
  <2> QED BY <2>1, <2>2
<1>3. ASSUME NEW f \in BOOLEAN, NEW probe \in 0..Today, StartSync(f, probe)
      PROVE  \E U \in 0..today' : AsOf(U)'
  <2>1. AsOf(today)' /\ today' = today
    BY <1>1, <1>3, AsOfToday DEF StartSync
  <2>2. today \in 0..today'
    BY <1>2, <2>1
  <2> QED BY <2>1, <2>2 DEF AsOf
<1>4. ASSUME ~ \E f \in BOOLEAN, probe \in 0..Today : StartSync(f, probe)
      PROVE  \E U \in 0..today' : AsOf(U)'
  <2>1. /\ \A p \in DOMAIN cal' : cal'[p] <= T
        /\ \A s \in Symbol : GapFetched(s, T)'
    BY <1>1, <1>4, FetchedNext
  <2>2. \A s \in Symbol : HeaderOK(s, T)' /\ PlanOK(s, T)'
    BY <1>1, <1>2, HeadersNext, PlannedNext
  <2>3. AsOf(T)' /\ T \in 0..today'
    BY <1>1, <1>2, <2>1, <2>2 DEF AsOf
  <2> QED BY <2>3
<1> QED BY <1>3, <1>4

LEMMA WrittenNext == BinInv /\ WrittenInv /\ [BinNext]_binVars => Written'
<1> SUFFICES ASSUME BinInv, WrittenInv, [BinNext]_binVars,
                    NEW s \in Symbol, NEW p \in DOMAIN cal', cal'[p] \in bars'[s]
             PROVE  /\ worker'[s] = "done" => p <= LastClose(s)'
                    /\ phase' \in {"write", "ends", "starts"} => worker'[s] # "off"
  BY DEF Written
<1>0. /\ StateOK /\ LastClose(s) \in Nat /\ Written /\ Stages
      /\ \A q \in DOMAIN cal : q \in Nat /\ q \in Day /\ cal[q] \in Day
  BY DaysAre DEF WrittenInv, BinInv
<1>1. LastClose(s)' \in Nat /\ LastClose(s) <= LastClose(s)'
  BY LastCloseGrows
<1>2. CASE Forget
  BY <1>2 DEF Forget, NoBars
<1>3. ASSUME cal' = cal, bars' = bars, worker'[s] = worker[s],
             phase' \in {"write", "ends", "starts"} => phase \in {"write", "ends", "starts"}
      PROVE  /\ worker'[s] = "done" => p <= LastClose(s)'
             /\ phase' \in {"write", "ends", "starts"} => worker'[s] # "off"
  BY <1>0, <1>1, <1>3 DEF Written
<1>4. ASSUME worker'[s] = worker[s], phase \in {"idle", "fetch"}, phase' \in {"fetch", "calendar"}
      PROVE  /\ worker'[s] = "done" => p <= LastClose(s)'
             /\ phase' \in {"write", "ends", "starts"} => worker'[s] # "off"
  BY <1>0, <1>4 DEF Stages
<1>5. CASE PublishCalendar
  BY <1>5 DEF PublishCalendar
<1>6. CASE ReadBins(s)
  <2>1. p \in BarIndexes(s)
    BY <1>6 DEF ReadBins, BarIndexes, diskVars
  <2> QED BY <1>0, <1>6, <2>1 DEF ReadBins, StateOK
<1>7. CASE WriteEnds(s)
  <2>1. /\ worker[s] = "busy" /\ phase = "write" /\ written[s] = Len(FieldOrder)
        /\ worker'[s] = "done" /\ UNCHANGED <<cal, bars, bin>>
    BY <1>0, <1>7 DEF WriteEnds, StateOK, diskVars
  <2>2. p \in DOMAIN cal /\ cal[p] \in bars[s] /\ p \in Day /\ p \in Nat /\ cal[p] \in Day
    BY <1>0, <2>1
  <2>3. PICK T \in 0..today : AsOf(T)
    BY DEF WrittenInv
  <2>7. cal[p] \in Window(s, T)
    BY <2>2, <2>3 DEF AsOf, GapFetched
  <2>4. CASE p < plan[s].from
    <3>1. p < plan[s].index \/ p <= LastClose(s)
      BY <2>1, <2>2, <2>3, <2>4 DEF AsOf, PlanOK
    <3>2. ~(p < plan[s].index)
      BY <2>1, <2>2, <2>3, <2>7 DEF AsOf, PlanOK, BeginsAt
    <3> QED BY <1>0, <1>1, <2>1, <2>2, <3>1, <3>2
  <2>5. CASE p >= plan[s].from
    <3>1. CloseAt \in DOMAIN FieldOrder /\ FieldOrder[CloseAt] = "close" /\ CloseAt <= written[s]
      BY <2>1, CloseFacts, FieldFacts
    <3>2. bin[s]["close"][p] = cal[p]
      BY <2>1, <2>2, <2>5, <3>1 DEF BinInv, Progress
    <3>3. cal[p] # NaN
      BY <2>2, InRange
    <3>4. p <= LastClose(s)
      BY <1>0, <2>2, <3>2, <3>3, LastCloseOf
    <3> QED BY <1>0, <1>1, <2>1, <2>2, <3>4
  <2>6. plan[s].from \in Nat
    BY InRange
  <2> QED BY <2>2, <2>4, <2>5, <2>6
<1>8. CASE WriteRaises(s)
  BY <1>0, <1>8 DEF WriteRaises, StateOK
<1>9. CASE WriteField(s)
  BY <1>3, <1>9 DEF WriteField
<1>10. ASSUME NEW t \in Symbol, t # s, ReadBins(t) \/ WriteField(t) \/ WriteEnds(t) \/ WriteRaises(t)
       PROVE  /\ worker'[s] = "done" => p <= LastClose(s)'
              /\ phase' \in {"write", "ends", "starts"} => worker'[s] # "off"
  <2>1. UNCHANGED <<cal, bars, phase>>
    BY <1>10 DEF ReadBins, WriteField, WriteEnds, WriteRaises, diskVars
  <2>2. worker'[s] = worker[s]
    BY <1>0, <1>10 DEF ReadBins, WriteField, WriteEnds, WriteRaises, StateOK
  <2> QED BY <1>3, <2>1, <2>2
<1>11. ASSUME NEW t \in Symbol, ReadBins(t) \/ WriteField(t) \/ WriteEnds(t) \/ WriteRaises(t)
       PROVE  /\ worker'[s] = "done" => p <= LastClose(s)'
              /\ phase' \in {"write", "ends", "starts"} => worker'[s] # "off"
  <2>1. CASE t = s
    <3>1. ReadBins(s) \/ WriteField(s) \/ WriteEnds(s) \/ WriteRaises(s)
      BY <1>11, <2>1
    <3> QED BY <1>6, <1>7, <1>8, <1>9, <3>1
  <2> QED BY <1>10, <1>11, <2>1
<1>12. ASSUME NEW f \in BOOLEAN, NEW probe \in 0..Today, StartSync(f, probe)
       PROVE  /\ worker'[s] = "done" => p <= LastClose(s)'
              /\ phase' \in {"write", "ends", "starts"} => worker'[s] # "off"
  BY <1>4, <1>12 DEF StartSync
<1>13. ASSUME NEW ok \in SUBSET Symbol, Fetch(ok)
       PROVE  /\ worker'[s] = "done" => p <= LastClose(s)'
              /\ phase' \in {"write", "ends", "starts"} => worker'[s] # "off"
  BY <1>2, <1>4, <1>13 DEF Fetch
<1>14. CASE WritesOver \/ UpdateEndDates
  BY <1>3, <1>14 DEF WritesOver, UpdateEndDates, diskVars
<1>15. CASE NextDay \/ UNCHANGED binVars
  BY <1>3, <1>15 DEF NextDay, binVars, diskVars, jobVars
<1> QED
  BY <1>2, <1>5, <1>11, <1>12, <1>13, <1>14, <1>15
     DEF BinNext, Sync, Killed, UpdateStartDates

\* For any number of symbols and fields, any window, any trading histories and any number of
\* killed syncs: when a sync reports its writing complete, each bar it has fetched for a day of
\* the calendar is on disk, or the symbol's write worker raised.  _write_one_stock starts at
\* the header or after the last close and passes over the rest; no later fetch brings a bar
\* from before the header.  Bars before the newest MaxBars are not fetched, so it says
\* nothing of them.
THEOREM OnlyLostAreMissing == BinSpec => []OnlyLostMissing
<1>1. BinInv /\ WrittenInv => OnlyLostMissing
  <2> SUFFICES ASSUME BinInv, WrittenInv, phase \in {"ends", "starts"},
                      NEW s \in Symbol, NEW p \in DOMAIN cal, cal[p] \in bars[s], p > LastClose(s)
               PROVE  worker[s] = "lost"
    BY DEF OnlyLostMissing
  <2>1. StateOK /\ p \in Nat /\ LastClose(s) \in Nat
    BY DaysAre
  <2>2. worker[s] # "off" /\ worker[s] # "done"
    BY <2>1 DEF WrittenInv, Written
  <2>3. worker[s] \notin {"todo", "busy"}
    BY DEF BinInv, Stages
  <2> QED BY <2>1, <2>2, <2>3 DEF StateOK
<1>2. BinInv /\ WrittenInv /\ [BinNext]_binVars => WrittenInv'
  BY AsOfNext, WrittenNext DEF WrittenInv
<1> QED BY <1>1, <1>2, WrittenInit, BinInvariant, PTL DEF BinSpec

\* For any window, trading histories and end dates: a sync asks for every bar a symbol has
\* had since its end date, unless there are more than MaxBars of them; the gap of calendar
\* days times 1.5 plus 2 is never the bound that cuts.
THEOREM WindowFillsGap ==
    BinSpec => [](\A s \in Symbol : Cardinality(Since(s, lastDate[s])) <= MaxBars =>
                      Since(s, lastDate[s]) \subseteq Offered(s))
<1>1. BinInv => \A s \in Symbol : Cardinality(Since(s, lastDate[s])) <= MaxBars =>
                    Since(s, lastDate[s]) \subseteq Offered(s)
  BY NoSmallGap
<1> QED BY <1>1, BinInvariant, PTL

-----------------------------------------------------------------------------
(* SyncService: the slot, the status, the refresh of the summary.           *)

\* The two inductive invariants.
SlotInv == SlotHonest /\ FailureShown

\* What is being read is not older than what is published; what has been
\* built is what is published.
CacheInv ==
    /\ OneBuilder
    /\ RefreshNotLost
    /\ asked <= data
    /\ summary <= data
    /\ \A k \in Builder : /\ builder[k] = "reading" => summary <= seen[k] /\ seen[k] <= data
                          /\ builder[k] \in {"replaced", "built"} => summary = seen[k]

-----------------------------------------------------------------------------
(* Type correctness.                                                       *)

LEMMA ServiceTypeInit == SyncInit => SyncTypeOK
<1>1. SyncInit => ServiceFlagsOK
  BY DEF SyncInit, ServiceFlagsOK
<1>2. SyncInit => ServiceOK
  BY SyncAssumption DEF SyncInit, ServiceOK, SyncAssumption
<1> QED BY <1>1, <1>2 DEF SyncTypeOK

LEMMA ServiceFlagsNext == ServiceFlagsOK /\ [SyncNext]_syncVars => ServiceFlagsOK'
<1> SUFFICES ASSUME ServiceFlagsOK, [SyncNext]_syncVars PROVE ServiceFlagsOK'
  OBVIOUS
<1>1. CASE UNCHANGED <<unstarted, late>> /\ up' \in BOOLEAN /\ overrun' \in BOOLEAN
  BY <1>1 DEF ServiceFlagsOK
<1>2. CASE PollStatus \/ Age \/ UNCHANGED syncVars
  BY <1>1, <1>2 DEF PollStatus, ClearStale, Age, syncVars, slotVars, cacheVars, buildVars, ServiceFlagsOK
<1>3. CASE BootEarly
  BY <1>1, <1>3 DEF BootEarly, StartCacheRefresh, slotVars, ServiceFlagsOK
<1>4. ASSUME NEW j \in Job, Finish(j) PROVE ServiceFlagsOK'
  BY <1>4 DEF Finish, StartCacheRefresh, BuilderNotStarted, buildVars, ServiceFlagsOK
<1>5. ASSUME NEW j \in Job,
             BootLate(j) \/ Trigger(j) \/ Schedule(j) \/ Claim(j) \/ StartThread(j)
               \/ StartFails(j) \/ Return(j) \/ Write(j) \/ Raise(j) \/ Free(j)
      PROVE  ServiceFlagsOK'
  BY <1>1, <1>5
     DEF BootLate, Trigger, ClearStale, Schedule, Claim, StartThread, StartFails, Return, Write, Raise,
         Free, cacheVars, buildVars, ServiceFlagsOK
<1>6. ASSUME NEW k \in Builder, BuildStep(k) \/ BuildFails(k) PROVE ServiceFlagsOK'
  BY <1>6
     DEF BuildStep, BuildRead, BuildWrite, BuildStore, BuildDone, BuildFails, slotVars, ServiceFlagsOK
<1>7. ASSUME NEW p \in Page, LoadRead(p) \/ LoadMiss(p) PROVE ServiceFlagsOK'
  BY <1>7
     DEF LoadRead, LoadMiss, StartCacheRefresh, BuilderNotStarted, buildVars, slotVars, ServiceFlagsOK
<1>8. ASSUME NEW p \in Page, LoadLook(p) \/ LoadStore(p) PROVE ServiceFlagsOK'
  <2>1. UNCHANGED <<up, overrun, unstarted>>
    BY <1>8 DEF LoadLook, LoadStore, slotVars
  <2>2. late' \in BOOLEAN
    BY <1>8 DEF LoadLook, LoadStore
  <2> QED BY <2>1, <2>2 DEF ServiceFlagsOK
<1> QED
  BY <1>2, <1>3, <1>4, <1>5, <1>6, <1>7, <1>8 DEF SyncNext, Boot, Ask, JobStep, PageStep

LEMMA RefreshType ==
    ASSUME ServiceOK, StartCacheRefresh \/ BuilderNotStarted
    PROVE  /\ cache' \in {"idle", "running", "again", "failed"}
           /\ builder' \in [Builder -> {"off", "start", "reading", "replaced", "built"}]
           /\ seen' \in [Builder -> 0..MaxData]
           /\ summary' \in 0..MaxData
           /\ memory' \in 0..MaxData
           /\ asked' \in 0..MaxData
BY SyncAssumption DEF ServiceOK, StartCacheRefresh, StartBuilder, BuilderNotStarted, SyncAssumption

LEMMA ServiceNext == ServiceOK /\ [SyncNext]_syncVars => ServiceOK'
<1> SUFFICES ASSUME ServiceOK, [SyncNext]_syncVars PROVE ServiceOK'
  OBVIOUS
<1> USE SyncAssumption DEF SyncAssumption
<1>1. CASE BootEarly
  BY <1>1, RefreshType DEF BootEarly, ServiceOK, slotVars, pageVars
<1>2. ASSUME NEW j \in Job, BootLate(j) \/ Claim(j) \/ Schedule(j) PROVE ServiceOK'
  BY <1>2 DEF BootLate, Claim, Schedule, TryBegin, Goto, ServiceOK, cacheVars, buildVars, pageVars
<1>3. CASE PollStatus
  BY <1>3 DEF PollStatus, ClearStale, ServiceOK, cacheVars, buildVars, pageVars
<1>4. ASSUME NEW j \in Job, Trigger(j) PROVE ServiceOK'
  BY <1>4 DEF Trigger, ClearStale, Goto, ServiceOK, cacheVars, buildVars, pageVars
<1>5. CASE Age
  BY <1>5 DEF Age, ServiceOK, cacheVars, buildVars, pageVars
<1>6. ASSUME NEW j \in Job,
             StartThread(j) \/ StartFails(j) \/ Return(j) \/ Write(j) \/ Raise(j) \/ Free(j)
      PROVE  ServiceOK'
  BY <1>6 DEF StartThread, StartFails, Return, Write, Raise, Free, Goto, ServiceOK, cacheVars, buildVars, pageVars
<1>7. ASSUME NEW j \in Job, Finish(j) PROVE ServiceOK'
  <2>1. CASE StartCacheRefresh \/ BuilderNotStarted
    BY <1>7, <2>1, RefreshType DEF Finish, Goto, ServiceOK, pageVars
  <2>2. CASE UNCHANGED buildVars
    BY <1>7, <2>2 DEF Finish, Goto, ServiceOK, buildVars, pageVars
  <2> QED
    BY <1>7, <2>1, <2>2 DEF Finish
<1>8. ASSUME NEW k \in Builder, BuildRead(k) \/ BuildWrite(k) \/ BuildStore(k) PROVE ServiceOK'
  BY <1>8 DEF BuildRead, BuildWrite, BuildStore, ServiceOK, slotVars, pageVars
<1>9. ASSUME NEW k \in Builder, BuildDone(k) \/ BuildFails(k) PROVE ServiceOK'
  BY <1>9 DEF BuildDone, BuildFails, ServiceOK, slotVars, pageVars
<1>10. CASE UNCHANGED syncVars
  BY <1>10 DEF syncVars, slotVars, cacheVars, buildVars, pageVars, ServiceOK
<1>11. ASSUME NEW p \in Page, LoadLook(p) \/ LoadRead(p) \/ LoadStore(p) PROVE ServiceOK'
  BY <1>11 DEF LoadLook, LoadRead, LoadStore, Turn, ServiceOK, slotVars, buildVars
<1>12. ASSUME NEW p \in Page, LoadMiss(p) PROVE ServiceOK'
  BY <1>12, RefreshType DEF LoadMiss, Turn, ServiceOK, slotVars
<1> QED
  BY <1>1, <1>2, <1>3, <1>4, <1>5, <1>6, <1>7, <1>8, <1>9, <1>10, <1>11, <1>12
     DEF SyncNext, Boot, Ask, JobStep, BuildStep, PageStep

LEMMA ServiceTypeNext == SyncTypeOK /\ [SyncNext]_syncVars => SyncTypeOK'
BY ServiceFlagsNext, ServiceNext DEF SyncTypeOK

\* Every reachable state is well-typed.
THEOREM SyncTypeCorrect == SyncSpec => []SyncTypeOK
BY ServiceTypeInit, ServiceTypeNext, PTL DEF SyncSpec

-----------------------------------------------------------------------------
(* The slot.                                                               *)

LEMMA SlotInit == SyncInit => SlotInv
BY DEF SyncInit, SlotInv, SlotHonest, OneSync, FailureShown, Active

\* A claim that is refused changes no job's standing; one that succeeds
\* finds no job active.
LEMMA SlotClaim ==
    ASSUME SyncTypeOK, SlotInv, UNCHANGED overrun,
           NEW j \in Job, ~Active(j),
           NEW claimed \in {"starting", "work"},
           TryBegin(j, claimed, "idle")
    PROVE  SlotInv'
<1>1. CASE overrun
  BY <1>1 DEF SlotInv, SlotHonest, FailureShown
<1>2. CASE ~overrun /\ slot # "free"
  BY <1>2 DEF TryBegin, Goto, SlotInv, SlotHonest, FailureShown, OneSync, Active, SyncTypeOK, ServiceOK
<1>3. CASE ~overrun /\ slot = "free"
  <2>1. \A i \in Job : ~Active(i)
    BY <1>3 DEF SlotInv, SlotHonest
  <2>2. slot' # "free" /\ \A i \in Job : Active(i)' <=> i = j
    BY <1>3, <2>1 DEF TryBegin, Goto, Active, SyncTypeOK, ServiceOK
  <2>3. \A i \in Job : job'[i] # "failing"
    BY <1>3, <2>1 DEF TryBegin, Goto, Active, SyncTypeOK, ServiceOK
  <2> QED BY <2>2, <2>3 DEF SlotInv, SlotHonest, FailureShown, OneSync
<1> QED BY <1>1, <1>2, <1>3

\* A job that stays active keeps the slot.
LEMMA SlotKept ==
    ASSUME SyncTypeOK, SlotInv, UNCHANGED <<slot, overrun>>,
           NEW j \in Job, Active(j),
           NEW p \in {"work", "written", "finally", "failing"}, Goto(j, p),
           lastError' = lastError \/ lastError' = "failed",
           p = "failing" => lastError' = "failed"
    PROVE  SlotInv'
<1>1. \A i \in Job : Active(i)' <=> Active(i)
  BY DEF Goto, Active, SyncTypeOK, ServiceOK
<1>2. SlotHonest'
  BY <1>1 DEF SlotInv, SlotHonest, OneSync
<1>3. FailureShown'
  BY DEF SlotInv, FailureShown, Goto, SyncTypeOK, ServiceOK
<1> QED BY <1>2, <1>3 DEF SlotInv

\* The job that gives the slot back was the only one.
LEMMA SlotGivenBack ==
    ASSUME SyncTypeOK, SlotInv, UNCHANGED overrun,
           NEW j \in Job, Active(j), Goto(j, "idle"),
           slot' = "free"
    PROVE  SlotInv'
<1>1. CASE overrun
  BY <1>1 DEF SlotInv, SlotHonest, FailureShown
<1>2. CASE ~overrun
  <2>1. \A i \in Job : Active(i) => i = j
    BY <1>2 DEF SlotInv, SlotHonest, OneSync
  <2>2. \A i \in Job : ~Active(i)' /\ job'[i] # "failing"
    BY <2>1 DEF Goto, Active, SyncTypeOK, ServiceOK
  <2> QED BY <2>2 DEF SlotInv, SlotHonest, OneSync, FailureShown
<1> QED BY <1>1, <1>2

\* get_sync_status either changes nothing or marks the overrun.
LEMMA SlotPolled ==
    ASSUME SyncTypeOK, SlotInv, ClearStale,
           \A i \in Job : (Active(i)' <=> Active(i)) /\ (job'[i] = "failing" => job[i] = "failing")
    PROVE  SlotInv'
BY DEF ClearStale, SlotInv, SlotHonest, FailureShown, OneSync

LEMMA SlotNext == SyncTypeOK /\ SlotInv /\ [SyncNext]_syncVars => SlotInv'
<1> SUFFICES ASSUME SyncTypeOK, SlotInv, [SyncNext]_syncVars PROVE SlotInv'
  OBVIOUS
<1>1. ASSUME UNCHANGED slotVars PROVE SlotInv'
  BY <1>1 DEF slotVars, SlotInv, SlotHonest, FailureShown, OneSync, Active
<1>2. ASSUME NEW j \in Job, Schedule(j) \/ Claim(j) \/ BootLate(j) PROVE SlotInv'
  BY <1>2, SlotClaim DEF Schedule, Claim, BootLate, Active
<1>3. CASE PollStatus
  BY <1>3, SlotPolled DEF PollStatus, Active
<1>4. ASSUME NEW j \in Job, Trigger(j) PROVE SlotInv'
  <2>1. \A i \in Job : (Active(i)' <=> Active(i)) /\ (job'[i] = "failing" => job[i] = "failing")
    BY <1>4 DEF Trigger, Goto, Active, SyncTypeOK, ServiceOK
  <2> QED BY <1>4, <2>1, SlotPolled DEF Trigger
<1>5. CASE Age
  BY <1>5 DEF Age, SlotInv, SlotHonest, FailureShown, OneSync, Active, SyncTypeOK, ServiceOK
<1>6. ASSUME NEW j \in Job, StartThread(j) \/ Return(j) \/ Write(j) \/ Finish(j) \/ Raise(j)
      PROVE  SlotInv'
  BY <1>6, SlotKept DEF StartThread, Return, Write, Finish, Raise, Active
<1>7. ASSUME NEW j \in Job, StartFails(j) \/ Free(j) PROVE SlotInv'
  BY <1>7, SlotGivenBack DEF StartFails, Free, Active
<1>8. CASE BootEarly \/ UNCHANGED syncVars
  BY <1>8, <1>1 DEF BootEarly, syncVars
<1>9. ASSUME NEW k \in Builder, BuildStep(k) \/ BuildFails(k) PROVE SlotInv'
  BY <1>9, <1>1 DEF BuildStep, BuildRead, BuildWrite, BuildStore, BuildDone, BuildFails
<1>10. ASSUME NEW p \in Page, PageStep(p) PROVE SlotInv'
  BY <1>10, <1>1 DEF PageStep, LoadLook, LoadRead, LoadStore, LoadMiss
<1> QED
  BY <1>2, <1>3, <1>4, <1>5, <1>6, <1>7, <1>8, <1>9, <1>10 DEF SyncNext, Boot, Ask, JobStep

\* Unless a living job has been taken for a stuck one, "running" is shown
\* exactly while there is a job, and there is one job.
THEOREM SlotIsHonest == SyncSpec => []SlotHonest
<1>1. SlotInv => SlotHonest
  BY DEF SlotInv
<1> QED BY <1>1, SyncTypeCorrect, SlotInit, SlotNext, PTL DEF SyncSpec

\* Under the same proviso the error of a failed job outlives the job.
THEOREM FailuresAreShown == SyncSpec => []FailureShown
<1>1. SlotInv => FailureShown
  BY DEF SlotInv
<1> QED BY <1>1, SyncTypeCorrect, SlotInit, SlotNext, PTL DEF SyncSpec

-----------------------------------------------------------------------------
(* The summary.                                                            *)

LEMMA CacheInit == SyncInit => CacheInv
BY SyncAssumption
   DEF SyncInit, CacheInv, Refreshing, OneBuilder, RefreshNotLost, SyncAssumption

LEMMA CacheAsked ==
    ASSUME SyncTypeOK, CacheInv, StartCacheRefresh, UNCHANGED data
    PROVE  CacheInv'
<1> USE SyncAssumption DEF SyncAssumption
<1>1. CASE Refreshing /\ cache' = "again" /\ UNCHANGED builder
  BY <1>1
     DEF StartCacheRefresh, CacheInv, Refreshing, OneBuilder, RefreshNotLost, SyncTypeOK, ServiceOK
<1>2. CASE StartBuilder
  <2>1. PICK k \in Builder : builder' = [builder EXCEPT ![k] = "start"]
    BY <1>2 DEF StartBuilder
  <2>2. \A l \in Builder : builder[l] = "off"
    BY <1>2 DEF StartBuilder, CacheInv, Refreshing, OneBuilder
  <2>3. cache' = "running" /\ UNCHANGED <<seen, summary, unstarted>> /\ asked' = data /\ ~unstarted
    BY <1>2 DEF StartBuilder, StartCacheRefresh, CacheInv, OneBuilder
  <2>4. OneBuilder'
    BY <2>1, <2>2, <2>3 DEF OneBuilder, Refreshing, SyncTypeOK, ServiceOK
  <2>5. RefreshNotLost'
    BY <2>1 DEF RefreshNotLost, SyncTypeOK, ServiceOK
  <2> QED
    BY <2>1, <2>2, <2>3, <2>4, <2>5 DEF CacheInv, SyncTypeOK, ServiceOK
<1> QED BY <1>1, <1>2 DEF StartCacheRefresh

\* Nobody is at work when a thread does not start, nor ever after.
LEMMA CacheNotStarted ==
    ASSUME SyncTypeOK, CacheInv, BuilderNotStarted, UNCHANGED data
    PROVE  CacheInv'
<1> USE SyncAssumption DEF SyncAssumption
<1>1. \A k \in Builder : builder[k] = "off"
  BY DEF BuilderNotStarted, CacheInv, OneBuilder
<1>2. OneBuilder' /\ RefreshNotLost'
  BY <1>1 DEF BuilderNotStarted, OneBuilder, Refreshing, RefreshNotLost
<1> QED
  BY <1>1, <1>2 DEF BuilderNotStarted, CacheInv, SyncTypeOK, ServiceOK

LEMMA CacheNext == SyncTypeOK /\ CacheInv /\ [SyncNext]_syncVars => CacheInv'
<1> SUFFICES ASSUME SyncTypeOK, CacheInv, [SyncNext]_syncVars PROVE CacheInv'
  OBVIOUS
<1> USE SyncAssumption DEF SyncAssumption
<1>1. ASSUME UNCHANGED <<cache, builder, seen, summary, asked, unstarted>>, data' \in {data, data + 1} PROVE CacheInv'
  BY <1>1 DEF cacheVars, buildVars, CacheInv, Refreshing, OneBuilder, RefreshNotLost, SyncTypeOK, ServiceOK
<1>2. CASE BootEarly
  BY <1>2, CacheAsked DEF BootEarly
<1>3. ASSUME NEW j \in Job, Finish(j) PROVE CacheInv'
  <2>1. CASE StartCacheRefresh
    BY <1>3, <2>1, CacheAsked DEF Finish
  <2>2. CASE UNCHANGED buildVars
    BY <1>1, <1>3, <2>2 DEF Finish, buildVars
  <2>3. CASE BuilderNotStarted
    BY <1>3, <2>3, CacheNotStarted DEF Finish
  <2> QED
    BY <1>3, <2>1, <2>2, <2>3 DEF Finish
<1>4. ASSUME NEW j \in Job,
             BootLate(j) \/ Trigger(j) \/ Schedule(j) \/ Claim(j) \/ StartThread(j)
               \/ StartFails(j) \/ Return(j) \/ Write(j) \/ Raise(j) \/ Free(j)
      PROVE  CacheInv'
  BY <1>4, <1>1
     DEF BootLate, Trigger, Schedule, Claim, StartThread, StartFails, Return, Write, Raise, Free,
         cacheVars, buildVars
<1>5. CASE PollStatus \/ Age \/ UNCHANGED syncVars
  BY <1>5, <1>1 DEF PollStatus, Age, syncVars, cacheVars, buildVars
<1>6. ASSUME NEW k \in Builder, BuildRead(k) PROVE CacheInv'
  <2>1. UNCHANGED <<data, cache, summary, asked, unstarted>>
    BY <1>6 DEF BuildRead
  <2>2. builder[k] = "start" /\ builder'[k] = "reading" /\ seen'[k] = data
    BY <1>6 DEF BuildRead, SyncTypeOK, ServiceOK
  <2>3. \A l \in Builder \ {k} : builder'[l] = builder[l] /\ seen'[l] = seen[l]
    BY <1>6 DEF BuildRead, SyncTypeOK, ServiceOK
  <2> QED
    BY <2>1, <2>2, <2>3 DEF CacheInv, Refreshing, OneBuilder, RefreshNotLost, SyncTypeOK, ServiceOK
<1>7. ASSUME NEW k \in Builder, BuildWrite(k) PROVE CacheInv'
  <2>1. UNCHANGED <<data, cache, seen, asked, unstarted>> /\ summary' = seen[k]
    BY <1>7 DEF BuildWrite
  <2>2. builder[k] = "reading" /\ builder'[k] = "replaced"
    BY <1>7 DEF BuildWrite, SyncTypeOK, ServiceOK
  <2>3. \A l \in Builder \ {k} : builder'[l] = "off" /\ builder[l] = "off"
    BY <1>7, <2>2 DEF BuildWrite, CacheInv, Refreshing, OneBuilder, SyncTypeOK, ServiceOK
  <2> QED
    BY <2>1, <2>2, <2>3 DEF CacheInv, Refreshing, OneBuilder, RefreshNotLost, SyncTypeOK, ServiceOK
<1>8. ASSUME NEW k \in Builder, BuildDone(k) PROVE CacheInv'
  <2>1. UNCHANGED <<data, summary, asked, unstarted>>
    BY <1>8 DEF BuildDone
  <2>2. /\ builder[k] = "built"
        /\ builder'[k] = IF cache = "again" THEN "start" ELSE "off"
        /\ cache' = IF cache = "again" THEN "running" ELSE "idle"
    BY <1>8 DEF BuildDone, SyncTypeOK, ServiceOK
  <2>3. \A l \in Builder \ {k} : builder'[l] = "off" /\ builder[l] = "off"
    BY <1>8, <2>2 DEF BuildDone, CacheInv, Refreshing, OneBuilder, SyncTypeOK, ServiceOK
  <2> QED
    BY <2>1, <2>2, <2>3 DEF CacheInv, Refreshing, OneBuilder, RefreshNotLost, SyncTypeOK, ServiceOK
<1>9. ASSUME NEW k \in Builder, BuildFails(k) PROVE CacheInv'
  <2>1. UNCHANGED <<data, summary, asked, unstarted>> /\ cache' = "failed"
    BY <1>9 DEF BuildFails
  <2>2. \A l \in Builder : builder'[l] = "off"
    BY <1>9 DEF BuildFails, CacheInv, Refreshing, OneBuilder, SyncTypeOK, ServiceOK
  <2>3. ~unstarted
    BY <1>9 DEF BuildFails, CacheInv, OneBuilder
  <2> QED
    BY <2>1, <2>2, <2>3 DEF CacheInv, Refreshing, OneBuilder, RefreshNotLost, SyncTypeOK, ServiceOK
<1>10. ASSUME NEW k \in Builder, BuildStore(k) PROVE CacheInv'
  <2>1. UNCHANGED <<data, cache, seen, summary, asked, unstarted>>
    BY <1>10 DEF BuildStore
  <2>2. builder[k] = "replaced" /\ builder'[k] = "built"
    BY <1>10 DEF BuildStore, SyncTypeOK, ServiceOK
  <2>3. \A l \in Builder \ {k} : builder'[l] = builder[l]
    BY <1>10 DEF BuildStore, SyncTypeOK, ServiceOK
  <2> QED
    BY <2>1, <2>2, <2>3 DEF CacheInv, Refreshing, OneBuilder, RefreshNotLost, SyncTypeOK, ServiceOK
<1>11. ASSUME NEW p \in Page, LoadLook(p) \/ LoadRead(p) \/ LoadStore(p) PROVE CacheInv'
  BY <1>11, <1>1 DEF LoadLook, LoadRead, LoadStore, buildVars
<1>12. ASSUME NEW p \in Page, LoadMiss(p) PROVE CacheInv'
  BY <1>12, CacheAsked, CacheNotStarted DEF LoadMiss
<1> QED
  BY <1>2, <1>3, <1>4, <1>5, <1>6, <1>7, <1>8, <1>9, <1>10, <1>11, <1>12
     DEF SyncNext, Boot, Ask, JobStep, BuildStep, PageStep

\* There is at most one refresh worker, and one exactly while the status
\* says "running"; after a thread that did not start there is none, and the
\* status says "running" for ever.
THEOREM OneBuilderAtATime == SyncSpec => []OneBuilder
<1>1. CacheInv => OneBuilder
  BY DEF CacheInv
<1> QED BY <1>1, SyncTypeCorrect, CacheInit, CacheNext, PTL DEF SyncSpec

\* Only a refresh thread that did not start loses a request for a refresh.
THEOREM NoRefreshIsLost == SyncSpec => []RefreshNotLost
<1>1. CacheInv => RefreshNotLost
  BY DEF CacheInv
<1> QED BY <1>1, SyncTypeCorrect, CacheInit, CacheNext, PTL DEF SyncSpec

\* The file only ever gets newer, and the copy in memory is set to what the
\* file holds, or by a page that read the file before it was replaced.
THEOREM SummaryGetsNewer == SyncSpec => SummaryNeverOlder
<1> DEFINE Newer == /\ summary' >= summary
                    /\ memory' \in {memory, 0, summary'} \/ late'
<1>1. SyncTypeOK /\ CacheInv /\ [SyncNext]_syncVars => [Newer]_<<summary, memory>>
  <2> SUFFICES ASSUME SyncTypeOK, CacheInv, [SyncNext]_syncVars PROVE [Newer]_<<summary, memory>>
    OBVIOUS
  <2>1. CASE UNCHANGED <<summary, memory>>
    BY <2>1
  <2>2. ASSUME NEW k \in Builder, BuildWrite(k) PROVE Newer
    BY <2>2 DEF BuildWrite, CacheInv, SyncTypeOK, ServiceOK
  <2>3. ASSUME NEW k \in Builder, BuildStore(k) PROVE Newer
    BY <2>3 DEF BuildStore, CacheInv, SyncTypeOK, ServiceOK
  <2>4. ASSUME NEW p \in Page, LoadLook(p) PROVE Newer
    BY <2>4 DEF LoadLook, SyncTypeOK, ServiceOK
  <2>5. ASSUME NEW p \in Page, LoadStore(p) PROVE Newer
    <3>1. summary' = summary /\ memory' = got[p] /\ summary \in Nat
      BY <2>5 DEF LoadStore, SyncTypeOK, ServiceOK
    <3>2. got[p] # summary => late'
      BY <2>5 DEF LoadStore
    <3> QED BY <3>1, <3>2
  <2>6. ASSUME NEW p \in Page, LoadRead(p) \/ LoadMiss(p) PROVE UNCHANGED <<summary, memory>>
    BY <2>6 DEF LoadRead, LoadMiss, StartCacheRefresh, BuilderNotStarted, buildVars
  <2>7. ASSUME NEW k \in Builder, BuildRead(k) \/ BuildDone(k) \/ BuildFails(k)
        PROVE  UNCHANGED <<summary, memory>>
    BY <2>7 DEF BuildRead, BuildDone, BuildFails
  <2>8. ASSUME Boot \/ Ask \/ Age \/ UNCHANGED syncVars \/ \E j \in Job : JobStep(j)
        PROVE  UNCHANGED <<summary, memory>>
    BY <2>8
       DEF Boot, BootEarly, BootLate, Ask, PollStatus, Trigger, Schedule, Age, JobStep, Claim,
           StartThread, StartFails, Return, Write, Finish, Raise, Free, StartCacheRefresh,
           BuilderNotStarted, syncVars, cacheVars, buildVars
  <2> HIDE DEF Newer
  <2> QED
    BY <2>1, <2>2, <2>3, <2>4, <2>5, <2>6, <2>7, <2>8 DEF SyncNext, BuildStep, PageStep
<1> QED
  BY <1>1, SyncTypeCorrect, CacheInit, CacheNext, PTL DEF SyncSpec, SummaryNeverOlder

===============================================================================
