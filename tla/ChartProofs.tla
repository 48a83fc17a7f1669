----------------------------- MODULE ChartProofs -----------------------------
(***************************************************************************)
(* What the chart reads of a day it reads for good, every trade that passes *)
(* the gates is drawn the right way round, and no two readings of one day   *)
(* contradict each other, for every series of bars a market may print.      *)
(***************************************************************************)
EXTENDS Chart, DataProofs, SequenceTheorems

(* Greatest and least of what a function is over a finite set. *)

\* A function to the integers has a greatest value over a finite set.
LEMMA GreatestExists ==
  ASSUME NEW D, IsFiniteSet(D), D # {}, NEW f, \A i \in D : f[i] \in Int
  PROVE  \E i \in D : \A j \in D : f[j] <= f[i]
<1> DEFINE Bad == {S \in SUBSET D : S # {} /\ ~\E i \in S : \A j \in S : f[j] <= f[i]}
           Sizes == {Cardinality(S) : S \in Bad}
<1>1. \A S \in SUBSET D : Cardinality(S) \in Nat /\ \A x \in S : Cardinality(S \ {x}) = Cardinality(S) - 1
  BY OneLess
<1>2. ASSUME Bad # {} PROVE FALSE
  <2>1. Sizes \in SUBSET Nat /\ Sizes # {}
    BY <1>1, <1>2
  <2>2. PICK n \in Sizes : \A m \in Sizes : n <= m
    <3> HIDE DEF Sizes
    <3>. QED
      BY <2>1, LeastExists
  <2>3. PICK S \in Bad : \A T \in Bad : Cardinality(S) <= Cardinality(T)
    BY <2>2
  <2>4. PICK x \in S : TRUE
    BY <2>3
  <2>5. Cardinality(S \ {x}) = Cardinality(S) - 1 /\ Cardinality(S) \in Nat
    BY <1>1, <2>3, <2>4
  <2>6. S \ {x} \in SUBSET D
    BY <2>3
  <2>7. S \ {x} \notin Bad
    <3> HIDE DEF Bad
    <3>. QED
      BY <2>3, <2>5
  <2>8. CASE S \ {x} = {}
    BY <2>3, <2>4, <2>8
  <2>9. CASE S \ {x} # {}
    <3>1. PICK i \in S \ {x} : \A j \in S \ {x} : f[j] <= f[i]
      BY <2>6, <2>7, <2>9
    <3>2. \A j \in S : f[j] \in Int
      BY <2>3
    <3>3. CASE f[x] <= f[i]
      BY <2>3, <3>1, <3>3
    <3>4. CASE f[i] <= f[x]
      <4>1. \A j \in S : f[j] <= f[x]
        BY <2>4, <3>1, <3>2, <3>4
      <4>. QED
        BY <2>3, <2>4, <4>1
    <3>. QED
      BY <2>4, <3>1, <3>2, <3>3, <3>4
  <2>. QED
    BY <2>8, <2>9
<1>. QED
  BY <1>2

\* So Max and Min of its values are values, and bound them all.
LEMMA MaxOfValues ==
  ASSUME NEW D, IsFiniteSet(D), D # {}, NEW f, \A i \in D : f[i] \in Int,
         NEW S, \A x \in S : \E i \in D : x = f[i], \A i \in D : f[i] \in S
  PROVE  /\ Max(S) \in S /\ Max(S) \in Int /\ \A x \in S : x \in Int /\ x <= Max(S)
         /\ Min(S) \in S /\ Min(S) \in Int /\ \A x \in S : Min(S) <= x
<1>1. PICK i \in D : \A j \in D : f[j] <= f[i]
  BY GreatestExists
<1>2. \E x \in S : \A y \in S : x >= y
  <2>1. f[i] \in S /\ \A y \in S : f[i] >= y
    BY <1>1
  <2>. QED
    BY <2>1
<1>3. Max(S) \in S /\ \A y \in S : Max(S) >= y
  BY <1>2 DEF Max
<1> DEFINE g == [j \in D |-> -f[j]]
<1>4. PICK k \in D : \A j \in D : g[j] <= g[k]
  <2>1. \A j \in D : g[j] \in Int
    OBVIOUS
  <2> HIDE DEF g
  <2>. QED
    BY <2>1, GreatestExists
<1>5. \E x \in S : \A y \in S : x <= y
  <2>1. f[k] \in S /\ \A y \in S : f[k] <= y
    BY <1>4
  <2>. QED
    BY <2>1
<1>6. Min(S) \in S /\ \A y \in S : Min(S) <= y
  BY <1>5 DEF Min
<1>7. \A x \in S : x \in Int
  OBVIOUS
<1>. QED
  BY <1>3, <1>6, <1>7

\* The lesser of two, when one is known to be the lesser.
LEMMA MinOfTwo ==
  ASSUME NEW x \in Nat, NEW y \in Nat, x <= y
  PROVE  Min({x, y}) = x
<1>1. x \in {x, y} /\ \A z \in {x, y} : x <= z
  OBVIOUS
<1>2. Min({x, y}) \in {x, y} /\ \A z \in {x, y} : Min({x, y}) <= z
  BY <1>1 DEF Min
<1>. QED
  BY <1>1, <1>2

\* A set of numbers with a bound has a greatest member.
LEMMA GreatestBelow ==
  ASSUME NEW S \in SUBSET Nat, S # {}, NEW b \in Nat, \A x \in S : x <= b
  PROVE  \E m \in S : \A x \in S : x <= m
<1> DEFINE T == {b - x : x \in S}
<1>1. T \in SUBSET Nat /\ T # {}
  <2>1. \A x \in S : x \in Nat /\ b - x \in Nat
    OBVIOUS
  <2>. QED
    BY <2>1
<1>2. PICK t \in T : \A y \in T : t <= y
  <2> HIDE DEF T
  <2>. QED
    BY <1>1, LeastExists
<1>3. PICK m \in S : t = b - m
  OBVIOUS
<1>4. ASSUME NEW x \in S PROVE x <= m
  <2>1. t <= b - x
    BY <1>2
  <2>. QED
    BY <1>3, <2>1
<1>. QED
  BY <1>4

-----------------------------------------------------------------------------
(* No reader looks ahead.  Two series that have their first n bars in       *)
(* common give the same reading as of n, whatever comes after.              *)

Agree(b, c, n) ==
  /\ Len(b) \in Nat /\ Len(c) \in Nat
  /\ n \in Nat /\ n <= Len(b) /\ n <= Len(c)
  /\ \A i \in 1..n : b[i] = c[i]

Swings(b) == SwingHighs(b) \cup SwingLows(b)

\* A swing is at a bar of the series and known Width bars later.
LEMMA SwingShape ==
  ASSUME NEW b, Len(b) \in Nat, NEW s \in Swings(b)
  PROVE  /\ s.at \in Inner(b) /\ s.at \in 1..Len(b)
         /\ s.confirmed = s.at + Width /\ s.confirmed \in Nat /\ s.at < s.confirmed
         /\ s.confirmed <= Len(b)
         /\ s \in SwingHighs(b) => s.price = b[s.at].high
         /\ s \in SwingLows(b) => s.price = b[s.at].low
<1>1. Width \in Nat \ {0}
  BY StructureAssumption
<1>2. \A i \in Inner(b) : i \in 1..Len(b) /\ i + Width <= Len(b)
  BY <1>1 DEF Inner
<1> DEFINE Shape(x) == /\ x.at \in Inner(b) /\ x.at \in 1..Len(b)
                       /\ x.confirmed = x.at + Width /\ x.confirmed \in Nat /\ x.at < x.confirmed
                       /\ x.confirmed <= Len(b)
<1>3. ASSUME s \in SwingHighs(b) PROVE Shape(s) /\ s.price = b[s.at].high
  <2>1. PICK i \in Inner(b) : s = [at |-> i, price |-> b[i].high, confirmed |-> i + Width]
    BY <1>3 DEF SwingHighs
  <2>2. s.at = i /\ s.confirmed = i + Width /\ s.price = b[s.at].high
    BY <2>1
  <2>3. i \in Nat /\ i + Width \in Nat /\ i < i + Width
    BY <1>1, <1>2
  <2>. QED
    BY <1>2, <2>2, <2>3
<1>4. ASSUME s \in SwingLows(b) PROVE Shape(s) /\ s.price = b[s.at].low
  <2>1. PICK i \in Inner(b) : s = [at |-> i, price |-> b[i].low, confirmed |-> i + Width]
    BY <1>4 DEF SwingLows
  <2>2. s.at = i /\ s.confirmed = i + Width /\ s.price = b[s.at].low
    BY <2>1
  <2>3. i \in Nat /\ i + Width \in Nat /\ i < i + Width
    BY <1>1, <1>2
  <2>. QED
    BY <1>2, <2>2, <2>3
<1>. QED
  BY <1>3, <1>4 DEF Swings

\* The newest of some swings is one of them, and none is later.
LEMMA NewestIsOne ==
  ASSUME NEW b, Len(b) \in Nat, NEW found, found \subseteq Swings(b), found # {}
  PROVE  Newest(found) \in found /\ \A t \in found : t.at <= Newest(found).at
<1> DEFINE Ats == {s.at : s \in found}
<1>1. Ats \in SUBSET Nat /\ Ats # {} /\ \A x \in Ats : x <= Len(b)
  <2>1. \A s \in found : s.at \in Nat /\ s.at <= Len(b)
    BY SwingShape
  <2>. QED
    BY <2>1
<1>2. PICK m \in Ats : \A x \in Ats : x <= m
  <2> HIDE DEF Ats
  <2>. QED
    BY <1>1, GreatestBelow
<1>3. \E s \in found : \A t \in found : t.at <= s.at
  BY <1>2
<1>. QED
  BY <1>3 DEF Newest

\* The swings known by a day are the same in both series.
LEMMA AgreeSwings ==
  ASSUME NEW b, NEW c, NEW n, Agree(b, c, n), NEW m \in Int, m <= n
  PROVE  /\ ConfirmedBy(SwingHighs(b), m) = ConfirmedBy(SwingHighs(c), m)
         /\ ConfirmedBy(SwingLows(b), m) = ConfirmedBy(SwingLows(c), m)
<1>1. Width \in Nat \ {0}
  BY StructureAssumption
<1>2. Len(b) \in Nat /\ Len(c) \in Nat /\ n \in Nat /\ n <= Len(b) /\ n <= Len(c)
      /\ \A i \in 1..n : b[i] = c[i]
  BY DEF Agree
<1>3. ASSUME NEW x, NEW y, Len(x) \in Nat, Len(y) \in Nat, n <= Len(x), n <= Len(y),
             \A i \in 1..n : x[i] = y[i]
      PROVE  /\ ConfirmedBy(SwingHighs(x), m) \subseteq ConfirmedBy(SwingHighs(y), m)
             /\ ConfirmedBy(SwingLows(x), m) \subseteq ConfirmedBy(SwingLows(y), m)
  <2>1. ASSUME NEW i \in Inner(x), i + Width <= m
        PROVE  i \in Inner(y) /\ i \in 1..n /\ Window(i) \subseteq 1..n
    BY <1>1, <1>2, <1>3, <2>1 DEF Inner, Window
  <2>2. ASSUME NEW s \in ConfirmedBy(SwingHighs(x), m) PROVE s \in SwingHighs(y)
    <3>1. PICK i \in Inner(x) : /\ \A j \in Window(i) : x[i].high > x[j].high
                                /\ s = [at |-> i, price |-> x[i].high, confirmed |-> i + Width]
      BY <2>2 DEF ConfirmedBy, SwingHighs
    <3>2. i + Width <= m
      BY <2>2, <3>1 DEF ConfirmedBy
    <3>3. i \in Inner(y) /\ i \in 1..n /\ Window(i) \subseteq 1..n
      BY <2>1, <3>2
    <3>4. \A j \in Window(i) : y[i].high > y[j].high
      BY <1>3, <3>1, <3>3
    <3>5. s = [at |-> i, price |-> y[i].high, confirmed |-> i + Width]
      BY <1>3, <3>1, <3>3
    <3>. QED
      BY <3>3, <3>4, <3>5 DEF SwingHighs
  <2>3. ASSUME NEW s \in ConfirmedBy(SwingLows(x), m) PROVE s \in SwingLows(y)
    <3>1. PICK i \in Inner(x) : /\ \A j \in Window(i) : x[i].low < x[j].low
                                /\ s = [at |-> i, price |-> x[i].low, confirmed |-> i + Width]
      BY <2>3 DEF ConfirmedBy, SwingLows
    <3>2. i + Width <= m
      BY <2>3, <3>1 DEF ConfirmedBy
    <3>3. i \in Inner(y) /\ i \in 1..n /\ Window(i) \subseteq 1..n
      BY <2>1, <3>2
    <3>4. \A j \in Window(i) : y[i].low < y[j].low
      BY <1>3, <3>1, <3>3
    <3>5. s = [at |-> i, price |-> y[i].low, confirmed |-> i + Width]
      BY <1>3, <3>1, <3>3
    <3>. QED
      BY <3>3, <3>4, <3>5 DEF SwingLows
  <2>. QED
    BY <2>2, <2>3 DEF ConfirmedBy
<1>4. /\ ConfirmedBy(SwingHighs(b), m) \subseteq ConfirmedBy(SwingHighs(c), m)
      /\ ConfirmedBy(SwingLows(b), m) \subseteq ConfirmedBy(SwingLows(c), m)
  BY <1>2, <1>3
<1>5. /\ ConfirmedBy(SwingHighs(c), m) \subseteq ConfirmedBy(SwingHighs(b), m)
      /\ ConfirmedBy(SwingLows(c), m) \subseteq ConfirmedBy(SwingLows(b), m)
  <2>1. \A i \in 1..n : c[i] = b[i]
    BY <1>2
  <2>. QED
    BY <1>2, <1>3, <2>1
<1>. QED
  BY <1>4, <1>5

\* What is known by a day is some of what there is.
LEMMA KnownSwings ==
  ASSUME NEW b, NEW m
  PROVE  /\ ConfirmedBy(SwingHighs(b), m) \subseteq Swings(b)
         /\ ConfirmedBy(SwingLows(b), m) \subseteq Swings(b)
BY DEF ConfirmedBy, Swings

\* The trend of both series is the same.
LEMMA AgreeTrend ==
  ASSUME NEW b, NEW c, NEW n, Agree(b, c, n)
  PROVE  TrendState(b, n) = TrendState(c, n)
<1> DEFINE highs == ConfirmedBy(SwingHighs(b), n)
           lows  == ConfirmedBy(SwingLows(b), n)
<1>1. n \in Nat /\ Len(b) \in Nat /\ \A i \in 1..n : b[i] = c[i]
  BY DEF Agree
<1>2. highs = ConfirmedBy(SwingHighs(c), n) /\ lows = ConfirmedBy(SwingLows(c), n)
  BY <1>1, AgreeSwings
<1>3. ASSUME NEW found, found \subseteq Swings(b), found # {}, NEW kind
      PROVE  AttemptFailed(b, Newest(found), kind, n) = AttemptFailed(c, Newest(found), kind, n)
  <2>1. Newest(found).at \in Nat
    BY <1>1, <1>3, NewestIsOne, SwingShape
  <2>2. \A i \in (Newest(found).at + 1)..n : b[i] = c[i]
    BY <1>1, <2>1
  <2>. QED
    BY <2>2 DEF AttemptFailed
<1>4. highs # {} => AttemptFailed(b, Newest(highs), "bullish", n) = AttemptFailed(c, Newest(highs), "bullish", n)
  BY <1>3, KnownSwings
<1>5. lows # {} => AttemptFailed(b, Newest(lows), "bearish", n) = AttemptFailed(c, Newest(lows), "bearish", n)
  BY <1>3, KnownSwings
<1>6. highs = {} \/ lows = {} => Cardinality(highs) <= Depth \/ Cardinality(lows) <= Depth
  BY FS_EmptySet, StructureAssumption
<1> HIDE DEF highs, lows
<1>. QED
  BY <1>2, <1>4, <1>5, <1>6 DEF TrendState, highs, lows

-----------------------------------------------------------------------------
(* The state.  The cache holds at least two well formed bars, the day is    *)
(* that of the newest or the one after, and a pull leaves every bar but the *)
(* newest as it was.                                                        *)

Printable(b) == /\ b \in Seq(Bars) /\ Len(b) >= 2
                /\ \A i \in 1..Len(b) : WellFormed(b[i])

StateInv ==
  /\ Printable(bars)
  /\ today \in Nat /\ (today = Len(bars) \/ today = Len(bars) + 1)
  /\ \A s \in sitting : s.cached \in Nat /\ 2 <= s.cached /\ s.cached <= Len(bars)
  /\ \A p \in picks : p.on \in Nat

\* A move after a whole close prints a well formed bar.
LEMMA PrintedIsWellFormed ==
  ASSUME NEW last \in Nat, NEW bar \in Printed(last)
  PROVE  bar \in Bars /\ WellFormed(bar)
<1>1. PICK move \in Moves : bar = BarAfter(last, move) /\ bar.low > 0
  BY DEF Printed
<1> DEFINE close == last + move.change
<1>2. move.change \in Int /\ move.up \in Nat /\ move.down \in Nat /\ move.volume \in Int /\ close \in Int
  BY ChartAssumption
<1>3. /\ Max({last, close}) = IF last < close THEN close ELSE last
      /\ Min({last, close}) = IF last < close THEN last ELSE close
  <2> HIDE DEF close
  <2>. QED
    BY <1>2, MaxOfTwo
<1>4. /\ bar.open = last /\ bar.close = close /\ bar.volume = move.volume
      /\ bar.high = Max({last, close}) + move.up /\ bar.low = Min({last, close}) - move.down
      /\ bar = [open |-> bar.open, close |-> bar.close, volume |-> bar.volume,
                high |-> bar.high, low |-> bar.low]
  BY <1>1 DEF BarAfter
<1> HIDE DEF close
<1>5. WellFormed(bar)
  BY <1>1, <1>2, <1>3, <1>4 DEF WellFormed
<1>6. bar.open \in Nat /\ bar.close \in Nat /\ bar.high \in Nat /\ bar.low \in Nat /\ bar.volume \in Int
  BY <1>1, <1>2, <1>3, <1>4
<1>. QED
  BY <1>4, <1>5, <1>6 DEF Bars

\* What a pull makes of the newest bar is well formed.
LEMMA SettledIsWellFormed ==
  ASSUME NEW b, Printable(b), NEW bar \in Settled(b)
  PROVE  bar \in Bars /\ WellFormed(bar) /\ bar.close \in Nat
<1>1. b[Len(b) - 1] \in Bars
  BY ElementOfSeq DEF Printable
<1>2. bar \in Printed(b[Len(b) - 1].close) /\ b[Len(b) - 1].close \in Nat
  BY <1>1 DEF Settled, Bars
<1>3. bar \in Bars /\ WellFormed(bar)
  BY <1>2, PrintedIsWellFormed
<1>. QED
  BY <1>3 DEF Bars

\* A step leaves every bar but the newest as it was, and the state as above.
LEMMA StateStep ==
  ASSUME StateInv, [Next]_vars
  PROVE  /\ StateInv'
         /\ bars' = bars \/ Agree(bars, bars', Len(bars) - 1)
         /\ Len(bars') >= Len(bars)
<1>1. /\ bars \in Seq(Bars) /\ Len(bars) \in Nat /\ Len(bars) >= 2
      /\ \A i \in 1..Len(bars) : bars[i] \in Bars /\ WellFormed(bars[i])
  BY LenProperties, ElementOfSeq DEF StateInv, Printable
<1>2. CASE DayPasses
  BY <1>1, <1>2 DEF DayPasses, StateInv
<1>3. CASE Refetch
  <2>1. PICK bar \in Settled(bars) : bars' = [bars EXCEPT ![today] = bar]
    BY <1>3 DEF Refetch
  <2>2. bar \in Bars /\ WellFormed(bar)
    BY <2>1, SettledIsWellFormed DEF StateInv
  <2>3. /\ bars' \in Seq(Bars) /\ Len(bars') = Len(bars) /\ today = Len(bars)
        /\ \A i \in 1..Len(bars) : bars'[i] = IF i = Len(bars) THEN bar ELSE bars[i]
    BY <1>1, <1>3, <2>1, <2>2, ExceptSeq DEF Refetch
  <2>4. Printable(bars)'
    BY <1>1, <2>2, <2>3 DEF Printable
  <2>. QED
    BY <1>1, <1>3, <2>3, <2>4 DEF Refetch, StateInv, Agree
<1>4. CASE Fetch
  <2>1. PICK closed \in Settled(bars) : \E forming \in Printed(closed.close) :
          bars' = [bars EXCEPT ![Len(bars)] = closed] \o <<forming>>
    BY <1>4 DEF Fetch
  <2>2. PICK forming \in Printed(closed.close) :
          bars' = [bars EXCEPT ![Len(bars)] = closed] \o <<forming>>
    BY <2>1
  <2>3. closed \in Bars /\ WellFormed(closed) /\ closed.close \in Nat
    BY <2>1, SettledIsWellFormed DEF StateInv
  <2>4. forming \in Bars /\ WellFormed(forming)
    BY <2>2, <2>3, PrintedIsWellFormed
  <2> DEFINE b == [bars EXCEPT ![Len(bars)] = closed]
  <2>5. /\ b \in Seq(Bars) /\ Len(b) = Len(bars)
        /\ \A i \in 1..Len(bars) : b[i] = IF i = Len(bars) THEN closed ELSE bars[i]
    BY <1>1, <2>3, ExceptSeq
  <2>6. bars' = b \o <<forming>>
    BY <2>2
  <2> HIDE DEF b
  <2>7. /\ bars' \in Seq(Bars) /\ Len(bars') = Len(bars) + 1
        /\ \A i \in 1..(Len(bars) + 1) : bars'[i] = IF i <= Len(bars) THEN b[i] ELSE forming
    BY <1>1, <2>4, <2>5, <2>6, ConcatProperties
  <2>8. Printable(bars)'
    BY <1>1, <2>3, <2>4, <2>5, <2>7 DEF Printable
  <2>9. today' = today /\ sitting' = sitting /\ picks' = picks /\ today = Len(bars) + 1
    BY <1>4 DEF Fetch
  <2>10. Agree(bars, bars', Len(bars) - 1)
    BY <1>1, <2>5, <2>7 DEF Agree
  <2>. QED
    BY <1>1, <2>7, <2>8, <2>9, <2>10 DEF StateInv
<1>5. CASE Sit
  <2>1. bars' = bars /\ today' = today /\ picks' = picks /\ sitting' = {Reading}
    BY <1>5 DEF Sit
  <2>2. Reading.cached = Len(bars)
    BY DEF Reading
  <2>3. \A s \in sitting' : s.cached = Len(bars)
    BY <2>1, <2>2
  <2>. QED
    BY <1>1, <2>1, <2>3 DEF StateInv
<1>6. CASE Approve
  <2>1. /\ bars' = bars /\ today' = today /\ sitting' = sitting
        /\ \A p \in picks' : p.on = today
    BY <1>6 DEF Approve
  <2>. QED
    BY <1>1, <2>1 DEF StateInv
<1>7. CASE UNCHANGED vars
  BY <1>1, <1>7 DEF vars, StateInv
<1>. QED
  BY <1>2, <1>3, <1>4, <1>5, <1>6, <1>7 DEF Next

\* A run starts in such a state,
LEMMA StateInit ==
  ASSUME Init
  PROVE  StateInv
<1>1. PICK run \in Runs : bars = run.bars /\ today = Len(run.bars)
  BY DEF Init
<1>2. run.bars \in Seq(Bars) /\ Len(run.bars) >= 2 /\ \A i \in DOMAIN run.bars : WellFormed(run.bars[i])
  BY ChartAssumption
<1>3. Printable(bars)
  BY <1>1, <1>2, LenProperties DEF Printable
<1>. QED
  BY <1>1, <1>2, <1>3, LenProperties DEF Init, StateInv

\* and stays in one.
LEMMA StateAlways == Spec => []StateInv
<1>1. StateInv /\ [Next]_vars => StateInv'
  BY StateStep
<1>. QED
  BY <1>1, StateInit, PTL DEF Spec

-----------------------------------------------------------------------------
(* A bracket that is settled stays settled (oracle.replay).                 *)

\* What is first among days of which the earlier ones do not change.
LEMMA FirstStays ==
  ASSUME NEW S \in SUBSET Nat, NEW T \in SUBSET Nat, NEW n \in Nat,
         \A d \in Nat : d < n => (d \in S <=> d \in T),
         NEW f \in S, f < n
  PROVE  \A d : d \in First(S) /\ d < n => First(S) = {d} /\ First(T) = {d}
<1>1. ASSUME NEW d \in First(S), d < n PROVE First(S) = {d} /\ First(T) = {d}
  <2>1. d \in S /\ d \in Nat /\ d \in T /\ \A e \in S : d <= e
    BY <1>1 DEF First
  <2>2. \A e \in T : d <= e
    <3>1. ASSUME NEW e \in T, e < d PROVE FALSE
      BY <1>1, <2>1, <3>1
    <3>. QED
      BY <2>1, <3>1
  <2>3. \A e \in First(S) : e = d
    BY <2>1 DEF First
  <2>4. \A e \in First(T) : e = d
    BY <2>1, <2>2 DEF First
  <2>5. d \in First(S) /\ d \in First(T)
    BY <2>1, <2>2 DEF First
  <2>. QED
    BY <2>3, <2>4, <2>5
<1>. QED
  BY <1>1

\* A set of days that is not empty has a first one.
LEMMA FirstExists ==
  ASSUME NEW S \in SUBSET Nat, S # {}
  PROVE  \E d \in First(S) : d \in S
BY LeastExists DEF First

\* The bars a bracket is resolved on, up to the newest that both series have.
LEMMA ResolveAgrees ==
  ASSUME NEW b, NEW c, NEW n, Agree(b, c, n), Len(b) = n + 1, Len(c) >= Len(b),
         NEW p, p.on \in Nat,
         LET was == Resolve(p, b)
         IN \/ \E d \in was.resolved : d < Len(b)
            \/ was.state = "nofill" /\ Len(b) > p.on + FillWithin
  PROVE  Resolve(p, c) = Resolve(p, b)
<1> DEFINE Open(x)  == {i \in (p.on + 1)..Min({Len(x), p.on + FillWithin}) : HitsEntry(p, x[i])}
           Done(x)  == {i \in UNION {f..Len(x) : f \in FilledOn(p, x)} :
                          HitsStop(p, x[i]) \/ HitsTarget(p, x[i])}
<1>1. /\ Len(b) \in Nat /\ Len(c) \in Nat /\ n \in Nat /\ \A i \in 1..n : b[i] = c[i]
      /\ FillWithin \in Nat
  BY VerdictsAssumption DEF Agree
<1>2. /\ Min({Len(b), p.on + FillWithin}) =
           IF Len(b) < p.on + FillWithin THEN Len(b) ELSE p.on + FillWithin
      /\ Min({Len(c), p.on + FillWithin}) =
           IF Len(c) < p.on + FillWithin THEN Len(c) ELSE p.on + FillWithin
  <2>1. p.on + FillWithin \in Int
    BY <1>1
  <2>2. \A x \in Int : Min({x, p.on + FillWithin}) =
          IF x < p.on + FillWithin THEN x ELSE p.on + FillWithin
    BY <2>1, MaxOfTwo
  <2>. QED
    BY <1>1, <2>2
<1>3. /\ Open(b) \in SUBSET Nat /\ Open(c) \in SUBSET Nat
      /\ \A d \in Nat : d < n + 1 => (d \in Open(b) <=> d \in Open(c))
      /\ \A x \in {b, c} : FilledOn(p, x) = First(Open(x)) /\ FilledOn(p, x) \subseteq Open(x)
  <2>1. \A x \in {b, c} : Open(x) \in SUBSET Nat
    BY <1>1, <1>2
  <2>2. \A x \in {b, c} : FilledOn(p, x) = First(Open(x)) /\ FilledOn(p, x) \subseteq Open(x)
    BY DEF FilledOn, First
  <2>3. ASSUME NEW d \in Nat, d < n + 1 PROVE d \in Open(b) <=> d \in Open(c)
    <3> DEFINE x == Min({Len(b), p.on + FillWithin})
               y == Min({Len(c), p.on + FillWithin})
    <3>0. x \in Nat /\ y \in Nat /\ (d <= x <=> d <= y)
      BY <1>1, <1>2, <2>3
    <3>1. d \in (p.on + 1)..x <=> d \in (p.on + 1)..y
      <4> HIDE DEF x, y
      <4>. QED
        BY <3>0
    <3>2. d \in (p.on + 1)..Min({Len(b), p.on + FillWithin}) => b[d] = c[d]
      BY <1>1, <2>3
    <3>. QED
      BY <3>1, <3>2
  <2>. QED
    BY <2>1, <2>2, <2>3
<1> HIDE DEF Open
<1>4. \A x \in {b, c} : ResolvedOn(p, x) = First(Done(x)) /\ ResolvedOn(p, x) \subseteq Done(x)
  BY DEF ResolvedOn, First
<1>5. CASE \E d \in ResolvedOn(p, b) : d < Len(b)
  <2>1. PICK d \in ResolvedOn(p, b) : d < Len(b)
    BY <1>5
  <2>2. PICK f \in FilledOn(p, b) : d \in f..Len(b)
    BY <1>4, <2>1
  <2>3. f \in Nat /\ f <= d /\ f < n + 1 /\ d < n + 1 /\ d \in Nat
    BY <1>1, <1>3, <2>1, <2>2
  <2>3a. f \in (p.on + 1)..Min({Len(b), p.on + FillWithin})
    BY <1>3, <2>2 DEF Open
  <2>4. FilledOn(p, b) = {f} /\ FilledOn(p, c) = {f}
    <3>1. f \in Open(b) /\ f \in First(Open(b)) /\ n + 1 \in Nat
      BY <1>1, <1>3, <2>2
    <3>2. First(Open(b)) = {f} /\ First(Open(c)) = {f}
      BY <1>3, <2>3, <3>1, FirstStays
    <3>. QED
      BY <1>3, <3>2
  <2>5. UNION {g..Len(b) : g \in FilledOn(p, b)} = f..Len(b)
        /\ UNION {g..Len(c) : g \in FilledOn(p, c)} = f..Len(c)
    BY <2>4
  <2>6. /\ Done(b) \in SUBSET Nat /\ Done(c) \in SUBSET Nat
        /\ \A e \in Nat : e < n + 1 => (e \in Done(b) <=> e \in Done(c))
    <3>1. Done(b) \in SUBSET Nat /\ Done(c) \in SUBSET Nat
      BY <1>1, <2>3, <2>5
    <3>2. ASSUME NEW e \in Nat, e < n + 1 PROVE e \in Done(b) <=> e \in Done(c)
      <4>1. f >= 1
        BY <2>3, <2>3a
      <4>2. e \in f..Len(b) <=> e \in f..Len(c)
        BY <1>1, <2>3, <3>2
      <4>3. e \in f..Len(b) => b[e] = c[e]
        BY <1>1, <2>3, <3>2, <4>1
      <4>. QED
        BY <2>5, <4>2, <4>3
    <3>. QED
      BY <3>1, <3>2
  <2>7. d \in Done(b) /\ d \in First(Done(b))
    BY <1>4, <2>1
  <2>8. ResolvedOn(p, b) = {d} /\ ResolvedOn(p, c) = {d}
    <3> HIDE DEF Done
    <3>1. n + 1 \in Nat
      BY <1>1
    <3>2. First(Done(b)) = {d} /\ First(Done(c)) = {d}
      BY <2>3, <2>6, <2>7, <3>1, FirstStays
    <3>. QED
      BY <1>4, <3>2
  <2>9. b[d] = c[d] /\ p.on < f /\ The({d}) = d
    <3>1. f >= 1 /\ p.on < f
      BY <2>3, <2>3a
    <3>. QED
      BY <1>1, <2>3, <3>1 DEF The
  <2>10. ~(Len(b) <= p.on) /\ ~(Len(c) <= p.on)
    BY <1>1, <2>3, <2>9
  <2>. QED
    BY <2>4, <2>8, <2>9, <2>10, Zenon DEF Resolve
<1>6. CASE Resolve(p, b).state = "nofill" /\ Len(b) > p.on + FillWithin
  <2>1. FilledOn(p, b) = {}
    BY <1>6 DEF Resolve
  <2>2. Open(b) = {}
    BY <1>3, <2>1, FirstExists
  <2>3. Open(c) = {}
    <3>1. ASSUME NEW i \in Open(c) PROVE FALSE
      <4>1. i \in Nat /\ i < n + 1
        BY <1>1, <1>2, <1>6 DEF Open
      <4>. QED
        BY <1>3, <2>2, <3>1, <4>1
    <3>. QED
      BY <3>1
  <2>4. FilledOn(p, c) = {}
    BY <1>3, <2>3
  <2>5. ResolvedOn(p, b) = {} /\ ResolvedOn(p, c) = {}
    BY <2>1, <2>4 DEF ResolvedOn, First
  <2>6. ~(Len(b) <= p.on) /\ ~(Len(c) <= p.on) /\ Len(b) > p.on /\ Len(c) > p.on
    BY <1>1, <1>6
  <2>. QED
    BY <2>1, <2>4, <2>5, <2>6 DEF Resolve
<1>7. Resolve(p, b).resolved = ResolvedOn(p, b)
  BY DEF Resolve
<1>. QED
  BY <1>5, <1>6, <1>7

\* A bracket that resolved on a bar now closed resolved for good, and one whose
\* limit never filled in its time never fills (oracle.replay).
THEOREM SettledForGood == Spec => ReplayIsFinal
<1> DEFINE Over(p) == \/ \E d \in Resolve(p, bars).resolved : d < Len(bars)
                      \/ Resolve(p, bars).state = "nofill" /\ Len(bars) > p.on + FillWithin
           Final == \A p \in picks : Over(p) => Resolve(p, bars') = Resolve(p, bars)
<1>1. ASSUME StateInv, [Next]_vars PROVE Final \/ bars' = bars
  <2>1. CASE bars' = bars
    BY <2>1
  <2>2. CASE bars' # bars
    <3>1. /\ Agree(bars, bars', Len(bars) - 1) /\ Len(bars') >= Len(bars)
          /\ Len(bars) \in Nat /\ Len(bars) >= 2
      BY <1>1, <2>2, StateStep, LenProperties DEF StateInv, Printable
    <3>2. ASSUME NEW p \in picks, Over(p) PROVE Resolve(p, bars') = Resolve(p, bars)
      <4>1. p.on \in Nat
        BY <1>1 DEF StateInv
      <4>. QED
        BY <3>1, <3>2, <4>1, ResolveAgrees
    <3>. QED
      BY <3>2
  <2>. QED
    BY <2>1, <2>2
<1>2. StateInv /\ [Next]_vars =>
        [\A p \in picks :
           LET was == Resolve(p, bars)
               is  == Resolve(p, bars')
               over == \/ \E d \in was.resolved : d < Len(bars)
                       \/ was.state = "nofill" /\ Len(bars) > p.on + FillWithin
           IN over => is = was]_bars
  BY <1>1
<1>. QED
  BY <1>2, StateAlways, PTL DEF Spec, ReplayIsFinal

-----------------------------------------------------------------------------
(* Breaks of structure and the blocks they leave.                           *)

\* Agreement goes both ways.
LEMMA AgreeSym ==
  ASSUME NEW b, NEW c, NEW n, Agree(b, c, n)
  PROVE  Agree(c, b, n)
BY DEF Agree

\* Of the breaks one series holds, the other holds the ones by the day.
LEMMA BreaksWithin ==
  ASSUME NEW b, NEW c, NEW n, Agree(b, c, n)
  PROVE  Breaks(b, n) \subseteq Breaks(c, n)
<1>1. /\ Len(b) \in Nat /\ Len(c) \in Nat /\ n \in Nat /\ n <= Len(b) /\ n <= Len(c)
      /\ \A i \in 1..n : b[i] = c[i]
  BY DEF Agree
<1>2. Width \in Nat \ {0}
  BY StructureAssumption
<1>3. \A i \in 1..n : /\ ConfirmedBy(SwingHighs(b), i) = ConfirmedBy(SwingHighs(c), i)
                      /\ ConfirmedBy(SwingLows(b), i) = ConfirmedBy(SwingLows(c), i)
  BY <1>1, AgreeSwings
<1>4. ASSUME NEW tb \in {SwingHighs(b), SwingLows(b)}, NEW tc, NEW ob, NEW oc, NEW kind,
             \A i \in 1..n : ConfirmedBy(tb, i) = ConfirmedBy(tc, i),
             \A i \in 1..n : ConfirmedBy(ob, i) = ConfirmedBy(oc, i),
             NEW x \in ScanBreaks(b, tb, ob, kind), x.at <= n
      PROVE  x \in ScanBreaks(c, tc, oc, kind)
  <2>1. PICK k \in 1..Len(b) :
          /\ ClosesThrough(b, tb, kind, k)
          /\ x = [kind |-> kind, at |-> k, level |-> Newest(ConfirmedBy(tb, k)).price,
                  origin |-> OriginBefore(ob, k)]
    BY <1>4 DEF ScanBreaks
  <2>2. k \in 1..n /\ k \in 1..Len(c)
    BY <1>1, <1>4, <2>1
  <2>3. /\ ConfirmedBy(tb, k) = ConfirmedBy(tc, k) /\ b[k] = c[k]
        /\ OriginBefore(ob, k) = OriginBefore(oc, k)
    BY <1>1, <1>4, <2>2 DEF OriginBefore
  <2>4. /\ ConfirmedBy(tb, k) # {} /\ ConfirmedBy(tb, k) \subseteq Swings(b)
    BY <2>1 DEF ClosesThrough, ConfirmedBy, Swings
  <2>5. Newest(ConfirmedBy(tb, k)) \in Swings(b)
    BY <1>1, <2>4, NewestIsOne
  <2>6. Newest(ConfirmedBy(tb, k)).confirmed \in Nat /\ Newest(ConfirmedBy(tb, k)).confirmed > 0
    BY <1>1, <2>5, SwingShape
  <2>7. \A j \in Newest(ConfirmedBy(tb, k)).confirmed..(k - 1) : b[j] = c[j]
    BY <1>1, <2>2, <2>6
  <2>8. ClosesThrough(c, tc, kind, k)
    BY <2>1, <2>3, <2>7 DEF ClosesThrough
  <2>9. x = [kind |-> kind, at |-> k, level |-> Newest(ConfirmedBy(tc, k)).price,
             origin |-> OriginBefore(oc, k)]
    BY <2>1, <2>3
  <2>. QED
    BY <2>2, <2>8, <2>9 DEF ScanBreaks
<1>5. ASSUME NEW x \in Breaks(b, n) PROVE x \in AllBreaks(c) /\ x.at <= n
  <2>1. x.at <= n
    BY <1>5 DEF Breaks
  <2>2. CASE x \in ScanBreaks(b, SwingHighs(b), SwingLows(b), "bullish")
    BY <1>3, <1>4, <2>1, <2>2 DEF AllBreaks
  <2>3. CASE x \in ScanBreaks(b, SwingLows(b), SwingHighs(b), "bearish")
    BY <1>3, <1>4, <2>1, <2>3 DEF AllBreaks
  <2>. QED
    BY <1>5, <2>1, <2>2, <2>3 DEF Breaks, AllBreaks
<1>. QED
  BY <1>5 DEF Breaks

\* The breaks closed by a day are the same in both series.
LEMMA AgreeBreaks ==
  ASSUME NEW b, NEW c, NEW n, Agree(b, c, n)
  PROVE  Breaks(b, n) = Breaks(c, n)
<1>1. Breaks(b, n) \subseteq Breaks(c, n)
  BY BreaksWithin
<1>2. Breaks(c, n) \subseteq Breaks(b, n)
  BY AgreeSym, BreaksWithin
<1>. QED
  BY <1>1, <1>2

\* What a break is: a bar that closes through the newest swing of one side, and
\* the newest swing of the other side known on it.
LEMMA BreakShape ==
  ASSUME NEW b, Len(b) \in Nat, NEW x \in AllBreaks(b)
  PROVE  /\ x.kind \in Kinds /\ x.at \in 1..Len(b)
         /\ \E s \in Swings(b) : x.level = s.price /\ s.confirmed <= x.at
         /\ \A s \in x.origin : s \in Swings(b) /\ s.confirmed <= x.at /\ s.at < x.at
         /\ \A s, t \in x.origin : s = t
         /\ x.kind = "bullish" => x.origin \subseteq SwingLows(b)
         /\ x.kind = "bearish" => x.origin \subseteq SwingHighs(b)
<1>1. ASSUME NEW targets \in {SwingHighs(b), SwingLows(b)}, NEW origins \in {SwingHighs(b), SwingLows(b)},
             NEW kind, x \in ScanBreaks(b, targets, origins, kind)
      PROVE  /\ x.kind = kind /\ x.at \in 1..Len(b)
             /\ \E s \in Swings(b) : x.level = s.price /\ s.confirmed <= x.at
             /\ \A s \in x.origin : s \in origins /\ s.confirmed <= x.at /\ s.at < x.at
             /\ \A s, t \in x.origin : s = t
  <2>1. PICK k \in 1..Len(b) :
          /\ ClosesThrough(b, targets, kind, k)
          /\ x = [kind |-> kind, at |-> k, level |-> Newest(ConfirmedBy(targets, k)).price,
                  origin |-> OriginBefore(origins, k)]
    BY <1>1 DEF ScanBreaks
  <2> DEFINE known == ConfirmedBy(targets, k)
             eligible == {s \in ConfirmedBy(origins, k) : s.at < k}
  <2>2. known # {} /\ known \subseteq Swings(b) /\ eligible \subseteq Swings(b)
    BY <2>1 DEF ClosesThrough, ConfirmedBy, Swings
  <2>3. Newest(known) \in known /\ Newest(known) \in Swings(b) /\ Newest(known).confirmed <= k
    BY <2>2, NewestIsOne DEF ConfirmedBy
  <2>4. eligible # {} => Newest(eligible) \in eligible
    <3> HIDE DEF eligible
    <3>. QED
      BY <2>2, NewestIsOne
  <2>5. x.origin = IF eligible = {} THEN {} ELSE {Newest(eligible)}
    BY <2>1 DEF OriginBefore
  <2>6. \A s \in eligible : s \in origins /\ s.confirmed <= k /\ s.at < k
    BY DEF ConfirmedBy
  <2> HIDE DEF known, eligible
  <2>7. x.kind = kind /\ x.at = k /\ x.level = Newest(known).price
    BY <2>1 DEF known
  <2>8. \E s \in Swings(b) : x.level = s.price /\ s.confirmed <= x.at
    BY <2>3, <2>7
  <2>9. \A s \in x.origin : s \in origins /\ s.confirmed <= x.at /\ s.at < x.at
    BY <2>4, <2>5, <2>6, <2>7
  <2>10. \A s, t \in x.origin : s = t
    BY <2>5
  <2>. QED
    BY <2>1, <2>7, <2>8, <2>9, <2>10
<1>2. CASE x \in ScanBreaks(b, SwingHighs(b), SwingLows(b), "bullish")
  <2>1. /\ x.kind = "bullish" /\ x.at \in 1..Len(b)
        /\ \E s \in Swings(b) : x.level = s.price /\ s.confirmed <= x.at
        /\ \A s \in x.origin : s \in SwingLows(b) /\ s.confirmed <= x.at /\ s.at < x.at
        /\ \A s, t \in x.origin : s = t
    BY <1>1, <1>2
  <2>. QED
    BY <2>1 DEF Kinds, Swings
<1>3. CASE x \in ScanBreaks(b, SwingLows(b), SwingHighs(b), "bearish")
  <2>1. /\ x.kind = "bearish" /\ x.at \in 1..Len(b)
        /\ \E s \in Swings(b) : x.level = s.price /\ s.confirmed <= x.at
        /\ \A s \in x.origin : s \in SwingHighs(b) /\ s.confirmed <= x.at /\ s.at < x.at
        /\ \A s, t \in x.origin : s = t
    BY <1>1, <1>3
  <2>. QED
    BY <2>1 DEF Kinds, Swings
<1>. QED
  BY <1>2, <1>3 DEF AllBreaks

\* The bar a block is cut from is one of those it may be cut from.
LEMMA BlockShape ==
  ASSUME NEW b, Len(b) \in Nat, NEW x \in AllBreaks(b), BlockBars(b, x) # {}
  PROVE  LET block == BlockFor(b, x) IN
         /\ block.at \in BlockBars(b, x) /\ block.at \in 1..Len(b) /\ block.at < x.at
         /\ Beyond(x.kind, b[block.at].open, b[block.at].close)
         /\ block.kind = x.kind /\ block.bos = x.at /\ block.confirmed = x.at
         /\ block.top = b[block.at].high /\ block.bottom = b[block.at].low
         /\ block.invalidation = InvalidationFor(x, block.top, block.bottom)
<1> DEFINE cut == BlockBars(b, x)
           i == CHOOSE k \in cut : \A j \in cut : j <= k
<1>1. x.at \in 1..Len(b)
  BY BreakShape
<1>2. cut \in SUBSET Nat /\ cut # {} /\ \A j \in cut : j <= x.at /\ j \in 1..Len(b) /\ j < x.at
  BY <1>1 DEF BlockBars
<1>3. \E k \in cut : \A j \in cut : j <= k
  <2>1. x.at \in Nat /\ \A j \in cut : j <= x.at
    BY <1>1, <1>2
  <2> HIDE DEF cut
  <2>. QED
    BY <1>2, <2>1, GreatestBelow
<1>4. i \in cut
  BY <1>3
<1>5. Beyond(x.kind, b[i].open, b[i].close)
  BY <1>4 DEF BlockBars
<1>6. BlockFor(b, x) = [kind |-> x.kind, at |-> i, top |-> b[i].high, bottom |-> b[i].low,
                        bos |-> x.at, confirmed |-> x.at,
                        invalidation |-> InvalidationFor(x, b[i].high, b[i].low)]
  BY DEF BlockFor
<1> HIDE DEF i
<1>. QED
  BY <1>2, <1>4, <1>5, <1>6

\* A block confirmed by a day both series hold is a block of both.
LEMMA BlocksWithin ==
  ASSUME NEW b, NEW c, NEW n, Agree(b, c, n)
  PROVE  OrderBlocks(b, n) \subseteq OrderBlocks(c, n)
<1>1. /\ Len(b) \in Nat /\ Len(c) \in Nat /\ n \in Nat /\ n <= Len(b) /\ n <= Len(c)
      /\ \A i \in 1..n : b[i] = c[i]
  BY DEF Agree
<1>2. ASSUME NEW block \in OrderBlocks(b, n) PROVE block \in OrderBlocks(c, n)
  <2>1. PICK x \in AllBreaks(b) : BlockBars(b, x) # {} /\ block = BlockFor(b, x) /\ block.confirmed <= n
    BY <1>2 DEF OrderBlocks
  <2>2. /\ block.confirmed = x.at /\ x.at \in 1..Len(b) /\ block.at \in BlockBars(b, x)
    BY <1>1, <2>1, BlockShape, BreakShape
  <2>3. x \in AllBreaks(c) /\ x.at <= n
    BY <2>1, <2>2, AgreeBreaks DEF Breaks
  <2>4. \A i \in 1..(x.at - 1) : b[i] = c[i]
    BY <1>1, <2>2, <2>3
  <2>5. BlockBars(b, x) = BlockBars(c, x)
    BY <2>4 DEF BlockBars
  <2>6. block.at \in 1..n /\ block.at = CHOOSE k \in BlockBars(b, x) : \A j \in BlockBars(b, x) : j <= k
    <3>1. block.at = CHOOSE k \in BlockBars(b, x) : \A j \in BlockBars(b, x) : j <= k
      BY <2>1 DEF BlockFor
    <3>. QED
      BY <1>1, <2>2, <2>3, <3>1 DEF BlockBars
  <2>7. BlockFor(b, x) = BlockFor(c, x)
    <3>1. b[block.at] = c[block.at]
      BY <1>1, <2>6
    <3>. QED
      BY <2>5, <2>6, <3>1 DEF BlockFor
  <2>. QED
    BY <2>1, <2>3, <2>5, <2>7 DEF OrderBlocks
<1>. QED
  BY <1>2

\* Every block a series has by a day: the break that left it.
LEMMA BlockOf ==
  ASSUME NEW b, Len(b) \in Nat, NEW n, NEW block \in OrderBlocks(b, n)
  PROVE  \E x \in AllBreaks(b) :
           /\ BlockBars(b, x) # {} /\ block = BlockFor(b, x)
           /\ block.bos = x.at /\ x.at \in 1..Len(b) /\ x.at <= n
<1>1. PICK x \in AllBreaks(b) : BlockBars(b, x) # {} /\ block = BlockFor(b, x) /\ block.confirmed <= n
  BY DEF OrderBlocks
<1>. QED
  BY <1>1, BlockShape, BreakShape

\* So are the live zones.
LEMMA AgreeZones ==
  ASSUME NEW b, NEW c, NEW n, Agree(b, c, n), NEW timeframe
  PROVE  ZonesFrom(b, timeframe, n) = ZonesFrom(c, timeframe, n)
<1>1. /\ Len(b) \in Nat /\ Len(c) \in Nat /\ n \in Nat /\ \A i \in 1..n : b[i] = c[i]
  BY DEF Agree
<1>2. OrderBlocks(b, n) = OrderBlocks(c, n)
  <2>1. OrderBlocks(b, n) \subseteq OrderBlocks(c, n)
    BY BlocksWithin
  <2>2. OrderBlocks(c, n) \subseteq OrderBlocks(b, n)
    BY AgreeSym, BlocksWithin
  <2>. QED
    BY <2>1, <2>2
<1>3. \A block \in OrderBlocks(b, n) : block.bos \in Nat /\ block.bos >= 1
  BY <1>1, BlockOf
<1>4. ASSUME NEW block \in OrderBlocks(b, n)
      PROVE  /\ Invalidated(block, b, n) <=> Invalidated(block, c, n)
             /\ ExtremeSince(b, block, n) = ExtremeSince(c, block, n)
  <2>1. block.bos \in Nat /\ block.bos >= 1
    BY <1>3
  <2>2. /\ \A i \in (block.bos + 1)..n : b[i] = c[i]
        /\ \A i \in block.bos..n : b[i] = c[i]
    BY <1>1, <2>1
  <2>3. Invalidated(block, b, n) <=> Invalidated(block, c, n)
    BY <2>2 DEF Invalidated
  <2>4. ExtremeSince(b, block, n) = ExtremeSince(c, block, n)
    <3>1. {IF block.kind = "bullish" THEN b[i].high ELSE b[i].low : i \in block.bos..n}
            = {IF block.kind = "bullish" THEN c[i].high ELSE c[i].low : i \in block.bos..n}
      BY <2>2
    <3>. QED
      BY <3>1 DEF ExtremeSince
  <2>. QED
    BY <2>3, <2>4
<1>5. LiveBlocks(b, n) = LiveBlocks(c, n) /\ \A block \in LiveBlocks(b, n) : block \in OrderBlocks(b, n)
  BY <1>2, <1>4 DEF LiveBlocks
<1>. QED
  BY <1>4, <1>5 DEF ZonesFrom

-----------------------------------------------------------------------------
(* The dealing range.                                                       *)

\* Of some breaks there is a last: the one a reset is drawn from.
LastReset(found) ==
  CHOOSE x \in found : \A y \in found :
    y.at < x.at \/ (y.at = x.at /\ (y.kind = "bullish" => x.kind = y.kind))

\* The range it draws, to the furthest price since.
RangeOf(last, edge) ==
  LET ends == {edge} \cup {s.price : s \in last.origin}
  IN IF Max(ends) <= Min(ends) THEN {}
     ELSE {[low |-> Min(ends), high |-> Max(ends), source |-> "reset", confirmed |-> last.at]}

EdgeSince(b, last, n) == Furthest(last.kind, {Reach(last.kind, b[i]) : i \in last.at..n})

\* The reset range, without its LETs.
LEMMA ResetIs ==
  ASSUME NEW b, NEW n, NEW confirmed
  PROVE  LET found == ResettingBreaks(b, n, confirmed)
             last  == LastReset(found)
         IN ResetRange(b, n, confirmed) =
              IF found = {} THEN {} ELSE RangeOf(last, EdgeSince(b, last, n))
BY Zenon DEF ResetRange, LastReset, RangeOf, EdgeSince

\* The last break that resets a range is one of those that do.
LEMMA LastResetIsOne ==
  ASSUME NEW b, Len(b) \in Nat, NEW found, found \subseteq AllBreaks(b), found # {}
  PROVE  LastReset(found) \in found
<1> DEFINE Ats == {x.at : x \in found}
<1>1. \A x \in found : x.at \in Nat /\ x.at <= Len(b) /\ x.kind \in Kinds
  BY BreakShape
<1>2. Ats \in SUBSET Nat /\ Ats # {} /\ \A a \in Ats : a <= Len(b)
  BY <1>1
<1>3. PICK m \in Ats : \A a \in Ats : a <= m
  <2> HIDE DEF Ats
  <2>. QED
    BY <1>2, GreatestBelow
<1>4. PICK x \in found : x.at = m
  OBVIOUS
<1>5. \A y \in found : y.at <= m
  BY <1>3
<1>6. \E z \in found : \A y \in found :
        y.at < z.at \/ (y.at = z.at /\ (y.kind = "bullish" => z.kind = y.kind))
  <2> HIDE DEF Ats
  <2>0. m \in Nat
    BY <1>1, <1>4
  <2>1. CASE \E z \in found : z.at = m /\ z.kind = "bullish"
    <3>1. PICK z \in found : z.at = m /\ z.kind = "bullish"
      BY <2>1
    <3>2. \A y \in found : y.at < z.at \/ (y.at = z.at /\ (y.kind = "bullish" => z.kind = y.kind))
      BY <1>1, <1>5, <2>0, <3>1
    <3>. QED
      BY <3>2
  <2>2. CASE ~\E z \in found : z.at = m /\ z.kind = "bullish"
    <3>1. \A y \in found : y.at < x.at \/ (y.at = x.at /\ (y.kind = "bullish" => x.kind = y.kind))
      BY <1>1, <1>4, <1>5, <2>0, <2>2
    <3>. QED
      BY <3>1
  <2>. QED
    BY <2>1, <2>2
<1>. QED
  BY <1>6 DEF LastReset

\* So is the dealing range.
LEMMA AgreeRange ==
  ASSUME NEW b, NEW c, NEW n, Agree(b, c, n), NEW price
  PROVE  DealingRange(b, n, price) = DealingRange(c, n, price)
<1>1. /\ Len(b) \in Nat /\ Len(c) \in Nat /\ n \in Nat /\ \A i \in 1..n : b[i] = c[i]
  BY DEF Agree
<1>2. ConfirmedRange(b, n) = ConfirmedRange(c, n)
  <2>1. /\ ConfirmedBy(SwingHighs(b), n) = ConfirmedBy(SwingHighs(c), n)
        /\ ConfirmedBy(SwingLows(b), n) = ConfirmedBy(SwingLows(c), n)
    BY <1>1, AgreeSwings
  <2>. QED
    BY <2>1, Zenon DEF ConfirmedRange
<1>3. ASSUME NEW confirmed
      PROVE  ResetRange(b, n, confirmed) = ResetRange(c, n, confirmed)
  <2> DEFINE found == ResettingBreaks(b, n, confirmed)
             last  == LastReset(found)
  <2>1. found = ResettingBreaks(c, n, confirmed)
    BY AgreeBreaks DEF ResettingBreaks
  <2>2. found \subseteq AllBreaks(b)
    BY DEF ResettingBreaks, Breaks
  <2>3. CASE found = {}
    BY <2>1, <2>3, ResetIs
  <2>4. CASE found # {}
    <3>1. last \in found
      BY <1>1, <2>2, <2>4, LastResetIsOne
    <3>2. last.at \in Nat /\ last.at >= 1
      BY <1>1, <2>2, <3>1, BreakShape
    <3>3. EdgeSince(b, last, n) = EdgeSince(c, last, n)
      <4> HIDE DEF last
      <4>1. {Reach(last.kind, b[i]) : i \in last.at..n} = {Reach(last.kind, c[i]) : i \in last.at..n}
        BY <1>1, <3>2
      <4>. QED
        BY <4>1 DEF EdgeSince
    <3>. QED
      BY <2>1, <2>4, <3>3, ResetIs
  <2>. QED
    BY <2>3, <2>4
<1>. QED
  BY <1>2, <1>3 DEF DealingRange

-----------------------------------------------------------------------------
(* Gaps, pools and the average range, read off the bars by the day.         *)

Priced(b) == b \in Seq(Bars) /\ \A i \in 1..Len(b) : WellFormed(b[i])

\* A priced series has whole, ordered prices on every day.
LEMMA PricedBars ==
  ASSUME NEW b, Priced(b)
  PROVE  /\ Len(b) \in Nat /\ DOMAIN b = 1..Len(b)
         /\ \A i \in 1..Len(b) :
              /\ b[i] \in Bars /\ WellFormed(b[i])
              /\ b[i].open \in Int /\ b[i].high \in Int /\ b[i].low \in Int /\ b[i].close \in Int
              /\ 0 < b[i].low /\ b[i].low <= b[i].high
              /\ b[i].low <= b[i].open /\ b[i].open <= b[i].high
              /\ b[i].low <= b[i].close /\ b[i].close <= b[i].high
<1>1. b \in Seq(Bars) /\ \A i \in 1..Len(b) : WellFormed(b[i])
  BY DEF Priced
<1>2. Len(b) \in Nat /\ DOMAIN b = 1..Len(b) /\ \A i \in 1..Len(b) : b[i] \in Bars
  BY <1>1, LenProperties, ElementOfSeq
<1>3. ASSUME NEW i \in 1..Len(b)
      PROVE  /\ b[i].open \in Int /\ b[i].high \in Int /\ b[i].low \in Int /\ b[i].close \in Int
             /\ 0 < b[i].low /\ b[i].low <= b[i].high
             /\ b[i].low <= b[i].open /\ b[i].open <= b[i].high
             /\ b[i].low <= b[i].close /\ b[i].close <= b[i].high
  <2>1. b[i] \in Bars /\ WellFormed(b[i])
    BY <1>1, <1>2
  <2>2. b[i].open \in Nat /\ b[i].high \in Nat /\ b[i].low \in Nat /\ b[i].close \in Nat
    BY <2>1 DEF Bars
  <2>. QED
    BY <2>1, <2>2 DEF WellFormed
<1>. QED
  BY <1>1, <1>2, <1>3

\* The bars by the day.
LEMMA Prefix ==
  ASSUME NEW b, Priced(b), NEW n \in Nat, n <= Len(b)
  PROVE  LET known == SubSeq(b, 1, n)
         IN Priced(known) /\ Len(known) = n /\ \A i \in 1..n : known[i] = b[i]
<1>1. Len(b) \in Nat /\ \A i \in 1..n : b[i] \in Bars /\ WellFormed(b[i])
  BY PricedBars
<1> DEFINE known == SubSeq(b, 1, n)
<1>2. /\ known \in Seq(Bars) /\ Len(known) = IF 1 <= n THEN n - 1 + 1 ELSE 0
      /\ \A i \in 1..(n - 1 + 1) : known[i] = b[1 + i - 1]
  BY <1>1, SubSeqProperties
<1>3. Len(known) = n /\ \A i \in 1..n : known[i] = b[i]
  BY <1>2
<1>. QED
  BY <1>1, <1>2, <1>3 DEF Priced

\* What a pass of the first bars is given is the same.
LEMMA AgreePrefix ==
  ASSUME NEW b, Priced(b), NEW c, Priced(c), NEW n, Agree(b, c, n)
  PROVE  SubSeq(b, 1, n) = SubSeq(c, 1, n)
<1>1. n \in Nat /\ n <= Len(b) /\ n <= Len(c) /\ \A i \in 1..n : b[i] = c[i]
  BY DEF Agree
<1> DEFINE x == SubSeq(b, 1, n)
           y == SubSeq(c, 1, n)
<1>2. /\ Priced(x) /\ Len(x) = n /\ \A i \in 1..n : x[i] = b[i]
      /\ Priced(y) /\ Len(y) = n /\ \A i \in 1..n : y[i] = c[i]
  BY <1>1, Prefix
<1> HIDE DEF x, y
<1>3. x \in Seq(Bars) /\ y \in Seq(Bars) /\ Len(x) = Len(y) /\ \A i \in 1..Len(x) : x[i] = y[i]
  BY <1>1, <1>2 DEF Priced
<1>4. x = y
  BY <1>3, SeqEqual
<1>. QED
  BY <1>4 DEF x, y

\* So are the live gaps,
LEMMA AgreeGaps ==
  ASSUME NEW b, Priced(b), NEW c, Priced(c), NEW n, Agree(b, c, n), NEW timeframe
  PROVE  GapsFrom(b, timeframe, n) = GapsFrom(c, timeframe, n)
<1>1. LiveGaps(b, n) = LiveGaps(c, n)
  BY AgreePrefix, Zenon DEF LiveGaps
<1>. QED
  BY <1>1, Zenon DEF GapsFrom

\* the average range,
LEMMA AgreeAtr ==
  ASSUME NEW b, NEW c, NEW n, Agree(b, c, n)
  PROVE  AtrTotal(b, n) = AtrTotal(c, n)
<1>1. n \in Nat /\ (\A i \in 1..n : b[i] = c[i]) /\ AtrLookback \in Nat \ {0}
  BY LevelsAssumption DEF Agree
<1> DEFINE window == (n - AtrLookback + 1)..n
<1>2. CASE n < AtrLookback
  BY <1>2 DEF AtrTotal
<1>3. CASE ~(n < AtrLookback)
  <2>1. ASSUME NEW k \in window PROVE TrueRange(b, k) = TrueRange(c, k)
    <3>1. k \in 1..n /\ \A j \in {k - 1} \ {0} : j \in 1..n
      BY <1>1, <1>3
    <3>2. b[k] = c[k] /\ \A j \in {k - 1} \ {0} : b[j] = c[j]
      BY <1>1, <3>1
    <3>3. {Distance(x, b[j].close) : x \in {b[k].high, b[k].low}, j \in {k - 1} \ {0}}
            = {Distance(x, c[j].close) : x \in {c[k].high, c[k].low}, j \in {k - 1} \ {0}}
      BY <3>2
    <3>. QED
      BY <3>2, <3>3 DEF TrueRange
  <2>2. [k \in window |-> TrueRange(b, k)] = [k \in window |-> TrueRange(c, k)]
    BY <2>1
  <2>. QED
    BY <2>2 DEF AtrTotal
<1>. QED
  BY <1>2, <1>3

\* and the pools.
LEMMA AgreePools ==
  ASSUME NEW b, Priced(b), NEW c, Priced(c), NEW n, Agree(b, c, n)
  PROVE  PoolsFrom(b, n) = PoolsFrom(c, n)
<1>1. AtrTotal(b, n) = AtrTotal(c, n) /\ SubSeq(b, 1, n) = SubSeq(c, 1, n)
  BY AgreeAtr, AgreePrefix
<1>2. n \in Int /\ n <= n
  BY DEF Agree
<1>3. /\ ConfirmedBy(SwingHighs(b), n) = ConfirmedBy(SwingHighs(c), n)
      /\ ConfirmedBy(SwingLows(b), n) = ConfirmedBy(SwingLows(c), n)
  BY <1>2, AgreeSwings
<1>4. ASSUME NEW total
      PROVE  /\ Pools(b, "bullish", total, n) = Pools(c, "bullish", total, n)
             /\ Pools(b, "bearish", total, n) = Pools(c, "bearish", total, n)
  BY <1>1, <1>3 DEF Pools
<1>. QED
  BY <1>1, <1>4, Zenon DEF PoolsFrom

-----------------------------------------------------------------------------
(* Weekly bars.                                                             *)

\* The days of a week there is room for.
LEMMA WeekWithin ==
  ASSUME NEW n \in Nat, NEW w \in Nat, 1 <= w, w <= n \div WeekLen
  PROVE  /\ (w - 1) * WeekLen \in Nat /\ w * WeekLen \in Nat
         /\ w * WeekLen = (w - 1) * WeekLen + WeekLen
         /\ w * WeekLen <= n
<1>1. WeekLen \in Nat \ {0}
  BY LevelsAssumption
<1> DEFINE q == n \div WeekLen
<1>2. q \in Nat /\ WeekLen * q <= n
  BY <1>1
<1> HIDE DEF q
<1>3. w * WeekLen = (w - 1) * WeekLen + WeekLen /\ (w - 1) * WeekLen \in Nat /\ w * WeekLen \in Nat
  BY <1>1
<1>4. q - w \in Nat
  BY <1>2 DEF q
<1>5. q * WeekLen = w * WeekLen + (q - w) * WeekLen /\ (q - w) * WeekLen \in Nat
  BY <1>1, <1>2, <1>4
<1>6. q * WeekLen = WeekLen * q
  BY <1>1, <1>2
<1>. QED
  BY <1>1, <1>2, <1>3, <1>5, <1>6

\* More days hold no fewer weeks.
LEMMA WeeksMonotone ==
  ASSUME NEW m \in Nat, NEW n \in Nat, m <= n
  PROVE  m \div WeekLen \in Nat /\ m \div WeekLen <= n \div WeekLen
<1>1. WeekLen \in Nat \ {0}
  BY LevelsAssumption
<1> DEFINE p == m \div WeekLen
           q == n \div WeekLen
<1>2. p \in Nat /\ q \in Nat /\ p * WeekLen <= m /\ n < (q + 1) * WeekLen
  BY <1>1
<1> HIDE DEF p, q
<1>3. ASSUME q < p PROVE FALSE
  <2>1. p - (q + 1) \in Nat
    BY <1>2, <1>3
  <2>2. p * WeekLen = (q + 1) * WeekLen + (p - (q + 1)) * WeekLen
        /\ (p - (q + 1)) * WeekLen \in Nat /\ (q + 1) * WeekLen \in Nat /\ p * WeekLen \in Nat
    BY <1>1, <1>2, <2>1
  <2>. QED
    BY <1>2, <2>2
<1>. QED
  BY <1>2, <1>3 DEF p, q

\* A week's bar of a priced series is priced.
LEMMA WeeklyPriced ==
  ASSUME NEW b, Printable(b)
  PROVE  /\ Priced(ToWeekly(b)) /\ Len(ToWeekly(b)) = (Len(b) - 1) \div WeekLen
         /\ (Len(b) - 1) \div WeekLen \in Nat
<1>1. Priced(b) /\ Len(b) \in Nat /\ Len(b) - 1 \in Nat /\ WeeksComplete(b) = (Len(b) - 1) \div WeekLen
  <2>1. Priced(b) /\ Len(b) >= 2
    BY DEF Printable, Priced
  <2>2. Len(b) \in Nat
    BY <2>1, PricedBars
  <2>3. b # <<>>
    BY <2>1
  <2>. QED
    BY <2>1, <2>2, <2>3 DEF WeeksComplete
<1> DEFINE k == WeeksComplete(b)
           days(w) == ((w - 1) * WeekLen + 1)..(w * WeekLen)
           bar(w) == [open   |-> b[(w - 1) * WeekLen + 1].open,
                      high   |-> Max({b[i].high : i \in days(w)}),
                      low    |-> Min({b[i].low : i \in days(w)}),
                      close  |-> b[w * WeekLen].close,
                      volume |-> Unreported]
<1>2. k \in Nat
  BY <1>1, WeeksMonotone
<1>3. ASSUME NEW w \in 1..k PROVE bar(w) \in Bars /\ WellFormed(bar(w))
  <2> DEFINE first == (w - 1) * WeekLen + 1
             last  == w * WeekLen
  <2>1. WeekLen \in Nat \ {0}
    BY LevelsAssumption
  <2>2. first \in Nat /\ last \in Nat /\ 1 <= first /\ first <= last /\ last <= Len(b) - 1
    <3>1. w \in Nat /\ 1 <= w /\ w <= (Len(b) - 1) \div WeekLen
      BY <1>1, <1>2
    <3>2. /\ (w - 1) * WeekLen \in Nat /\ w * WeekLen \in Nat
          /\ w * WeekLen = (w - 1) * WeekLen + WeekLen
          /\ w * WeekLen <= Len(b) - 1
      BY <1>1, <3>1, WeekWithin
    <3>. QED
      BY <2>1, <3>2
  <2> DEFINE D == first..last
             highs == {b[i].high : i \in D}
             lows  == {b[i].low : i \in D}
             high  == [i \in D |-> b[i].high]
             low   == [i \in D |-> b[i].low]
             Wide(i) == /\ b[i].open \in Int /\ b[i].close \in Int
                        /\ Min(lows) <= b[i].open /\ b[i].open <= Max(highs)
                        /\ Min(lows) <= b[i].close /\ b[i].close <= Max(highs)
  <2>3. bar(w) = [open |-> b[first].open, high |-> Max(highs), low |-> Min(lows),
                  close |-> b[last].close, volume |-> Unreported]
    OBVIOUS
  <2> HIDE DEF first, last
  <2>4. IsFiniteSet(D) /\ D # {} /\ first \in D /\ last \in D /\ D \subseteq 1..Len(b)
    <3>1. first \in Int /\ last \in Int
      BY <2>2
    <3>2. IsFiniteSet(D)
      BY <3>1, FS_Interval
    <3>3. first \in D /\ last \in D /\ D \subseteq 1..Len(b)
      BY <1>1, <2>2
    <3>. QED
      BY <3>2, <3>3
  <2>5. \A i \in D : /\ b[i].high \in Int /\ b[i].low \in Int /\ b[i].open \in Int /\ b[i].close \in Int
                     /\ 0 < b[i].low /\ b[i].low <= b[i].high
                     /\ b[i].low <= b[i].open /\ b[i].open <= b[i].high
                     /\ b[i].low <= b[i].close /\ b[i].close <= b[i].high
    BY <1>1, <2>4, PricedBars
  <2>6. /\ \A i \in D : high[i] \in Int
        /\ \A i \in D : low[i] \in Int
        /\ \A x \in highs : \E i \in D : x = high[i]
        /\ \A i \in D : high[i] \in highs
        /\ \A x \in lows : \E i \in D : x = low[i]
        /\ \A i \in D : low[i] \in lows
    BY <2>5
  <2>7. /\ Max(highs) \in Int /\ (\A x \in highs : x <= Max(highs))
        /\ Min(lows) \in Int /\ Min(lows) \in lows /\ (\A x \in lows : Min(lows) <= x)
    <3> HIDE DEF D, highs, lows, high, low
    <3>1. Max(highs) \in Int /\ \A x \in highs : x <= Max(highs)
      BY <2>4, <2>6, MaxOfValues
    <3>2. Min(lows) \in Int /\ Min(lows) \in lows /\ \A x \in lows : Min(lows) <= x
      BY <2>4, <2>6, MaxOfValues
    <3>. QED
      BY <3>1, <3>2
  <2>8. /\ b[first].high \in highs /\ b[last].high \in highs
        /\ b[first].low \in lows /\ b[last].low \in lows
    BY <2>4
  <2>9. \A x \in lows : 0 < x
    BY <2>5
  <2> HIDE DEF D, highs, lows, high, low, bar
  <2>10. /\ b[first].open \in Int /\ b[last].close \in Int /\ 0 < Min(lows)
         /\ Min(lows) <= b[first].open /\ b[first].open <= Max(highs)
         /\ Min(lows) <= b[last].close /\ b[last].close <= Max(highs)
    <3>1. \A i \in D : b[i].high \in highs /\ b[i].low \in lows => Wide(i)
      BY <2>5, <2>7
    <3>2. Wide(first) /\ Wide(last)
      BY <2>4, <2>8, <3>1
    <3>3. 0 < Min(lows)
      BY <2>7, <2>9
    <3>. QED
      BY <3>2, <3>3
  <2>11. WellFormed(bar(w))
    BY <2>3, <2>10 DEF WellFormed
  <2>12. b[first].open \in Nat /\ b[last].close \in Nat /\ Max(highs) \in Nat /\ Min(lows) \in Nat
    BY <2>7, <2>10
  <2>13. Unreported \in Int
    BY DEF Unreported
  <2>. QED
    BY <2>3, <2>11, <2>12, <2>13 DEF Bars
<1> HIDE DEF bar
<1> DEFINE weekly == [w \in 1..k |-> bar(w)]
<1>4. ToWeekly(b) = weekly
  BY DEF ToWeekly, bar
<1>5. weekly \in [1..k -> Bars] /\ \A w \in 1..k : weekly[w] = bar(w)
  BY <1>3
<1> HIDE DEF weekly
<1>6. weekly \in Seq(Bars)
  BY <1>2, <1>5, SeqDef
<1>7. Len(weekly) = k
  <2>1. DOMAIN weekly = 1..k /\ DOMAIN weekly = 1..Len(weekly) /\ Len(weekly) \in Nat
    BY <1>5, <1>6, LenProperties
  <2>. QED
    BY <1>2, <2>1
<1>8. \A w \in 1..Len(weekly) : WellFormed(weekly[w])
  BY <1>3, <1>5, <1>7
<1>. QED
  BY <1>1, <1>2, <1>4, <1>6, <1>7, <1>8 DEF Priced

\* Bars of weeks that are over are the same when the days are.
LEMMA AgreeWeekly ==
  ASSUME NEW b, Printable(b), NEW c, Printable(c), NEW n, Agree(b, c, n), n < Len(b), n < Len(c)
  PROVE  /\ WeekOf(ToWeekly(b), n) = n \div WeekLen /\ WeekOf(ToWeekly(c), n) = n \div WeekLen
         /\ Agree(ToWeekly(b), ToWeekly(c), n \div WeekLen)
<1>1. n \in Nat /\ \A i \in 1..n : b[i] = c[i]
  BY DEF Agree
<1> DEFINE w == n \div WeekLen
<1>2. w \in Nat
  BY <1>1, WeeksMonotone
<1>3. ASSUME NEW x \in {b, c}
      PROVE  /\ Len(ToWeekly(x)) \in Nat /\ w <= Len(ToWeekly(x)) /\ WeekOf(ToWeekly(x), n) = w
             /\ Len(ToWeekly(x)) = WeeksComplete(x)
  <2>1. Len(x) \in Nat /\ Len(x) - 1 \in Nat /\ n <= Len(x) - 1 /\ Printable(x) /\ x # <<>>
    <3>1. Len(x) >= 2 /\ Priced(x) /\ n < Len(x) /\ Printable(x)
      BY DEF Printable, Priced
    <3>. QED
      BY <1>1, <3>1, PricedBars
  <2>2. Len(ToWeekly(x)) = (Len(x) - 1) \div WeekLen /\ (Len(x) - 1) \div WeekLen \in Nat
    BY <2>1, WeeklyPriced
  <2>3. w <= Len(ToWeekly(x))
    BY <1>1, <2>1, <2>2, WeeksMonotone
  <2> HIDE DEF w
  <2>4. Min({w, Len(ToWeekly(x))}) = w
    <3>1. \A y \in Nat : w <= y => Min({w, y}) = w
      BY <1>2, MinOfTwo
    <3>2. Len(ToWeekly(x)) \in Nat
      BY <2>2
    <3>. QED
      BY <2>3, <3>1, <3>2
  <2>. QED
    BY <2>1, <2>2, <2>3, <2>4 DEF WeekOf, WeeksComplete, w
<1>4. ASSUME NEW v \in 1..w PROVE ToWeekly(b)[v] = ToWeekly(c)[v]
  <2>1. v \in Nat /\ 1 <= v /\ v <= n \div WeekLen
    BY <1>2
  <2>2. /\ (v - 1) * WeekLen \in Nat /\ v * WeekLen \in Nat /\ WeekLen \in Nat \ {0}
        /\ v * WeekLen = (v - 1) * WeekLen + WeekLen /\ v * WeekLen <= n
    BY <1>1, <2>1, WeekWithin, LevelsAssumption
  <2> DEFINE first == (v - 1) * WeekLen + 1
             last  == v * WeekLen
  <2>3. first \in 1..n /\ last \in 1..n /\ \A i \in first..last : i \in 1..n
    BY <1>1, <2>2
  <2>4. b[first] = c[first] /\ b[last] = c[last] /\ \A i \in first..last : b[i] = c[i]
    BY <1>1, <2>3
  <2> HIDE DEF first, last
  <2>5. /\ {b[i].high : i \in first..last} = {c[i].high : i \in first..last}
        /\ {b[i].low : i \in first..last} = {c[i].low : i \in first..last}
    BY <2>4
  <2>6. v \in 1..WeeksComplete(b) /\ v \in 1..WeeksComplete(c)
    BY <1>2, <1>3
  <2>7. \A x \in {b, c} : v \in 1..WeeksComplete(x) =>
          ToWeekly(x)[v] = [open |-> x[first].open, high |-> Max({x[i].high : i \in first..last}),
                            low |-> Min({x[i].low : i \in first..last}), close |-> x[last].close,
                            volume |-> Unreported]
    BY DEF ToWeekly, first, last
  <2>. QED
    BY <2>4, <2>5, <2>6, <2>7
<1>. QED
  BY <1>2, <1>3, <1>4 DEF Agree

\* The whole reading as of a day that both series have closed is the same.
LEMMA AgreeContext ==
  ASSUME NEW b, Printable(b), NEW c, Printable(c), NEW n, Agree(b, c, n), 1 <= n, n < Len(b), n < Len(c)
  PROVE  BuildContext(b, n) = BuildContext(c, n)
<1>1. n \in Nat /\ Len(b) \in Nat /\ Len(c) \in Nat /\ b[n] = c[n]
  BY DEF Agree
<1>2. Min({n, Len(b)}) = n /\ Min({n, Len(c)}) = n
  <2>1. \A y \in Nat : n <= y => Min({n, y}) = n
    BY <1>1, MinOfTwo
  <2>. QED
    BY <1>1, <2>1
<1> DEFINE w == n \div WeekLen
<1>3. /\ WeekOf(ToWeekly(b), n) = w /\ WeekOf(ToWeekly(c), n) = w
      /\ Agree(ToWeekly(b), ToWeekly(c), w)
  BY AgreeWeekly
<1>4. Priced(b) /\ Priced(c) /\ Priced(ToWeekly(b)) /\ Priced(ToWeekly(c))
  BY WeeklyPriced DEF Printable, Priced
<1> HIDE DEF w
<1>5. /\ TrendState(ToWeekly(b), w) = TrendState(ToWeekly(c), w)
      /\ TrendState(b, n) = TrendState(c, n)
  BY <1>3, AgreeTrend
<1>6. DealingRange(ToWeekly(b), w, b[n].close) = DealingRange(ToWeekly(c), w, b[n].close)
  BY <1>3, AgreeRange
<1>7. /\ ZonesFrom(ToWeekly(b), "weekly", w) = ZonesFrom(ToWeekly(c), "weekly", w)
      /\ ZonesFrom(b, "daily", n) = ZonesFrom(c, "daily", n)
  BY <1>3, AgreeZones
<1>8. /\ GapsFrom(ToWeekly(b), "weekly", w) = GapsFrom(ToWeekly(c), "weekly", w)
      /\ GapsFrom(b, "daily", n) = GapsFrom(c, "daily", n)
  BY <1>3, <1>4, AgreeGaps
<1>9. PoolsFrom(ToWeekly(b), w) = PoolsFrom(ToWeekly(c), w) /\ PoolsFrom(b, n) = PoolsFrom(c, n)
  BY <1>3, <1>4, AgreePools
<1>10. AtrTotal(b, n) = AtrTotal(c, n)
  BY AgreeAtr
<1>. QED
  BY <1>1, <1>2, <1>3, <1>5, <1>6, <1>7, <1>8, <1>9, <1>10, Zenon DEF BuildContext

\* What a sitting read of the closed days reads the same ever after: their
\* structure, range, zones and levels do not depend on what the newest bar
\* became or on what came next (core.structure, core.dealing_range,
\* core.imbalance, core.liquidity, oracle.resample).
THEOREM NoReaderLooksAhead == Spec => []NeverRepaints
<1>1. Init => NeverRepaints
  BY DEF Init, NeverRepaints
<1>2. ASSUME StateInv, NeverRepaints, [Next]_vars PROVE NeverRepaints'
  <2>1. /\ Printable(bars) /\ Printable(bars') /\ Len(bars') >= Len(bars)
        /\ Len(bars) \in Nat /\ Len(bars') \in Nat /\ Len(bars) >= 2
        /\ bars' = bars \/ Agree(bars, bars', Len(bars) - 1)
    <3>1. StateInv' /\ (bars' = bars \/ Agree(bars, bars', Len(bars) - 1)) /\ Len(bars') >= Len(bars)
      BY <1>2, StateStep
    <3>2. Printable(bars) /\ Printable(bars')
      BY <1>2, <3>1 DEF StateInv
    <3>. QED
      BY <3>1, <3>2, LenProperties DEF Printable
  <2>2. ASSUME NEW s \in sitting, bars' # bars
        PROVE  BuildContext(bars', s.cached - 1) = s.closed
    <3> DEFINE n == s.cached - 1
    <3>1. s.cached \in Nat /\ 2 <= s.cached /\ s.cached <= Len(bars)
      BY <1>2 DEF StateInv
    <3>2. n \in Nat /\ 1 <= n /\ n < Len(bars) /\ n < Len(bars') /\ n <= Len(bars) - 1
      BY <2>1, <3>1
    <3>3. \A i \in 1..n : bars[i] = bars'[i]
      BY <2>1, <2>2, <3>2 DEF Agree
    <3> HIDE DEF n
    <3>4. Agree(bars, bars', n)
      BY <2>1, <3>2, <3>3 DEF Agree
    <3>5. BuildContext(bars, n) = BuildContext(bars', n)
      BY <2>1, <3>2, <3>4, AgreeContext
    <3>. QED
      BY <1>2, <3>5 DEF NeverRepaints, n
  <2>3. CASE sitting' = sitting
    <3>1. \A s \in sitting : BuildContext(bars', s.cached - 1) = s.closed
      BY <1>2, <2>2 DEF NeverRepaints
    <3>. QED
      BY <2>3, <3>1 DEF NeverRepaints
  <2>4. CASE Sit
    <3>1. bars' = bars /\ sitting' = {Reading}
      BY <2>4 DEF Sit
    <3>2. BuildContext(bars, Reading.cached - 1) = Reading.closed
      BY DEF Reading
    <3>. QED
      BY <3>1, <3>2 DEF NeverRepaints
  <2>5. sitting' = sitting \/ Sit
    BY <1>2 DEF Next, DayPasses, Refetch, Fetch, Approve, vars
  <2>. QED
    BY <2>3, <2>4, <2>5
<1>. QED
  BY <1>1, <1>2, StateAlways, PTL DEF Spec

-----------------------------------------------------------------------------
(* Pools.  The pass over the bars is a recursion; what holds of the pools   *)
(* alive after each bar is an invariant of it.                              *)

SwingsOf(b, kind) == IF kind = "bullish" THEN SwingHighs(b) ELSE SwingLows(b)

\* Swings of one side are told apart by their bar, and priced by it.
LEMMA SwingByBar ==
  ASSUME NEW b, Priced(b), NEW kind \in Kinds
  PROVE  /\ \A s \in SwingsOf(b, kind) :
              /\ s.at \in 1..Len(b) /\ s.at \in Nat /\ s.price = Reach(kind, b[s.at]) /\ s.price \in Int
              /\ s.confirmed = s.at + Width /\ s.confirmed \in Nat /\ s.confirmed <= Len(b)
         /\ \A s, t \in SwingsOf(b, kind) : s.at = t.at => s = t
<1>1. Len(b) \in Nat /\ \A i \in 1..Len(b) : b[i].high \in Int /\ b[i].low \in Int
  BY PricedBars
<1>2. ASSUME NEW s \in SwingsOf(b, kind)
      PROVE  /\ s.at \in 1..Len(b) /\ s.at \in Nat /\ s.price = Reach(kind, b[s.at]) /\ s.price \in Int
             /\ s.confirmed = s.at + Width /\ s.confirmed \in Nat /\ s.confirmed <= Len(b)
             /\ s = [at |-> s.at, price |-> s.price, confirmed |-> s.confirmed]
  <2>1. s \in Swings(b)
    BY DEF SwingsOf, Swings
  <2>2. s = [at |-> s.at, price |-> s.price, confirmed |-> s.confirmed]
    BY <1>2 DEF SwingsOf, SwingHighs, SwingLows
  <2>3. s.price = Reach(kind, b[s.at])
    BY <1>1, <2>1, SwingShape DEF SwingsOf, Reach, Kinds
  <2>. QED
    BY <1>1, <2>1, <2>2, <2>3, SwingShape DEF Reach
<1>3. ASSUME NEW s \in SwingsOf(b, kind), NEW t \in SwingsOf(b, kind), s.at = t.at PROVE s = t
  <2>1. s.price = t.price /\ s.confirmed = t.confirmed
    BY <1>2, <1>3
  <2>2. /\ s = [at |-> s.at, price |-> s.price, confirmed |-> s.confirmed]
        /\ t = [at |-> t.at, price |-> t.price, confirmed |-> t.confirmed]
    BY <1>2
  <2>. QED
    BY <1>3, <2>1, <2>2
<1>. QED
  BY <1>2, <1>3

\* The prices of a pool, and the bars of its swings, have a greatest and a least.
LEMMA PoolFacts ==
  ASSUME NEW b, Priced(b), NEW kind \in Kinds,
         NEW pool, pool \subseteq SwingsOf(b, kind), pool # {}
  PROVE  LET prices == {s.price : s \in pool}
             ats    == {s.at : s \in pool}
         IN /\ Max(prices) \in prices /\ Max(prices) \in Int /\ Min(prices) \in prices /\ Min(prices) \in Int
            /\ \A s \in pool : Min(prices) <= s.price /\ s.price <= Max(prices)
            /\ Max(ats) \in ats /\ Max(ats) \in Nat /\ Min(ats) \in ats /\ Min(ats) \in Nat
            /\ \A s \in pool : Min(ats) <= s.at /\ s.at <= Max(ats)
            /\ PoolPrice(kind, pool) \in prices /\ PoolPrice(kind, pool) \in Int
            /\ \A s \in pool : ~Beyond(kind, s.price, PoolPrice(kind, pool))
<1> DEFINE prices == {s.price : s \in pool}
           ats    == {s.at : s \in pool}
           reach  == [i \in ats |-> Reach(kind, b[i])]
           same   == [i \in ats |-> i]
<1>1. \A s \in pool : s.at \in 1..Len(b) /\ s.at \in Nat /\ s.price = Reach(kind, b[s.at]) /\ s.price \in Int
  BY SwingByBar
<1>2. Len(b) \in Nat
  BY PricedBars
<1>3. ats \subseteq 1..Len(b) /\ ats # {} /\ ats \subseteq Nat
  BY <1>1
<1>4. IsFiniteSet(ats)
  <2>1. IsFiniteSet(1..Len(b))
    BY <1>2, FS_Interval
  <2> HIDE DEF ats
  <2>. QED
    BY <1>3, <2>1, FS_Subset
<1>5. /\ \A i \in ats : reach[i] \in Int
      /\ \A x \in prices : \E i \in ats : x = reach[i]
      /\ \A i \in ats : reach[i] \in prices
  BY <1>1
<1>6. /\ \A i \in ats : same[i] \in Int
      /\ \A x \in ats : \E i \in ats : x = same[i]
      /\ \A i \in ats : same[i] \in ats
  <2> HIDE DEF ats
  <2>. QED
    BY <1>3
<1>7. \A s \in pool : s.at \in ats /\ s.price \in prices
  OBVIOUS
<1>8. PoolPrice(kind, pool) = IF kind = "bullish" THEN Max(prices) ELSE Min(prices)
  BY DEF PoolPrice, Furthest
<1> HIDE DEF prices, ats, reach, same
<1>9. /\ Max(prices) \in prices /\ Max(prices) \in Int /\ Min(prices) \in prices /\ Min(prices) \in Int
      /\ \A x \in prices : Min(prices) <= x /\ x <= Max(prices) /\ x \in Int
  BY <1>3, <1>4, <1>5, MaxOfValues
<1>10. /\ Max(ats) \in ats /\ Min(ats) \in ats /\ \A x \in ats : Min(ats) <= x /\ x <= Max(ats)
  BY <1>3, <1>4, <1>6, MaxOfValues
<1>11. /\ PoolPrice(kind, pool) \in prices /\ PoolPrice(kind, pool) \in Int
       /\ \A s \in pool : ~Beyond(kind, s.price, PoolPrice(kind, pool))
  BY <1>7, <1>8, <1>9 DEF Beyond
<1>12. /\ \A s \in pool : Min(prices) <= s.price /\ s.price <= Max(prices)
       /\ \A s \in pool : Min(ats) <= s.at /\ s.at <= Max(ats)
       /\ Max(ats) \in Nat /\ Min(ats) \in Nat
  BY <1>3, <1>7, <1>9, <1>10
<1>. QED
  BY <1>9, <1>10, <1>11, <1>12 DEF prices, ats

\* A smaller span is within whatever a larger one is within.
LEMMA WithinShrinks ==
  ASSUME NEW x \in Nat, NEW y \in Nat, x <= y, NEW total \in Nat, Within(y, total)
  PROVE  Within(x, total)
<1>1. AtrLookback \in Nat
  BY LevelsAssumption
<1>2. 4 * AtrLookback * y = 4 * AtrLookback * x + 4 * AtrLookback * (y - x)
      /\ 4 * AtrLookback * (y - x) \in Nat /\ 4 * AtrLookback * x \in Nat
  <2>1. y - x \in Nat
    OBVIOUS
  <2>2. y = x + (y - x)
    OBVIOUS
  <2>. QED
    BY <1>1, <2>1, <2>2
<1>. QED
  BY <1>1, <1>2 DEF Within

\* What holds of the pools alive after bar i: they are swings known by then,
\* told apart by their swings, each within the tolerance, none gone past since
\* its last swing; and every swing not gone past is in one.
Pooled(alive, i, b, known, kind, total) ==
  /\ \A p \in alive : p \subseteq known /\ p # {} /\ \A s \in p : s.at <= i
  /\ \A p, q \in alive : p \cap q # {} => p = q
  /\ \A p \in alive : \A s, t \in p : Within(Distance(s.price, t.price), total)
  /\ \A p \in alive : \A j \in 1..i :
       (\A s \in p : s.at < j) => ~Beyond(kind, Reach(kind, b[j]), PoolPrice(kind, p))
  /\ \A s \in known :
       s.at <= i /\ (\A j \in (s.at + 1)..i : ~Beyond(kind, Reach(kind, b[j]), s.price))
         => \E p \in alive : s \in p

\* Pools of some swings, told apart by them.
Apart(alive, swings) ==
  /\ \A p \in alive : p \subseteq swings /\ p # {}
  /\ \A p, q \in alive : p \cap q # {} => p = q

\* At most one of them, and one the swing is within the tolerance of.
OnePool(joined, alive, swing, total) ==
  /\ joined \subseteq alive
  /\ \A p, q \in joined : p = q
  /\ \A p \in joined : \A s, t \in p \cup {swing} : Within(Distance(s.price, t.price), total)

\* A swing that joins, joins one pool.
LEMMA JoinsOne ==
  ASSUME NEW b, Priced(b), NEW kind \in Kinds, NEW total \in Nat,
         NEW alive, Apart(alive, SwingsOf(b, kind)), NEW swing \in SwingsOf(b, kind)
  PROVE  OnePool(PoolToJoin(alive, swing, total), alive, swing, total)
<1> DEFINE prices(p) == {s.price : s \in p \cup {swing}}
           span(p) == Max(prices(p)) - Min(prices(p))
           near == {p \in alive : Within(span(p), total)}
           joined == PoolToJoin(alive, swing, total)
<1>1. joined = {p \in near : \A q \in near :
        span(p) < span(q) \/ (span(p) = span(q) /\ Formed(q) <= Formed(p))}
  BY DEF PoolToJoin
<1>0. /\ \A p \in alive : p \subseteq SwingsOf(b, kind) /\ p # {}
      /\ \A p, q \in alive : p \cap q # {} => p = q
  BY DEF Apart
<1>2. ASSUME NEW p \in alive
      PROVE  /\ span(p) \in Nat
             /\ \A s, t \in p \cup {swing} : Distance(s.price, t.price) \in Nat
                                             /\ Distance(s.price, t.price) <= span(p)
             /\ Formed(p) \in Nat /\ \E s \in p : s.at = Formed(p)
  <2> DEFINE pool == p \cup {swing}
  <2>1. pool \subseteq SwingsOf(b, kind) /\ pool # {} /\ p \subseteq SwingsOf(b, kind) /\ p # {}
    BY <1>0
  <2>2. /\ Max(prices(p)) \in Int /\ Min(prices(p)) \in Int
        /\ \A s \in pool : Min(prices(p)) <= s.price /\ s.price <= Max(prices(p))
    <3>1. LET found == {s.price : s \in pool}
          IN /\ Max(found) \in Int /\ Min(found) \in Int
             /\ \A s \in pool : Min(found) <= s.price /\ s.price <= Max(found)
      <4> HIDE DEF pool
      <4>. QED
        BY <2>1, PoolFacts
    <3>. QED
      BY <3>1
  <2>3. \A s \in pool : s.price \in Int
    BY <2>1, SwingByBar
  <2>4. Formed(p) \in {s.at : s \in p} /\ Formed(p) \in Nat
    BY <2>1, PoolFacts DEF Formed
  <2> HIDE DEF prices
  <2>5. span(p) \in Nat
    BY <2>2, <2>3
  <2>6. \A s, t \in pool : Distance(s.price, t.price) \in Nat /\ Distance(s.price, t.price) <= span(p)
    BY <2>2, <2>3 DEF Distance
  <2>. QED
    BY <2>4, <2>5, <2>6
<1> HIDE DEF span
<1>3. joined \subseteq near /\ near \subseteq alive
  BY <1>1
<1>4. ASSUME NEW p \in joined, NEW q \in joined PROVE p = q
  <2>1. p \in near /\ q \in near /\ p \in alive /\ q \in alive
    BY <1>3
  <2>2. /\ span(p) < span(q) \/ (span(p) = span(q) /\ Formed(q) <= Formed(p))
        /\ span(q) < span(p) \/ (span(q) = span(p) /\ Formed(p) <= Formed(q))
    BY <1>1, <2>1
  <2>3. span(p) \in Nat /\ span(q) \in Nat /\ Formed(p) \in Nat /\ Formed(q) \in Nat
    BY <1>2, <2>1
  <2>4. Formed(p) = Formed(q)
    BY <2>2, <2>3
  <2>5. PICK s \in p : s.at = Formed(p)
    BY <1>2, <2>1
  <2>6. PICK t \in q : t.at = Formed(q)
    BY <1>2, <2>1
  <2>7. s = t
    BY <1>0, <2>1, <2>4, <2>5, <2>6, SwingByBar
  <2>. QED
    BY <1>0, <2>1, <2>5, <2>6, <2>7
<1>5. ASSUME NEW p \in joined, NEW s \in p \cup {swing}, NEW t \in p \cup {swing}
      PROVE  Within(Distance(s.price, t.price), total)
  <2>1. p \in alive /\ Within(span(p), total)
    BY <1>3
  <2>. QED
    BY <1>2, <2>1, WithinShrinks
<1>. QED
  BY <1>3, <1>4, <1>5 DEF OnePool

\* A bar of the pass keeps it so.
LEMMA AfterBarKeeps ==
  ASSUME NEW b, Priced(b), NEW kind \in Kinds, NEW total \in Nat,
         NEW known, known \subseteq SwingsOf(b, kind),
         NEW i \in 1..Len(b), NEW alive, Pooled(alive, i - 1, b, known, kind, total)
  PROVE  Pooled(AfterBar(alive, kind, b[i], {s \in known : s.at = i}, total), i, b, known, kind, total)
<1> DEFINE here   == {s \in known : s.at = i}
           joined == UNION {PoolToJoin(alive, s, total) : s \in here}
           merged == {IF p \in joined THEN p \cup here ELSE p : p \in alive}
           after  == AfterBar(alive, kind, b[i], here, total)
           past(p) == Beyond(kind, Reach(kind, b[i]), PoolPrice(kind, p))
<1>1. Len(b) \in Nat /\ i \in Nat /\ 1 <= i /\ \A j \in 1..Len(b) : Reach(kind, b[j]) \in Int
  BY PricedBars DEF Reach
<1>2. \A s \in known : /\ s \in SwingsOf(b, kind) /\ s.at \in Nat /\ 1 <= s.at /\ s.at <= Len(b)
                       /\ s.price \in Int
  BY SwingByBar
<1>3. /\ \A p \in alive : p \subseteq known /\ p # {} /\ \A s \in p : s.at <= i - 1
      /\ \A p, q \in alive : p \cap q # {} => p = q
      /\ \A p \in alive : \A s, t \in p : Within(Distance(s.price, t.price), total)
      /\ \A p \in alive : \A j \in 1..(i - 1) :
           (\A s \in p : s.at < j) => ~Beyond(kind, Reach(kind, b[j]), PoolPrice(kind, p))
      /\ \A s \in known :
           s.at <= i - 1 /\ (\A j \in (s.at + 1)..(i - 1) : ~Beyond(kind, Reach(kind, b[j]), s.price))
             => \E p \in alive : s \in p
  BY DEF Pooled
<1>4. \A s, t \in here : s = t
  BY <1>2, SwingByBar
<1>5. /\ joined \subseteq alive /\ \A p, q \in joined : p = q
      /\ \A p \in joined : \A s, t \in p \cup here : Within(Distance(s.price, t.price), total)
  <2>1. CASE here = {}
    BY <2>1
  <2>2. CASE here # {}
    <3>1. PICK s \in here : here = {s} /\ s \in SwingsOf(b, kind)
      BY <1>2, <1>4, <2>2
    <3>2. joined = PoolToJoin(alive, s, total)
      BY <3>1
    <3>3. Apart(alive, SwingsOf(b, kind))
      BY <1>2, <1>3 DEF Apart
    <3>4. OnePool(PoolToJoin(alive, s, total), alive, s, total)
      BY <3>1, <3>3, JoinsOne
    <3>. QED
      BY <3>1, <3>2, <3>4 DEF OnePool
  <2>. QED
    BY <2>1, <2>2
<1>6. \A s \in here : s \in known /\ s.at = i
  OBVIOUS
<1>7. /\ after = {p \in merged : Stands(kind, b[i], here, p)}
                   \cup (IF here # {} /\ joined = {} THEN {here} ELSE {})
      /\ \A p : Stands(kind, b[i], here, p) <=> (here # {} /\ here \subseteq p) \/ ~past(p)
  BY Zenon DEF AfterBar, Stands
<1>8. here # {} => joined = {} \/ \E p \in joined : joined = {p}
  BY <1>5
<1> HIDE DEF here, joined
<1>9. \A p \in merged : \E q \in alive : p = q \/ (q \in joined /\ p = q \cup here)
  OBVIOUS
<1>10. \A q \in alive : IF q \in joined THEN q \cup here \in merged ELSE q \in merged
  OBVIOUS
<1> HIDE DEF merged, past
<1> DEFINE Old(p) == p \in alive /\ p \notin joined /\ ((here # {} /\ here \subseteq p) \/ ~past(p))
           Joint(p) == \E q \in joined : p = q \cup here
           New(p) == here # {} /\ joined = {} /\ p = here
<1>11. ASSUME NEW p \in after PROVE Old(p) \/ Joint(p) \/ New(p)
  <2>1. CASE p \in merged /\ Stands(kind, b[i], here, p)
    <3>1. ((here # {} /\ here \subseteq p) \/ ~past(p)) /\ p \in merged
      BY <1>7, <2>1
    <3>2. (p \in alive /\ p \notin joined) \/ Joint(p)
      BY <3>1 DEF merged
    <3>. QED
      BY <3>1, <3>2
  <2>2. CASE p \in (IF here # {} /\ joined = {} THEN {here} ELSE {})
    BY <2>2
  <2>. QED
    BY <1>7, <2>1, <2>2
<1>12. ASSUME NEW p \in alive PROVE ~(here # {} /\ here \subseteq p)
  BY <1>1, <1>3, <1>6
<1>13. ASSUME NEW q \in joined, here # {} PROVE q \cup here \in after
  BY <1>5, <1>7, <1>10, <1>13
<1>14. joined # {} => here # {}
  BY DEF joined
<1> HIDE DEF after
<1>15. \A p \in after : p \subseteq known /\ p # {} /\ \A s \in p : s.at <= i
  <2>1. ASSUME NEW p, Old(p) PROVE p \subseteq known /\ p # {} /\ \A s \in p : s.at <= i
    BY <1>1, <1>2, <1>3, <2>1
  <2>2. ASSUME NEW p, Joint(p) PROVE p \subseteq known /\ p # {} /\ \A s \in p : s.at <= i
    BY <1>1, <1>2, <1>3, <1>5, <1>6, <2>2
  <2>3. ASSUME NEW p, New(p) PROVE p \subseteq known /\ p # {} /\ \A s \in p : s.at <= i
    BY <1>1, <1>6, <2>3
  <2> HIDE DEF Old, Joint, New
  <2>. QED
    BY <1>11, <2>1, <2>2, <2>3
<1>16. ASSUME NEW p \in after, NEW q \in after, p \cap q # {} PROVE p = q
  <2>1. \A r \in alive : r \cap here = {}
    BY <1>1, <1>2, <1>3, <1>6
  <2>2. CASE Old(p)
    <3>1. CASE Old(q)
      BY <1>3, <1>16, <2>2, <3>1
    <3>2. CASE Joint(q)
      <4>1. PICK r \in joined : q = r \cup here
        BY <3>2
      <4>2. p \cap r # {}
        BY <1>16, <2>1, <2>2, <4>1
      <4>. QED
        BY <1>3, <1>5, <2>2, <4>1, <4>2
    <3>3. CASE New(q)
      BY <1>16, <2>1, <2>2, <3>3
    <3> HIDE DEF Old, Joint, New
    <3>. QED
      BY <1>11, <3>1, <3>2, <3>3
  <2>3. CASE Joint(p)
    <3>1. PICK r \in joined : p = r \cup here
      BY <2>3
    <3>2. CASE Old(q)
      <4>1. q \cap r # {}
        BY <1>16, <2>1, <3>1, <3>2
      <4>. QED
        BY <1>3, <1>5, <3>1, <3>2, <4>1
    <3>3. CASE Joint(q)
      BY <1>5, <3>1, <3>3
    <3>4. CASE New(q)
      BY <3>1, <3>4
    <3> HIDE DEF Old, Joint, New
    <3>. QED
      BY <1>11, <3>2, <3>3, <3>4
  <2>4. CASE New(p)
    <3>1. CASE Old(q)
      BY <1>16, <2>1, <2>4, <3>1
    <3>2. CASE Joint(q)
      BY <2>4, <3>2
    <3>3. CASE New(q)
      BY <2>4, <3>3
    <3> HIDE DEF Old, Joint, New
    <3>. QED
      BY <1>11, <3>1, <3>2, <3>3
  <2> HIDE DEF Old, Joint, New
  <2>. QED
    BY <1>11, <2>2, <2>3, <2>4
<1>17. ASSUME NEW p \in after, NEW s \in p, NEW t \in p PROVE Within(Distance(s.price, t.price), total)
  <2>1. CASE Old(p)
    BY <1>3, <2>1
  <2>2. CASE Joint(p)
    BY <1>5, <2>2
  <2>3. CASE New(p)
    <3>1. s = t /\ s.price \in Int
      BY <1>2, <1>4, <1>6, <2>3
    <3>2. AtrLookback \in Nat /\ Distance(s.price, t.price) = 0
      BY <3>1, LevelsAssumption DEF Distance
    <3>. QED
      BY <3>2 DEF Within
  <2> HIDE DEF Old, Joint, New
  <2>. QED
    BY <1>11, <2>1, <2>2, <2>3
<1>18. ASSUME NEW p \in after, NEW j \in 1..i, \A s \in p : s.at < j
       PROVE  ~Beyond(kind, Reach(kind, b[j]), PoolPrice(kind, p))
  <2>1. CASE Old(p)
    <3>1. CASE j = i
      BY <1>12, <2>1, <3>1 DEF past
    <3>2. CASE j # i
      BY <1>1, <1>3, <1>18, <2>1, <3>2
    <3>. QED
      BY <3>1, <3>2
  <2>2. CASE Joint(p) \/ New(p)
    <3>1. \E s \in p : s.at = i
      BY <1>6, <1>14, <2>2
    <3>. QED
      BY <1>1, <1>18, <3>1
  <2> HIDE DEF Old, Joint, New
  <2>. QED
    BY <1>11, <2>1, <2>2
<1>19. ASSUME NEW s \in known, s.at <= i,
              \A j \in (s.at + 1)..i : ~Beyond(kind, Reach(kind, b[j]), s.price)
       PROVE  \E p \in after : s \in p
  <2>1. CASE s.at = i
    <3>1. s \in here
      BY <2>1 DEF here
    <3>2. CASE joined = {}
      BY <1>7, <3>1, <3>2
    <3>3. CASE joined # {}
      BY <1>13, <3>1, <3>3
    <3>. QED
      BY <3>2, <3>3
  <2>2. CASE s.at # i
    <3>1. s.at <= i - 1 /\ i \in (s.at + 1)..i /\ \A j \in (s.at + 1)..(i - 1) : j \in (s.at + 1)..i
      BY <1>1, <1>2, <1>19, <2>2
    <3>2. PICK p \in alive : s \in p
      BY <1>3, <1>19, <3>1
    <3>3. CASE p \in joined
      BY <1>13, <1>14, <3>2, <3>3
    <3>4. CASE p \notin joined
      <4>1. ~Beyond(kind, Reach(kind, b[i]), s.price)
        BY <1>19, <3>1
      <4>2. p \subseteq SwingsOf(b, kind) /\ p # {}
        BY <1>2, <1>3
      <4>3. PoolPrice(kind, p) \in Int /\ ~Beyond(kind, s.price, PoolPrice(kind, p))
        BY <3>2, <4>2, PoolFacts
      <4>4. Reach(kind, b[i]) \in Int /\ s.price \in Int
        BY <1>1, <1>2
      <4>5. ~past(p)
        BY <4>1, <4>3, <4>4 DEF past, Beyond
      <4>6. p \in after
        BY <1>7, <1>10, <3>4, <4>5
      <4>. QED
        BY <3>2, <4>6
    <3>. QED
      BY <3>3, <3>4
  <2>. QED
    BY <2>1, <2>2
<1>20. Pooled(after, i, b, known, kind, total)
  BY <1>15, <1>16, <1>17, <1>18, <1>19 DEF Pooled
<1>. QED
  BY <1>20 DEF after, here

\* The pass is what the recursion says: nothing before the first bar, and a bar
\* at a time after that.
BarStep(g, i, b, known, kind, total) ==
  IF i = 0 THEN {} ELSE AfterBar(g[i - 1], kind, b[i], {s \in known : s.at = i}, total)

\* The sweep is a function on the days, each value made from the one before:
LEMMA SweepExists ==
  ASSUME NEW b, Len(b) \in Nat, NEW known, NEW kind, NEW total
  PROVE  \E g : g = [i \in 0..Len(b) |-> BarStep(g, i, b, known, kind, total)]
<1> DEFINE Bars0 == 0..Len(b)
           Step(g, i) == BarStep(g, i, b, known, kind, total)
           Reaches(g, n) == /\ g = [i \in Bars0 |-> g[i]]
                            /\ \A i \in Bars0 : i <= n => g[i] = Step(g, i)
           Bad == {n \in Nat : ~\E g : Reaches(g, n)}
<1>1. ASSUME NEW g, NEW h, NEW i \in Bars0, i # 0 => g[i - 1] = h[i - 1]
      PROVE  Step(g, i) = Step(h, i)
  BY <1>1 DEF BarStep
<1>2. ASSUME Bad # {} PROVE FALSE
  <2>1. Bad \in SUBSET Nat
    OBVIOUS
  <2>2. PICK n \in Bad : \A m \in Bad : n <= m
    <3> HIDE DEF Bad
    <3>. QED
      BY <1>2, <2>1, LeastExists
  <2>3. n \in Nat /\ ~\E g : Reaches(g, n)
    OBVIOUS
  <2>4. CASE n = 0
    <3> DEFINE g == [i \in Bars0 |-> {}]
    <3>1. \A i \in Bars0 : i <= n => Step(g, i) = {}
      BY <2>4 DEF BarStep
    <3>2. g = [i \in Bars0 |-> g[i]] /\ \A i \in Bars0 : g[i] = {}
      OBVIOUS
    <3>3. Reaches(g, n)
      <4> HIDE DEF g, Step
      <4>. QED
        BY <3>1, <3>2
    <3>. QED
      BY <2>3, <3>3
  <2>5. CASE n # 0
    <3>1. n - 1 \in Nat /\ n - 1 \notin Bad
      <4>1. n - 1 \in Nat /\ ~(n <= n - 1)
        BY <2>3, <2>5
      <4> HIDE DEF Bad
      <4>. QED
        BY <2>2, <4>1
    <3>2. PICK g : Reaches(g, n - 1)
      BY <3>1
    <3> DEFINE h == [i \in Bars0 |-> IF i = n THEN Step(g, n) ELSE g[i]]
    <3> HIDE DEF Step
    <3>3. h = [i \in Bars0 |-> h[i]] /\ \A i \in Bars0 : h[i] = IF i = n THEN Step(g, n) ELSE g[i]
      OBVIOUS
    <3> HIDE DEF h
    <3>4. ASSUME NEW i \in Bars0, i <= n PROVE h[i] = Step(h, i)
      <4>1. i # 0 => i - 1 \in Bars0 /\ i - 1 # n
        BY <2>3, <3>4
      <4>2. i # 0 => g[i - 1] = h[i - 1]
        BY <3>3, <4>1
      <4>3. Step(g, i) = Step(h, i)
        BY <1>1, <4>2
      <4>4. CASE i = n
        BY <3>3, <4>3, <4>4
      <4>5. CASE i # n
        <5>1. i <= n - 1 /\ h[i] = g[i]
          BY <2>3, <3>3, <3>4, <4>5
        <5>. QED
          BY <3>2, <4>3, <5>1
      <4>. QED
        BY <4>4, <4>5
    <3>5. Reaches(h, n)
      BY <3>3, <3>4
    <3>. QED
      BY <2>3, <3>5
  <2>. QED
    BY <2>4, <2>5
<1>3. PICK g : Reaches(g, Len(b))
  BY <1>2
<1>4. \A i \in Bars0 : g[i] = Step(g, i)
  BY <1>3
<1>5. [i \in Bars0 |-> g[i]] = [i \in Bars0 |-> Step(g, i)]
  <2> HIDE DEF Step, Bars0
  <2>. QED
    BY <1>4
<1>6. g = [i \in Bars0 |-> Step(g, i)]
  <2> HIDE DEF Step
  <2>. QED
    BY <1>3, <1>5
<1>. QED
  BY <1>6

PassOf(alive, b, known, kind, total) ==
  /\ alive[0] = {}
  /\ \A i \in 1..Len(b) :
       alive[i] = AfterBar(alive[i - 1], kind, b[i], {s \in known : s.at = i}, total)

\* and its last value is what the sweep leaves alive.
LEMMA SweepSteps ==
  ASSUME NEW b, Len(b) \in Nat, NEW known, NEW kind, NEW total
  PROVE  \E alive : /\ PassOf(alive, b, known, kind, total)
                    /\ Sweep(b, known, kind, total) = alive[Len(b)]
<1> DEFINE Run(g) == g = [i \in 0..Len(b) |-> BarStep(g, i, b, known, kind, total)]
           alive == CHOOSE g : Run(g)
<1>1. Run(alive)
  <2>1. \E g : Run(g)
    BY SweepExists
  <2> HIDE DEF Run
  <2>. QED
    BY <2>1
<1>2. Sweep(b, known, kind, total) = alive[Len(b)]
  BY Zenon DEF Sweep, BarStep
<1> HIDE DEF alive
<1>3. \A i \in 0..Len(b) : alive[i] = BarStep(alive, i, b, known, kind, total)
  BY <1>1
<1>4. alive[0] = {}
  <2>1. 0 \in 0..Len(b)
    OBVIOUS
  <2>. QED
    BY <1>3, <2>1 DEF BarStep
<1>5. ASSUME NEW i \in 1..Len(b)
      PROVE  alive[i] = AfterBar(alive[i - 1], kind, b[i], {s \in known : s.at = i}, total)
  <2>1. i \in 0..Len(b) /\ i # 0
    OBVIOUS
  <2>. QED
    BY <1>3, <2>1 DEF BarStep
<1>. QED
  BY <1>2, <1>4, <1>5 DEF PassOf

\* After the last bar.
LEMMA SweepPooled ==
  ASSUME NEW b, Priced(b), NEW kind \in Kinds, NEW total \in Nat,
         NEW n \in Nat, n <= Len(b),
         NEW known, known \subseteq SwingsOf(b, kind)
  PROVE  Pooled(Sweep(SubSeq(b, 1, n), known, kind, total), n, b, known, kind, total)
<1> DEFINE x == SubSeq(b, 1, n)
<1>1. Len(x) = n /\ \A i \in 1..n : x[i] = b[i]
  BY Prefix
<1>2. Len(b) \in Nat
  BY PricedBars
<1> HIDE DEF x
<1>3. Len(x) \in Nat
  BY <1>1
<1>4. PICK alive : /\ PassOf(alive, x, known, kind, total)
                   /\ Sweep(x, known, kind, total) = alive[Len(x)]
  BY <1>3, SweepSteps
<1> DEFINE Holds(i) == Pooled(alive[i], i, b, known, kind, total)
           Bad == {i \in Nat : i <= n /\ ~Holds(i)}
<1>5. Holds(0)
  <2>1. \A s \in known : s.at \in Nat /\ 1 <= s.at
    BY SwingByBar
  <2>. QED
    BY <1>4, <2>1 DEF Pooled, PassOf
<1>6. ASSUME NEW i \in Nat, i + 1 <= n, Holds(i) PROVE Holds(i + 1)
  <2>1. i + 1 \in 1..n /\ i + 1 \in 1..Len(b) /\ i + 1 \in 1..Len(x) /\ (i + 1) - 1 = i
    BY <1>1, <1>2, <1>6
  <2>2. alive[i + 1] = AfterBar(alive[i], kind, b[i + 1], {s \in known : s.at = i + 1}, total)
    BY <1>1, <1>4, <2>1 DEF PassOf
  <2>3. Pooled(alive[i], (i + 1) - 1, b, known, kind, total)
    BY <1>6, <2>1
  <2>. QED
    BY <2>1, <2>2, <2>3, AfterBarKeeps
<1> HIDE DEF Holds
<1>7. ASSUME Bad # {} PROVE FALSE
  <2>1. Bad \in SUBSET Nat
    OBVIOUS
  <2>2. PICK m \in Bad : \A k \in Bad : m <= k
    <3> HIDE DEF Bad
    <3>. QED
      BY <1>7, <2>1, LeastExists
  <2>3. m \in Nat /\ m <= n /\ ~Holds(m) /\ m # 0
    BY <1>5
  <2>4. m - 1 \in Nat /\ m - 1 <= n /\ ~(m <= m - 1)
    BY <2>3
  <2>5. m - 1 \notin Bad
    <3> HIDE DEF Bad
    <3>. QED
      BY <2>2, <2>4
  <2>6. Holds(m - 1) /\ (m - 1) + 1 = m
    BY <2>3, <2>4, <2>5
  <2>7. Holds((m - 1) + 1)
    BY <1>6, <2>3, <2>4, <2>6
  <2>. QED
    BY <2>3, <2>6, <2>7
<1>8. Holds(n)
  BY <1>7
<1>. QED
  BY <1>1, <1>4, <1>8 DEF Holds, x

\* True ranges are numbers, and so is their total.
LEMMA AtrTyped ==
  ASSUME NEW b, Priced(b), NEW n \in Nat, n <= Len(b)
  PROVE  AtrTotal(b, n) \in SUBSET Nat /\ \A x, y \in AtrTotal(b, n) : x = y
<1>1. AtrLookback \in Nat \ {0} /\ Len(b) \in Nat
  BY LevelsAssumption, PricedBars
<1> DEFINE window == (n - AtrLookback + 1)..n
           range  == [k \in window |-> TrueRange(b, k)]
<1>2. CASE n < AtrLookback
  BY <1>2 DEF AtrTotal
<1>3. CASE ~(n < AtrLookback)
  <2>1. IsFiniteSet(window)
    BY <1>1, FS_Interval
  <2>2. ASSUME NEW k \in window PROVE TrueRange(b, k) \in Nat
    <3>1. k \in 1..Len(b) /\ \A j \in {k - 1} \ {0} : j \in 1..Len(b)
      BY <1>1, <1>3
    <3> DEFINE gaps == {Distance(x, b[j].close) : x \in {b[k].high, b[k].low}, j \in {k - 1} \ {0}}
               body == b[k].high - b[k].low
               all  == {body} \cup gaps
    <3>2. body \in Nat /\ \A j \in {k - 1} \ {0} : b[j].close \in Int /\ b[k].high \in Int /\ b[k].low \in Int
      BY <3>1, PricedBars
    <3>3. gaps \in SUBSET Nat
      <4>1. \A x, y \in Int : Distance(x, y) \in Nat
        BY DEF Distance
      <4>2. \A x \in {b[k].high, b[k].low} : \A j \in {k - 1} \ {0} : Distance(x, b[j].close) \in Nat
        BY <3>2, <4>1
      <4>. QED
        BY <4>2
    <3>4. IsFiniteSet(gaps)
      <4>1. gaps \subseteq {Distance(b[k].high, b[k - 1].close), Distance(b[k].low, b[k - 1].close)}
        OBVIOUS
      <4>2. IsFiniteSet({Distance(b[k].high, b[k - 1].close)} \cup {Distance(b[k].low, b[k - 1].close)})
        BY FS_Singleton, FS_Union
      <4>3. gaps \subseteq {Distance(b[k].high, b[k - 1].close)} \cup {Distance(b[k].low, b[k - 1].close)}
        BY <4>1
      <4> HIDE DEF gaps
      <4>. QED
        BY <4>2, <4>3, FS_Subset
    <3> HIDE DEF gaps
    <3>5. IsFiniteSet(all) /\ all # {} /\ all \in SUBSET Nat
      BY <3>2, <3>3, <3>4, FS_Singleton, FS_Union
    <3> DEFINE same == [x \in all |-> x]
    <3> HIDE DEF all
    <3>6. /\ \A x \in all : same[x] \in Int
          /\ \A x \in all : \E y \in all : x = same[y]
          /\ \A x \in all : same[x] \in all
      BY <3>5
    <3> HIDE DEF same
    <3>7. Max(all) \in all
      BY <3>5, <3>6, MaxOfValues
    <3>8. Max(all) \in Nat
      BY <3>5, <3>7
    <3>. QED
      BY <3>8 DEF TrueRange, all, gaps
  <2>3. \A k \in window : range[k] \in Nat
    BY <2>2
  <2> HIDE DEF window, range
  <2>4. SumFunctionOnSet(range, window) \in Nat
    BY <2>1, <2>3, SumProperties
  <2>. QED
    BY <1>3, <2>4 DEF AtrTotal, window, range
<1>. QED
  BY <1>2, <1>3

\* A pool is liquidity nobody has taken: price has not gone past it since its
\* last swing, its swings lie within the tolerance of one another, and every
\* confirmed swing price has not gone past is in exactly one pool
\* (core.liquidity, one forward pass against what a pool is).
THEOREM OnlyUntakenLiquidity == Spec => []PoolsAreUntaken
<1>1. ASSUME StateInv PROVE PoolsAreUntaken
  <2> DEFINE n == Len(bars)
  <2>1. Priced(bars) /\ n \in Nat /\ n <= Len(bars)
    <3>1. Priced(bars)
      BY <1>1 DEF StateInv, Printable, Priced
    <3>. QED
      BY <3>1, PricedBars
  <2>2. SUFFICES ASSUME NEW kind \in Kinds, NEW total \in AtrTotal(bars, n)
        PROVE  LET pools == Pools(bars, kind, total, n)
                   found == ConfirmedBy(IF kind = "bullish" THEN SwingHighs(bars) ELSE SwingLows(bars), n)
                   taken(price, at) == \E i \in (at + 1)..n : Beyond(kind, Reach(kind, bars[i]), price)
               IN /\ \A p \in pools :
                       /\ ~taken(p.price, Max({s.at : s \in p.members}))
                       /\ \A s, t \in p.members : Within(Distance(s.price, t.price), total)
                  /\ \A s \in found : ~taken(s.price, s.at) =>
                       Cardinality({p \in pools : s \in p.members}) = 1
    BY Zenon DEF PoolsAreUntaken
  <2> DEFINE pools == Pools(bars, kind, total, n)
             known == ConfirmedBy(SwingsOf(bars, kind), n)
             alive == Sweep(SubSeq(bars, 1, n), known, kind, total)
             pool(p) == [kind |-> kind, price |-> PoolPrice(kind, p), members |-> p]
             taken(price, at) == \E i \in (at + 1)..n : Beyond(kind, Reach(kind, bars[i]), price)
  <2>3. total \in Nat
    BY <2>1, AtrTyped
  <2>4. known \subseteq SwingsOf(bars, kind)
    BY DEF ConfirmedBy
  <2>5. pools = {pool(p) : p \in alive}
    BY DEF Pools, SwingsOf
  <2> HIDE DEF n, known
  <2>6. Pooled(alive, n, bars, known, kind, total)
    <3>1. n = Len(bars)
      BY DEF n
    <3>. QED
      BY <2>1, <2>3, <2>4, SweepPooled
  <2> HIDE DEF alive, pools
  <2>7. /\ \A p \in alive : p \subseteq known /\ p # {} /\ \A s \in p : s.at <= n
        /\ \A p, q \in alive : p \cap q # {} => p = q
        /\ \A p \in alive : \A s, t \in p : Within(Distance(s.price, t.price), total)
        /\ \A p \in alive : \A j \in 1..n :
             (\A s \in p : s.at < j) => ~Beyond(kind, Reach(kind, bars[j]), PoolPrice(kind, p))
        /\ \A s \in known :
             s.at <= n /\ (\A j \in (s.at + 1)..n : ~Beyond(kind, Reach(kind, bars[j]), s.price))
               => \E p \in alive : s \in p
    BY <2>6 DEF Pooled
  <2>8. \A s \in known : s.at \in Nat /\ s.at <= n
    BY <2>1, <2>4, SwingByBar DEF n
  <2>9. ASSUME NEW p \in alive PROVE ~taken(PoolPrice(kind, p), Max({s.at : s \in p}))
    <3> DEFINE last == Max({s.at : s \in p})
    <3>1. p \subseteq SwingsOf(bars, kind) /\ p # {}
      BY <2>4, <2>7
    <3>2. last \in Nat /\ \A s \in p : s.at <= last /\ s.at \in Nat
      BY <2>1, <2>7, <2>8, <3>1, PoolFacts
    <3> HIDE DEF last
    <3>3. ASSUME NEW j \in (last + 1)..n PROVE ~Beyond(kind, Reach(kind, bars[j]), PoolPrice(kind, p))
      <4>1. j \in 1..n /\ \A s \in p : s.at < j
        BY <2>1, <3>2 DEF n
      <4>. QED
        BY <2>7, <4>1
    <3>. QED
      BY <3>3 DEF last
  <2>10. ASSUME NEW s \in known, ~taken(s.price, s.at)
         PROVE  Cardinality({p \in pools : s \in p.members}) = 1
    <3>1. PICK p \in alive : s \in p
      BY <2>7, <2>8, <2>10
    <3>2. \A q \in alive : s \in q => q = p
      BY <2>7, <3>1
    <3>3. {q \in pools : s \in q.members} = {pool(p)}
      <4>1. pool(p) \in pools /\ pool(p).members = p
        BY <2>5, <3>1
      <4>2. ASSUME NEW q \in pools, s \in q.members PROVE q = pool(p)
        <5>1. PICK r \in alive : q = pool(r)
          BY <2>5
        <5>2. r = p
          BY <3>2, <4>2, <5>1
        <5>. QED
          BY <5>1, <5>2
      <4> HIDE DEF pool
      <4>. QED
        BY <3>1, <4>1, <4>2
    <3>. QED
      BY <3>3, FS_Singleton
  <2>11. ASSUME NEW p \in pools
         PROVE  /\ ~taken(p.price, Max({s.at : s \in p.members}))
                /\ \A s, t \in p.members : Within(Distance(s.price, t.price), total)
    <3>1. PICK q \in alive : p = pool(q)
      BY <2>5
    <3>2. p.price = PoolPrice(kind, q) /\ p.members = q
      BY <3>1
    <3>. QED
      BY <2>7, <2>9, <3>2
  <2>. QED
    BY <2>10, <2>11 DEF known, pools, n, SwingsOf
<1>. QED
  BY <1>1, StateAlways, PTL

-----------------------------------------------------------------------------
(* What a reading of well formed bars is made of.                           *)

\* A swing's price is a price.
LEMMA SwingPriced ==
  ASSUME NEW b, Priced(b), NEW s \in Swings(b)
  PROVE  s.price \in Int /\ s.at \in Nat /\ s.confirmed \in Nat /\ s.confirmed <= Len(b)
<1>1. Len(b) \in Nat /\ \A i \in 1..Len(b) : b[i].high \in Int /\ b[i].low \in Int
  BY PricedBars
<1>. QED
  BY <1>1, SwingShape DEF Swings

\* A block is a bar that is not flat, and its extreme is a price.
ZoneTyped(z) ==
  /\ z.block.kind \in Kinds
  /\ z.block.bottom \in Int /\ z.block.top \in Int /\ z.block.bottom < z.block.top
  /\ z.extreme \in Int

\* Every zone has a kind, two edges in order, and an extreme.
LEMMA ZonesTyped ==
  ASSUME NEW b, Priced(b), NEW n \in Nat, n <= Len(b), NEW timeframe, NEW z \in ZonesFrom(b, timeframe, n)
  PROVE  ZoneTyped(z) /\ z.timeframe = timeframe
<1>1. Len(b) \in Nat /\ \A i \in 1..Len(b) :
        /\ b[i].open \in Int /\ b[i].high \in Int /\ b[i].low \in Int /\ b[i].close \in Int
        /\ b[i].low <= b[i].open /\ b[i].open <= b[i].high
        /\ b[i].low <= b[i].close /\ b[i].close <= b[i].high
  BY PricedBars
<1>2. PICK block \in OrderBlocks(b, n) :
        z = [block |-> block, extreme |-> ExtremeSince(b, block, n), timeframe |-> timeframe]
  BY DEF ZonesFrom, LiveBlocks
<1>3. PICK x \in AllBreaks(b) :
        /\ BlockBars(b, x) # {} /\ block = BlockFor(b, x)
        /\ block.bos = x.at /\ x.at \in 1..Len(b) /\ x.at <= n
  BY <1>1, BlockOf
<1>4. /\ block.kind \in Kinds /\ block.at \in 1..Len(b)
      /\ Beyond(block.kind, b[block.at].open, b[block.at].close)
      /\ block.top = b[block.at].high /\ block.bottom = b[block.at].low
  BY <1>1, <1>3, BlockShape, BreakShape
<1>5. block.bottom \in Int /\ block.top \in Int /\ block.bottom < block.top
  BY <1>1, <1>4 DEF Beyond
<1>6. ExtremeSince(b, block, n) \in Int
  <2> DEFINE D == block.bos..n
             f == [i \in D |-> IF block.kind = "bullish" THEN b[i].high ELSE b[i].low]
             reach == {IF block.kind = "bullish" THEN b[i].high ELSE b[i].low : i \in D}
  <2>1. D # {} /\ IsFiniteSet(D) /\ D \subseteq 1..Len(b)
    <3>1. block.bos \in Int /\ n \in Int /\ block.bos <= n /\ 1 <= block.bos
      BY <1>1, <1>3
    <3>2. IsFiniteSet(D)
      BY <3>1, FS_Interval
    <3>3. block.bos \in D /\ D \subseteq 1..Len(b)
      BY <1>1, <3>1
    <3>. QED
      BY <3>2, <3>3
  <2>2. /\ \A i \in D : f[i] \in Int
        /\ \A x_ \in reach : \E i \in D : x_ = f[i]
        /\ \A i \in D : f[i] \in reach
    BY <1>1, <2>1
  <2>3. ExtremeSince(b, block, n) = CHOOSE y \in reach : \A v \in reach : ~Beyond(block.kind, v, y)
    BY DEF ExtremeSince
  <2> HIDE DEF D, f, reach
  <2>4. /\ Max(reach) \in reach /\ Min(reach) \in reach
        /\ \A y \in reach : y \in Int /\ Min(reach) <= y /\ y <= Max(reach)
    BY <2>1, <2>2, MaxOfValues
  <2>5. \E y \in reach : \A v \in reach : ~Beyond(block.kind, v, y)
    <3>1. CASE block.kind = "bullish"
      <4>1. \A v \in reach : ~Beyond(block.kind, v, Max(reach))
        BY <2>4, <3>1 DEF Beyond
      <4>. QED
        BY <2>4, <4>1
    <3>2. CASE block.kind # "bullish"
      <4>1. \A v \in reach : ~Beyond(block.kind, v, Min(reach))
        BY <2>4, <3>2 DEF Beyond
      <4>. QED
        BY <2>4, <4>1
    <3>. QED
      BY <3>1, <3>2
  <2>. QED
    BY <2>3, <2>4, <2>5
<1>. QED
  BY <1>2, <1>4, <1>5, <1>6 DEF ZoneTyped

\* The range is one range, and not empty.
LEMMA RangeTyped ==
  ASSUME NEW b, Priced(b), NEW n \in Nat, n <= Len(b), NEW price
  PROVE  /\ \A r, q \in DealingRange(b, n, price) : r = q
         /\ \A r \in DealingRange(b, n, price) : r.low \in Int /\ r.high \in Int /\ r.low < r.high
<1> DEFINE Fine(R) == /\ \A r, q \in R : r = q
                      /\ \A r \in R : r.low \in Int /\ r.high \in Int /\ r.low < r.high
<1>1. Len(b) \in Nat
  BY PricedBars
<1>2. Fine(ConfirmedRange(b, n))
  <2> DEFINE highs == ConfirmedBy(SwingHighs(b), n)
             lows  == ConfirmedBy(SwingLows(b), n)
             drawn == [low |-> Newest(lows).price, high |-> Newest(highs).price, source |-> "confirmed",
                       confirmed |-> Max({Newest(highs).confirmed, Newest(lows).confirmed})]
  <2>1. ConfirmedRange(b, n) =
          IF highs = {} \/ lows = {} THEN {}
          ELSE IF Newest(highs).price <= Newest(lows).price THEN {} ELSE {drawn}
    BY DEF ConfirmedRange
  <2>2. highs \subseteq Swings(b) /\ lows \subseteq Swings(b)
    BY KnownSwings
  <2> HIDE DEF highs, lows
  <2>3. ASSUME highs # {}, lows # {}
        PROVE  Newest(highs).price \in Int /\ Newest(lows).price \in Int
    BY <1>1, <2>2, <2>3, NewestIsOne, SwingPriced
  <2>4. drawn.low = Newest(lows).price /\ drawn.high = Newest(highs).price
    OBVIOUS
  <2> HIDE DEF drawn
  <2>. QED
    BY <2>1, <2>3, <2>4
<1>3. ASSUME NEW confirmed PROVE Fine(ResetRange(b, n, confirmed))
  <2> DEFINE found == ResettingBreaks(b, n, confirmed)
             last  == LastReset(found)
             edge  == EdgeSince(b, last, n)
             ends  == {edge} \cup {s.price : s \in last.origin}
             drawn == [low |-> Min(ends), high |-> Max(ends), source |-> "reset", confirmed |-> last.at]
  <2>1. ResetRange(b, n, confirmed) =
          IF found = {} THEN {} ELSE IF Max(ends) <= Min(ends) THEN {} ELSE {drawn}
    BY ResetIs, Zenon DEF RangeOf
  <2>2. /\ found \subseteq AllBreaks(b) /\ \A x \in found : x.origin # {} /\ x.at <= n
    BY DEF ResettingBreaks, Breaks
  <2>3. ASSUME found # {} PROVE Max(ends) \in Int /\ Min(ends) \in Int
    <3>1. last \in found
      BY <1>1, <2>2, <2>3, LastResetIsOne
    <3>2. /\ last.at \in 1..Len(b) /\ last.at <= n /\ last.kind \in Kinds
          /\ \A s \in last.origin : s \in Swings(b)
          /\ \A s, t \in last.origin : s = t
          /\ last.origin # {}
      BY <1>1, <2>2, <3>1, BreakShape
    <3> HIDE DEF last
    <3>3. PICK s \in last.origin : last.origin = {s}
      BY <3>2
    <3>4. s.price \in Int
      BY <3>2, SwingPriced
    <3>5. edge \in Int
      <4> DEFINE D == last.at..n
                 f == [i \in D |-> Reach(last.kind, b[i])]
                 reach == {Reach(last.kind, b[i]) : i \in D}
      <4>1. D # {} /\ IsFiniteSet(D) /\ D \subseteq 1..Len(b)
        <5>1. last.at \in Int /\ n \in Int /\ last.at <= n /\ 1 <= last.at
          BY <1>1, <3>2
        <5>2. IsFiniteSet(D)
          BY <5>1, FS_Interval
        <5>3. last.at \in D /\ D \subseteq 1..Len(b)
          BY <1>1, <5>1
        <5>. QED
          BY <5>2, <5>3
      <4>2. /\ \A i \in D : f[i] \in Int
            /\ \A x \in reach : \E i \in D : x = f[i]
            /\ \A i \in D : f[i] \in reach
        BY <4>1, PricedBars DEF Reach
      <4>3. edge = IF last.kind = "bullish" THEN Max(reach) ELSE Min(reach)
        BY DEF EdgeSince, Furthest
      <4> HIDE DEF D, f, reach, edge
      <4>4. Max(reach) \in Int /\ Min(reach) \in Int
        BY <4>1, <4>2, MaxOfValues
      <4>. QED
        BY <4>3, <4>4
    <3> HIDE DEF edge
    <3>6. ends = {edge, s.price}
      BY <3>3
    <3> HIDE DEF ends
    <3>7. Max({edge, s.price}) \in Int /\ Min({edge, s.price}) \in Int
      BY <3>4, <3>5, MaxOfTwo
    <3>. QED
      BY <3>6, <3>7
  <2>4. drawn.low = Min(ends) /\ drawn.high = Max(ends)
    OBVIOUS
  <2> HIDE DEF drawn, ends, found
  <2>. QED
    BY <2>1, <2>3, <2>4
<1> HIDE DEF Fine
<1>4. Fine(DealingRange(b, n, price))
  BY <1>2, <1>3 DEF DealingRange
<1>. QED
  BY <1>4 DEF Fine

\* Every pool has a price.
LEMMA PoolsTyped ==
  ASSUME NEW b, Priced(b), NEW n \in Nat, n <= Len(b), NEW p \in PoolsFrom(b, n)
  PROVE  p.price \in Int
<1>1. PICK total \in AtrTotal(b, n) : \E q \in Pools(b, "bullish", total, n) \cup Pools(b, "bearish", total, n) :
        p = [kind |-> q.kind, price |-> q.price, total |-> total]
  BY DEF PoolsFrom
<1>2. total \in Nat
  BY AtrTyped
<1>3. PICK kind \in Kinds : \E q \in Pools(b, kind, total, n) : p.price = q.price
  BY <1>1 DEF Kinds
<1> DEFINE known == ConfirmedBy(SwingsOf(b, kind), n)
           alive == Sweep(SubSeq(b, 1, n), known, kind, total)
<1>4. known \subseteq SwingsOf(b, kind)
  BY DEF ConfirmedBy
<1>5. PICK pool \in alive : p.price = PoolPrice(kind, pool)
  BY <1>3 DEF Pools, SwingsOf
<1> HIDE DEF known
<1>6. Pooled(alive, n, b, known, kind, total)
  BY <1>2, <1>4, SweepPooled
<1>7. pool \subseteq SwingsOf(b, kind) /\ pool # {}
  BY <1>4, <1>5, <1>6 DEF Pooled
<1>8. PoolPrice(kind, pool) \in Int
  <2> HIDE DEF alive
  <2>. QED
    BY <1>7, PoolFacts
<1>. QED
  BY <1>5, <1>8

ContextTyped(c) ==
  /\ c.price \in Nat /\ c.price > 0
  /\ \A z \in c.zones : ZoneTyped(z) /\ z.timeframe \in {"weekly", "daily"}
  /\ \A r \in c.range : r.low \in Int /\ r.high \in Int /\ r.low < r.high
  /\ \A r, q \in c.range : r = q
  /\ c.atr \in SUBSET Nat /\ \A x, y \in c.atr : x = y
  /\ \A p \in c.pools : p.price \in Int

\* All that is read off a printable series is well formed.
LEMMA ContextIsTyped ==
  ASSUME NEW b, Printable(b), NEW day \in Nat, day >= Len(b)
  PROVE  ContextTyped(BuildContext(b, day))
<1>1. Priced(b) /\ Len(b) \in Nat /\ Len(b) >= 2
  <2>1. Priced(b) /\ Len(b) >= 2
    BY DEF Printable, Priced
  <2>. QED
    BY <2>1, PricedBars
<1> DEFINE n == Len(b)
           weekly == ToWeekly(b)
           w == WeekOf(weekly, n)
           price == b[n].close
           c == BuildContext(b, day)
<1>2. Min({day, Len(b)}) = n
  <2>1. \A x, y \in Int : Min({x, y}) = IF x < y THEN x ELSE y
    BY MaxOfTwo
  <2> DEFINE m == Len(b)
  <2>2. m \in Int /\ day \in Int /\ day >= m
    BY <1>1
  <2> HIDE DEF m
  <2>3. Min({day, m}) = m
    BY <2>1, <2>2
  <2>. QED
    BY <2>3 DEF m
<1>3. /\ c.price = price /\ c.range = DealingRange(weekly, w, price)
      /\ c.zones = ZonesFrom(weekly, "weekly", w) \cup ZonesFrom(b, "daily", n)
      /\ c.pools = PoolsFrom(weekly, w) \cup PoolsFrom(b, n)
      /\ c.atr = {total \div AtrLookback : total \in AtrTotal(b, n)}
  BY <1>2 DEF BuildContext
<1>4. Priced(weekly) /\ Len(weekly) \in Nat
  BY WeeklyPriced, PricedBars
<1>5. w \in Nat /\ w <= Len(weekly)
  <2>1. n \div WeekLen \in Nat
    BY <1>1, WeeksMonotone
  <2> DEFINE q == n \div WeekLen
             m == Len(weekly)
  <2>2. w = Min({q, m}) /\ q \in Nat /\ m \in Nat
    BY <1>4, <2>1 DEF WeekOf
  <2> HIDE DEF q, m, w
  <2>3. w = IF q < m THEN q ELSE m
    <3>1. \A x, y \in Int : Min({x, y}) = IF x < y THEN x ELSE y
      BY MaxOfTwo
    <3>. QED
      BY <2>2, <3>1
  <2>4. w \in Nat /\ w <= m
    BY <2>2, <2>3
  <2>. QED
    BY <2>4 DEF m
<1>6. price \in Nat /\ price > 0
  BY <1>1, PricedBars
<1> HIDE DEF c, w, price, weekly
<1>7. n \in Nat /\ n <= Len(b)
  BY <1>1
<1> HIDE DEF n
<1>8. \A z \in c.zones : ZoneTyped(z) /\ z.timeframe \in {"weekly", "daily"}
  BY <1>1, <1>3, <1>4, <1>5, <1>7, ZonesTyped
<1>9. /\ \A r \in c.range : r.low \in Int /\ r.high \in Int /\ r.low < r.high
      /\ \A r, q \in c.range : r = q
  BY <1>3, <1>4, <1>5, RangeTyped
<1>10. c.atr \in SUBSET Nat /\ \A x, y \in c.atr : x = y
  <2>1. AtrLookback \in Nat \ {0}
    BY LevelsAssumption
  <2>2. \A total \in Nat : total \div AtrLookback \in Nat
    BY <2>1
  <2>3. AtrTotal(b, n) \in SUBSET Nat /\ \A x, y \in AtrTotal(b, n) : x = y
    BY <1>1, <1>7, AtrTyped
  <2>. QED
    BY <1>3, <2>2, <2>3
<1>11. \A p \in c.pools : p.price \in Int
  BY <1>1, <1>3, <1>4, <1>5, <1>7, PoolsTyped
<1>. QED
  BY <1>3, <1>6, <1>8, <1>9, <1>10, <1>11 DEF ContextTyped, c

-----------------------------------------------------------------------------
(* A trade that passes the gates.                                           *)

\* The levels it could come off at, and the one it is aimed at.
Rungs(row, context, zone, published) ==
  LET block  == zone.block
      entry  == NearEdge(block)
      risk   == Distance(entry, PaddedStop(block, context.atr))
      stated == ReadTarget(row, published)
  IN ExitLevels(block.kind, entry, risk, context.zones, The(context.range), zone.extreme,
       {t \in stated.target : Reasonable(t, block.kind, entry, risk, context)},
       stated.source, context.pools)

Outside(context, zone) == IsExternal(zone.block.kind, NearEdge(zone.block), The(context.range))

Aims(row, context, zone, published) ==
  SelectTarget(Rungs(row, context, zone, published), NearEdge(zone.block), Outside(context, zone))

\* What every gate it passed says of it.
Gated(s, row, context, zone, timeframe, published) ==
  LET block == zone.block
      aim   == The(Aims(row, context, zone, published))
  IN /\ s.reason = "setup" /\ s.thesis = row /\ s.block = block /\ s.timeframe = timeframe
     /\ s.entry = NearEdge(block) /\ s.stop = PaddedStop(block, context.atr)
     /\ s.levels = Rungs(row, context, zone, published) /\ s.target = aim.price
     /\ s.external = Outside(context, zone) /\ s.price = context.price
     /\ NearEdge(block) # FarEdge(block)
     /\ Aims(row, context, zone, published) # {}
     /\ ~(Distance(aim.price, NearEdge(block)) < 2 * Distance(NearEdge(block), PaddedStop(block, context.atr)))

\* A refusal carries its reason.
LEMMA RefusalsAreNotTrades ==
  ASSUME NEW row, NEW reason
  PROVE  Refuse(row, reason).reason = reason
BY DEF Refuse

\* What comes out of a zone's gates as a trade passed every one of them.
LEMMA ZoneGates ==
  ASSUME NEW row, NEW context, NEW zone, NEW timeframe, NEW published,
         NEW s, s = ZoneOutcome(row, context, zone, timeframe, published), s.reason = "setup"
  PROVE  Gated(s, row, context, zone, timeframe, published)
<1> DEFINE block  == zone.block
           levels == Rungs(row, context, zone, published)
           target == Aims(row, context, zone, published)
           aim    == The(target)
           reward == Distance(aim.price, NearEdge(block))
           risk   == Distance(NearEdge(block), PaddedStop(block, context.atr))
           offered == SetupFor(row, context, zone, timeframe, levels, aim)
           paid   == CASE reward < 2 * risk -> Refuse(row, "reward_risk_too_low")
                       [] reward >= 2 * risk /\ CarryDominates(block.kind, reward, risk)
                            -> Refuse(row, "carry_dominates")
                       [] OTHER -> offered
           aimed  == CASE None(levels) -> Refuse(row, "no_target")
                       [] ~None(levels) /\ None(target) -> Refuse(row, "no_external_target")
                       [] OTHER -> paid
           range  == The(context.range)
           gated  == CASE None(block.invalidation)               -> Refuse(row, "no_invalidation")
                       [] NearEdge(block) = FarEdge(block)       -> Refuse(row, "degenerate_zone")
                       [] TradedThrough(block, context.price)    -> Refuse(row, "price_past_stop")
                       [] IsExternal(block.kind, NearEdge(block), range)
                            /\ ~IsSweep(block.kind, NearEdge(block), range)
                                                                 -> Refuse(row, "entry_outside_range")
                       [] OTHER -> aimed
<1>1. s = gated
  BY Zenon DEF ZoneOutcome, Rungs, Aims, Outside
<1>2. /\ offered.reason = "setup" /\ offered.thesis = row /\ offered.block = block
      /\ offered.timeframe = timeframe /\ offered.entry = NearEdge(block)
      /\ offered.stop = PaddedStop(block, context.atr) /\ offered.levels = levels
      /\ offered.target = aim.price /\ offered.external = Outside(context, zone)
      /\ offered.price = context.price
  BY DEF SetupFor, Outside
<1>3. /\ s # Refuse(row, "no_invalidation") /\ s # Refuse(row, "degenerate_zone")
      /\ s # Refuse(row, "price_past_stop") /\ s # Refuse(row, "entry_outside_range")
      /\ s # Refuse(row, "no_target") /\ s # Refuse(row, "no_external_target")
      /\ s # Refuse(row, "reward_risk_too_low") /\ s # Refuse(row, "carry_dominates")
  <2>1. \A why : s = Refuse(row, why) => why = "setup"
    BY RefusalsAreNotTrades
  <2>. QED
    BY <2>1
<1> HIDE DEF offered, paid, aimed, levels, target, aim, reward, risk, block
<1>4. s = aimed /\ NearEdge(block) # FarEdge(block)
  BY <1>1, <1>3, Zenon
<1>5. s = paid /\ target # {}
  BY <1>3, <1>4, Zenon DEF aimed, None
<1>6. s = offered /\ ~(reward < 2 * risk)
  BY <1>3, <1>5, Zenon DEF paid
<1>. QED
  BY <1>2, <1>4, <1>5, <1>6 DEF Gated, levels, target, aim, reward, risk, block

\* Every one of them was offered by a live zone of its own side, for a thesis
\* the weekly trend and the range allow.
Offered(s, row, context, zone, timeframe, published) ==
  /\ ThesisRefusal(row, context) = "none"
  /\ zone \in context.zones /\ zone.block.kind = Families[row.direction]
  /\ zone.timeframe = timeframe
  /\ Gated(s, row, context, zone, timeframe, published)

\* So did whatever the reading calls passed, for some thesis and zone.
LEMMA PassedOffered ==
  ASSUME NEW b, NEW context, NEW rows, NEW s \in Passed(Outcomes(b, context, rows))
  PROVE  \E row \in rows : \E zone \in context.zones, timeframe \in {"weekly", "daily"},
                                published \in {{}, CloseOn(b, row.published)} :
           Offered(s, row, context, zone, timeframe, published)
<1>1. PICK o \in Outcomes(b, context, rows) : o.result.reason = "setup" /\ s = o.result
  BY DEF Passed
<1>2. PICK row \in rows, k \in DOMAIN ZoneTimeframes :
        o = [thesis |-> row, timeframe |-> ZoneTimeframes[k],
             result |-> CrossReference(row, context, ZoneTimeframes[k],
                          IF row.published = Undated THEN {} ELSE CloseOn(b, row.published))]
  BY <1>1 DEF Outcomes
<1> DEFINE published == IF row.published = Undated THEN {} ELSE CloseOn(b, row.published)
           timeframe == ZoneTimeframes[k]
           found == NewestZone(context.zones, Families[row.direction], timeframe)
           zone  == The(found)
<1>3. timeframe \in {"weekly", "daily"} /\ published \in {{}, CloseOn(b, row.published)}
  BY DEF ZoneTimeframes
<1>4. s = CrossReference(row, context, timeframe, published) /\ s.reason = "setup"
  BY <1>1, <1>2
<1> HIDE DEF published, timeframe
<1>5. \A why : Refuse(row, why).reason = why
  BY RefusalsAreNotTrades
<1>6. ThesisRefusal(row, context) = "none"
  <2>1. CASE ThesisRefusal(row, context) # "none"
    <3>1. s = Refuse(row, ThesisRefusal(row, context))
      BY <1>4, <2>1 DEF CrossReference
    <3>2. ThesisRefusal(row, context) # "setup"
      BY Zenon DEF ThesisRefusal
    <3>. QED
      BY <1>4, <1>5, <3>1, <3>2
  <2>. QED
    BY <2>1
<1>7. found # {} /\ s = ZoneOutcome(row, context, zone, timeframe, published)
  <2>1. CASE found = {}
    <3>1. s = Refuse(row, "no_live_zone")
      BY <1>4, <1>6, <2>1 DEF CrossReference, None
    <3>. QED
      BY <1>4, <1>5, <3>1
  <2>2. CASE found # {}
    BY <1>4, <1>6, <2>2 DEF CrossReference, None
  <2>. QED
    BY <2>1, <2>2
<1>8. zone \in context.zones /\ zone.timeframe = timeframe /\ zone.block.kind = Families[row.direction]
  <2>1. zone \in found
    <3> HIDE DEF found
    <3>. QED
      BY <1>7 DEF The
  <2>. QED
    BY <2>1 DEF NewestZone
<1> HIDE DEF found, zone
<1>9. Gated(s, row, context, zone, timeframe, published)
  BY <1>4, <1>7, ZoneGates
<1>10. Offered(s, row, context, zone, timeframe, published)
  BY <1>6, <1>8, <1>9 DEF Offered
<1>. QED
  BY <1>3, <1>8, <1>10

\* A thesis that is not refused names a side, agrees with the weekly trend when
\* there is one, and buys below the middle of the range or sells above it.
LEMMA ThesisAllowed ==
  ASSUME NEW row, NEW context, ThesisRefusal(row, context) = "none"
  PROVE  /\ row.direction \in {"long", "short"}
         /\ Families[row.direction] = IF row.direction = "long" THEN "bullish" ELSE "bearish"
         /\ FamilyOf(context.weekly) = {} \/ FamilyOf(context.weekly) = {Families[row.direction]}
         /\ context.range # {}
         /\ \A r \in context.range : Permits(r, row.direction, context.price)
<1> DEFINE family == {Families[d] : d \in {row.direction} \cap DOMAIN Families}
           weekly == FamilyOf(context.weekly)
<1>1. DOMAIN Families = {"long", "short"} /\ Families["long"] = "bullish" /\ Families["short"] = "bearish"
  BY DEF Families
<1>2. /\ family # {}
      /\ ~(weekly # {} /\ weekly # family)
      /\ context.range # {}
      /\ ~\E r \in context.range : ~Permits(r, row.direction, context.price)
  <2> HIDE DEF family
  <2>. QED
    BY Zenon DEF ThesisRefusal, family
<1>3. row.direction \in {"long", "short"}
  BY <1>1, <1>2
<1>4. family = {Families[row.direction]}
  BY <1>1, <1>3
<1>. QED
  BY <1>1, <1>2, <1>3, <1>4

-----------------------------------------------------------------------------
(* The levels a trade could come off at.                                    *)

\* One rung: a price on the profit side of the entry, and why it is one.
RungTyped(r, kind, entry, range) ==
  /\ r = [price |-> r.price, kind |-> r.kind]
  /\ r.price \in Int /\ Beyond(kind, r.price, entry)
  /\ r.kind = "range_bound" => r.price = RangeBound(kind, range)

\* Every rung is ahead of the entry; past the range's boundary there is at most
\* one, and it is a pool.
LEMMA ExitRungs ==
  ASSUME NEW kind \in Kinds, NEW entry \in Int, NEW risk, NEW zones, \A z \in zones : ZoneTyped(z),
         NEW range, range.low \in Int, range.high \in Int, NEW extreme \in Int,
         NEW authored \in SUBSET Int, NEW source, source # "range_bound",
         NEW pools, \A p \in pools : p.price \in Int,
         NEW found, found = ExitLevels(kind, entry, risk, zones, range, extreme, authored, source, pools)
  PROVE  /\ \A r \in found : RungTyped(r, kind, entry, range)
         /\ \A t \in found : t.kind = "range_bound" =>
              /\ \A r \in found : Beyond(kind, r.price, t.price) => r.kind = "liquidity_pool"
              /\ \A r, q \in found : Beyond(kind, r.price, t.price) /\ Beyond(kind, q.price, t.price) => r = q
<1> DEFINE beyond(price, why) ==
             IF Beyond(kind, price, entry) THEN {[price |-> price, kind |-> why]} ELSE {}
           bound == beyond(RangeBound(kind, range), "range_bound")
           furthest == beyond(extreme, "structural_extreme")
           opposing == OpposingRungs(kind, entry, risk, zones)
           blocks == opposing \cup bound \cup furthest
           surviving == {r \in blocks : \A b \in bound : ~Beyond(kind, r.price, b.price)}
           swept == PoolRungs(kind, entry, risk, pools, surviving)
           ladder == blocks \cup swept
           named == {[price |-> a, kind |-> source] :
                       a \in {x \in authored : /\ Beyond(kind, x, entry)
                                               /\ \A r \in ladder : Distance(x, entry) < Distance(r.price, entry)}}
           all == ladder \cup named
           Fine(r) == RungTyped(r, kind, entry, range)
<1>1. found = Dedupe(TruncateAtRange(kind, all))
  BY Zenon DEF ExitLevels
<1>2. ASSUME NEW price \in Int, NEW why, why = "range_bound" => price = RangeBound(kind, range),
             Beyond(kind, price, entry), NEW r, r = [price |-> price, kind |-> why]
      PROVE  Fine(r)
  BY <1>2 DEF RungTyped
<1>3. \A r \in bound : Fine(r)
  <2>1. RangeBound(kind, range) \in Int
    BY DEF RangeBound
  <2>. QED
    BY <1>2, <2>1
<1>4. \A r \in furthest : Fine(r)
  BY <1>2
<1>5. \A r \in opposing : Fine(r)
  <2>1. ASSUME NEW r \in opposing PROVE Fine(r)
    <3>1. PICK z \in zones : /\ Beyond(kind, NearEdge(z.block), entry)
                             /\ r = [price |-> NearEdge(z.block), kind |-> "opposing_zone"]
      BY <2>1 DEF OpposingRungs
    <3>2. NearEdge(z.block) \in Int
      BY <3>1 DEF ZoneTyped, NearEdge
    <3>. QED
      BY <1>2, <3>1, <3>2
  <2>. QED
    BY <2>1
<1>6. \A r \in swept : Fine(r)
  <2>1. ASSUME NEW r \in swept PROVE Fine(r)
    <3>1. PICK p \in pools : /\ Beyond(kind, p.price, entry)
                             /\ r = [price |-> p.price, kind |-> "liquidity_pool"]
      <4> DEFINE far == {p \in pools : /\ p.kind = kind
                                       /\ Beyond(kind, p.price, entry)
                                       /\ Distance(p.price, entry) >= risk}
                 rungs(S) == {[price |-> p.price, kind |-> "liquidity_pool"] : p \in S}
      <4>1. r \in rungs(far)
        BY <2>1 DEF PoolRungs
      <4>. QED
        BY <4>1
    <3>. QED
      BY <1>2, <3>1
  <2>. QED
    BY <2>1
<1>7. \A r \in named : Fine(r)
  <2> HIDE DEF ladder, Fine
  <2>1. ASSUME NEW r \in named PROVE Fine(r)
    <3>1. PICK a \in authored : Beyond(kind, a, entry) /\ r = [price |-> a, kind |-> source]
      BY <2>1
    <3>. QED
      BY <1>2, <3>1
  <2>. QED
    BY <2>1
<1> HIDE DEF bound, furthest, opposing, swept, named, Fine
<1>8. \A r \in all : Fine(r)
  BY <1>3, <1>4, <1>5, <1>6, <1>7
<1> HIDE DEF all
<1>9. found \subseteq TruncateAtRange(kind, all)
  BY <1>1 DEF Dedupe
<1>10. TruncateAtRange(kind, all) \subseteq all
  BY DEF TruncateAtRange
<1>11. ASSUME NEW t \in found, t.kind = "range_bound", NEW r \in found, Beyond(kind, r.price, t.price)
       PROVE  /\ r.kind = "liquidity_pool"
              /\ \A q \in found : Beyond(kind, q.price, t.price) /\ q.kind = "liquidity_pool"
                                    => ~Beyond(kind, r.price, q.price)
  <2> DEFINE bounds == {x.price : x \in {y \in all : y.kind = "range_bound"}}
             past == {x \in all : \E b \in bounds : Beyond(kind, x.price, b)}
             pools_ == {x \in past : x.kind = "liquidity_pool"}
  <2>1. TruncateAtRange(kind, all) =
          (all \ past) \cup {x \in pools_ : \A q \in pools_ : ~Beyond(kind, x.price, q.price)}
    BY DEF TruncateAtRange
  <2>2. t.price \in bounds /\ t \in all
    BY <1>9, <1>10, <1>11
  <2>3. r \in all /\ r \in past /\ r \in TruncateAtRange(kind, all)
    BY <1>9, <1>10, <1>11, <2>2
  <2>4. \A q \in found : Beyond(kind, q.price, t.price) => q \in past
    BY <1>9, <1>10, <2>2
  <2> HIDE DEF past
  <2>5. r \in pools_ /\ \A q \in pools_ : ~Beyond(kind, r.price, q.price)
    BY <2>1, <2>3
  <2>. QED
    BY <2>4, <2>5
<1>12. ASSUME NEW t \in found, t.kind = "range_bound", NEW r \in found, NEW q \in found,
              Beyond(kind, r.price, t.price), Beyond(kind, q.price, t.price)
       PROVE  r = q
  <2>1. r.kind = "liquidity_pool" /\ q.kind = "liquidity_pool"
        /\ ~Beyond(kind, r.price, q.price) /\ ~Beyond(kind, q.price, r.price)
    BY <1>11, <1>12
  <2>2. /\ r = [price |-> r.price, kind |-> r.kind] /\ q = [price |-> q.price, kind |-> q.kind]
        /\ r.price \in Int /\ q.price \in Int
    BY <1>8, <1>9, <1>10 DEF Fine, RungTyped
  <2>3. r.price = q.price
    BY <2>1, <2>2 DEF Beyond
  <2>. QED
    BY <2>1, <2>2, <2>3
<1>13. \A r \in found : RungTyped(r, kind, entry, range)
  BY <1>8, <1>9, <1>10 DEF Fine
<1>. QED
  BY <1>11, <1>12, <1>13

\* The author's target is a whole price, and its source is not a reason of the
\* engine's own.
LEMMA TargetRead ==
  ASSUME NEW row, row.levels \subseteq Nat, NEW reference, reference \subseteq Nat
  PROVE  LET stated == ReadTarget(row, reference)
         IN stated.target \in SUBSET Int /\ stated.source # "range_bound"
<1> DEFINE beyond == {l \in row.levels :
                        \A price \in reference : Beyond(Families[row.direction], l, price)}
           stated == ReadTarget(row, reference)
           none == [target |-> {}, source |-> "no_levels"]
           unpriced == [target |-> {}, source |-> "no_reference_price"]
           short_of == [target |-> {}, source |-> "no_level_beyond_entry"]
           one == [target |-> beyond, source |-> "stated"]
           near == [target |-> {The(Nearest(beyond, The(reference)))}, source |-> "nearest"]
<1> DEFINE ahead == CASE beyond = {} -> short_of
                      [] Cardinality(beyond) = 1 -> one
                      [] OTHER -> near
<1>1. \/ stated = none \/ stated = unpriced \/ stated = short_of \/ stated = one
      \/ stated = near /\ beyond # {} /\ reference # {}
  <2>1. stated = CASE row.levels = {}                      -> none
                   [] row.levels # {} /\ reference = {}    -> unpriced
                   [] OTHER                                -> ahead
    BY Zenon DEF ReadTarget
  <2>2. ahead = short_of \/ ahead = one \/ (ahead = near /\ beyond # {})
    <3> HIDE DEF beyond, short_of, one, near
    <3>1. CASE beyond = {}
      <4>1. Cardinality(beyond) # 1
        BY <3>1, FS_EmptySet
      <4>. QED
        BY <3>1, <4>1, Zenon
    <3>2. CASE beyond # {} /\ Cardinality(beyond) = 1
      BY <3>2, Zenon
    <3>3. CASE beyond # {} /\ Cardinality(beyond) # 1
      BY <3>3, Zenon
    <3>. QED
      BY <3>1, <3>2, <3>3
  <2> HIDE DEF stated, ahead, beyond, none, unpriced, short_of, one, near
  <2>3. CASE row.levels = {}
    BY <2>1, <2>3, Zenon
  <2>4. CASE row.levels # {} /\ reference = {}
    BY <2>1, <2>4, Zenon
  <2>5. CASE row.levels # {} /\ reference # {}
    BY <2>1, <2>2, <2>5, Zenon
  <2>. QED
    BY <2>3, <2>4, <2>5
<1>2. ASSUME beyond # {}, reference # {} PROVE The(Nearest(beyond, The(reference))) \in Int
  <2> DEFINE price == The(reference)
             gaps == {Distance(l, price) : l \in beyond}
  <2>1. price \in Nat
    BY <1>2 DEF The
  <2> HIDE DEF price
  <2>2. \A l \in beyond : l \in Nat /\ Distance(l, price) \in Nat
    BY <2>1 DEF Distance
  <2>3. gaps \in SUBSET Nat /\ gaps # {}
    <3> HIDE DEF beyond
    <3>. QED
      BY <1>2, <2>2
  <2>4. PICK g \in gaps : \A h \in gaps : g <= h
    <3> HIDE DEF gaps
    <3>. QED
      BY <2>3, LeastExists
  <2>5. Nearest(beyond, price) # {}
    <3> HIDE DEF beyond
    <3>. QED
      BY <2>4 DEF Nearest
  <2>6. The(Nearest(beyond, price)) \in Nearest(beyond, price)
    BY <2>5 DEF The
  <2>7. The(Nearest(beyond, price)) \in beyond
    BY <2>6 DEF Nearest
  <2>8. The(Nearest(beyond, price)) \in Int
    BY <2>2, <2>7
  <2>. QED
    BY <2>8 DEF price
<1>3. beyond \in SUBSET Int
  OBVIOUS
<1> HIDE DEF beyond, stated
<1>4. stated.target \in SUBSET Int /\ stated.source # "range_bound"
  <2> DEFINE Fine(x) == x.target \in SUBSET Int /\ x.source # "range_bound"
  <2>1. Fine(none) /\ Fine(unpriced) /\ Fine(short_of)
    OBVIOUS
  <2>2. Fine(one)
    BY <1>3
  <2>3. beyond # {} /\ reference # {} => Fine(near)
    BY <1>2
  <2> HIDE DEF Fine, none, unpriced, short_of, one, near
  <2>4. Fine(stated)
    BY <1>1, <2>1, <2>2, <2>3, Zenon
  <2>. QED
    BY <2>4 DEF Fine
<1>. QED
  BY <1>4 DEF stated

\* Closes are whole prices.
LEMMA CloseIsPrice ==
  ASSUME NEW b, Priced(b), NEW day \in Nat
  PROVE  CloseOn(b, day) \subseteq Nat
<1> DEFINE m == Len(b)
           last == Min({day, m})
<1>1. m \in Nat /\ \A i \in 1..m : b[i].close \in Nat
  BY PricedBars
<1>2. last \in Int /\ last <= m
  <2>1. \A x, y \in Int : Min({x, y}) = IF x < y THEN x ELSE y
    BY MaxOfTwo
  <2> HIDE DEF m
  <2>2. last = IF day < m THEN day ELSE m
    BY <1>1, <2>1
  <2> HIDE DEF last
  <2>. QED
    BY <1>1, <2>2
<1>3. CloseOn(b, day) = IF last < 1 \/ day - last > MaxCarry THEN {} ELSE {b[last].close}
  BY DEF CloseOn
<1> HIDE DEF last, m
<1>. QED
  BY <1>1, <1>2, <1>3

-----------------------------------------------------------------------------
(* The drawn trade.                                                         *)

\* A trade of a zone of its own side, in the one range the context has: its
\* edges, its stop, its rungs and the one it is aimed at.
Drawn(s, row, context, range) ==
  LET block == s.block
      kind  == block.kind
  IN /\ row.direction \in {"long", "short"} /\ kind = Families[row.direction] /\ kind \in Kinds
     /\ s.thesis = row /\ s.price = context.price
     /\ block.top \in Int /\ block.bottom \in Int /\ block.bottom < block.top
     /\ s.entry = NearEdge(block) /\ s.entry \in Int /\ s.stop \in Int
     /\ s.stop = FarEdge(block) \/ Beyond(kind, FarEdge(block), s.stop)
     /\ context.range = {range} /\ range.low \in Int /\ range.high \in Int /\ range.low < range.high
     /\ \A r \in s.levels : RungTyped(r, kind, s.entry, range)
     /\ \A t \in s.levels : t.kind = "range_bound" =>
          /\ \A r \in s.levels : Beyond(kind, r.price, t.price) => r.kind = "liquidity_pool"
          /\ \A r, q \in s.levels : Beyond(kind, r.price, t.price) /\ Beyond(kind, q.price, t.price) => r = q
     /\ \E t \in s.levels : s.target = t.price /\ (~s.external => t.kind = "range_bound")
     /\ ~(Distance(s.target, s.entry) < 2 * Distance(s.entry, s.stop))
     /\ Permits(range, row.direction, context.price)

\* A buyer's zones are bullish and a seller's bearish.
LEMMA SidesOf ==
  ASSUME NEW direction \in {"long", "short"}
  PROVE  Families[direction] = (IF direction = "long" THEN "bullish" ELSE "bearish")
BY DEF Families

\* The stop is at the far edge, or out past it by the average range.
LEMMA StopIsPast ==
  ASSUME NEW block, block.top \in Int, block.bottom \in Int,
         NEW atr \in SUBSET Nat
  PROVE  /\ PaddedStop(block, atr) \in Int
         /\ PaddedStop(block, atr) = FarEdge(block) \/ Beyond(block.kind, FarEdge(block), PaddedStop(block, atr))
<1> DEFINE pad == IF atr = {} THEN 0 ELSE The(atr)
<1>1. pad \in Nat
  BY DEF The
<1>2. PaddedStop(block, atr) = IF block.kind = "bullish" THEN FarEdge(block) - pad ELSE FarEdge(block) + pad
  BY DEF PaddedStop
<1>3. FarEdge(block) \in Int
  BY DEF FarEdge
<1> HIDE DEF pad
<1>. QED
  BY <1>1, <1>2, <1>3 DEF Beyond

\* What a zone offers is drawn the right way round.
LEMMA OfferedIsDrawn ==
  ASSUME NEW b, Priced(b), NEW context, ContextTyped(context),
         NEW row, row.levels \subseteq Nat, row.published \in Nat, NEW zone, NEW timeframe,
         NEW published \in {{}, CloseOn(b, row.published)},
         NEW s, Offered(s, row, context, zone, timeframe, published)
  PROVE  \E range \in context.range : Drawn(s, row, context, range)
<1> DEFINE range  == The(context.range)
           block  == zone.block
           stated == ReadTarget(row, published)
           rungs  == Rungs(row, context, zone, published)
           aims   == Aims(row, context, zone, published)
           aim    == The(aims)
<1>1. /\ ThesisRefusal(row, context) = "none"
      /\ zone \in context.zones /\ block.kind = Families[row.direction]
      /\ s.thesis = row /\ s.block = block /\ s.entry = NearEdge(block)
      /\ s.stop = PaddedStop(block, context.atr) /\ s.levels = rungs /\ s.target = aim.price
      /\ s.external = Outside(context, zone) /\ s.price = context.price /\ aims # {}
      /\ ~(Distance(s.target, s.entry) < 2 * Distance(s.entry, s.stop))
  BY Zenon DEF Offered, Gated
<1>2. row.direction \in {"long", "short"} /\ block.kind \in Kinds
  <2>1. row.direction \in {"long", "short"}
    BY <1>1, ThesisAllowed
  <2>. QED
    BY <1>1, <2>1, SidesOf DEF Kinds
<1>3. range \in context.range /\ context.range = {range}
      /\ range.low \in Int /\ range.high \in Int /\ range.low < range.high
  <2>1. context.range # {}
    BY <1>1, ThesisAllowed
  <2>2. range \in context.range
    BY <2>1 DEF The
  <2> HIDE DEF range
  <2>. QED
    BY <2>2 DEF ContextTyped
<1>4. Permits(range, row.direction, context.price)
  <2> HIDE DEF range
  <2>. QED
    BY <1>1, <1>3, ThesisAllowed
<1>5. block.top \in Int /\ block.bottom \in Int /\ block.bottom < block.top /\ zone.extreme \in Int
  BY <1>1 DEF ContextTyped, ZoneTyped
<1>6. NearEdge(block) \in Int
  BY <1>5 DEF NearEdge
<1>7. /\ s.stop \in Int
      /\ s.stop = FarEdge(block) \/ Beyond(block.kind, FarEdge(block), s.stop)
  <2>1. context.atr \in SUBSET Nat
    BY DEF ContextTyped
  <2>. QED
    BY <1>1, <1>5, <2>1, StopIsPast
<1> DEFINE believed == {t \in stated.target :
                          Reasonable(t, block.kind, NearEdge(block), Distance(NearEdge(block), PaddedStop(block, context.atr)), context)}
<1>8. believed \in SUBSET Int /\ stated.source # "range_bound"
  <2>1. CloseOn(b, row.published) \subseteq Nat
    BY CloseIsPrice
  <2>2. published \subseteq Nat
    BY <2>1
  <2>3. stated.target \in SUBSET Int /\ stated.source # "range_bound"
    BY <2>2, TargetRead
  <2> HIDE DEF stated
  <2>. QED
    BY <2>3
<1>9. rungs = ExitLevels(block.kind, NearEdge(block), Distance(NearEdge(block), PaddedStop(block, context.atr)),
                context.zones, range, zone.extreme, believed, stated.source, context.pools)
  BY DEF Rungs
<1> HIDE DEF rungs, believed, stated, range, block
<1>10. /\ \A r \in rungs : RungTyped(r, block.kind, NearEdge(block), range)
       /\ \A t \in rungs : t.kind = "range_bound" =>
            /\ \A r \in rungs : Beyond(block.kind, r.price, t.price) => r.kind = "liquidity_pool"
            /\ \A r, q \in rungs : Beyond(block.kind, r.price, t.price)
                                     /\ Beyond(block.kind, q.price, t.price) => r = q
  <2>1. /\ \A z \in context.zones : ZoneTyped(z)
        /\ \A p \in context.pools : p.price \in Int
    BY DEF ContextTyped
  <2>. QED
    BY <1>2, <1>3, <1>5, <1>6, <1>8, <1>9, <2>1, ExitRungs
<1>11. aim \in rungs /\ (~s.external => aim.kind = "range_bound")
  <2>1. aims = SelectTarget(rungs, NearEdge(block), Outside(context, zone))
    BY DEF Aims, rungs, block
  <2>2. aim \in aims
    <3> HIDE DEF aims
    <3>. QED
      BY <1>1 DEF The
  <2> HIDE DEF aims, aim
  <2>. QED
    BY <1>1, <2>1, <2>2 DEF SelectTarget
<1> HIDE DEF aim, aims
<1>12. Drawn(s, row, context, range)
  BY <1>1, <1>2, <1>3, <1>4, <1>5, <1>6, <1>7, <1>10, <1>11 DEF Drawn
<1>. QED
  BY <1>3, <1>12

\* A sitting reads a well formed context.
LEMMA ReadingTyped ==
  ASSUME StateInv
  PROVE  ContextTyped(Reading.context) /\ Reading.context = BuildContext(bars, today)
<1>1. Reading.context = BuildContext(bars, today)
  BY DEF Reading
<1>2. Printable(bars) /\ Len(bars) \in Nat /\ today \in Nat /\ today >= Len(bars)
  BY LenProperties DEF StateInv, Printable
<1>. QED
  BY <1>1, <1>2, ContextIsTyped

\* What a sitting's reading offers: every trade in it was drawn for a thesis of
\* the roster that nothing about the instrument refused.
LEMMA ReadingIsDrawn ==
  ASSUME StateInv, NEW s \in Passed(Reading.gated)
  PROVE  \E row \in Rows(today) : \E range \in Reading.context.range :
           /\ Drawn(s, row, Reading.context, range)
           /\ ThesisRefusal(row, Reading.context) = "none"
<1> DEFINE context == BuildContext(bars, today)
<1>1. Reading.context = context /\ Reading.gated = Outcomes(bars, context, Rows(today))
  BY DEF Reading
<1>2. ContextTyped(context)
  BY ReadingTyped
<1>3. Priced(bars)
  BY DEF StateInv, Printable, Priced
<1> HIDE DEF context
<1>5. PICK row \in Rows(today) : \E zone \in context.zones, timeframe \in {"weekly", "daily"},
                                    published \in {{}, CloseOn(bars, row.published)} :
        Offered(s, row, context, zone, timeframe, published)
  BY <1>1, PassedOffered
<1>6. row.levels \subseteq Nat /\ row.published \in Nat
  BY ChartAssumption DEF Rows
<1>7. PICK zone \in context.zones, timeframe \in {"weekly", "daily"},
           published \in {{}, CloseOn(bars, row.published)} :
        Offered(s, row, context, zone, timeframe, published)
  BY <1>5
<1>8. \E range \in context.range : Drawn(s, row, context, range)
  BY <1>2, <1>3, <1>6, <1>7, OfferedIsDrawn
<1>9. ThesisRefusal(row, context) = "none"
  BY <1>7 DEF Offered
<1>. QED
  BY <1>1, <1>8, <1>9

\* Only sitting down changes what was read, and it reads what there is.
LEMMA SitOnce ==
  ASSUME [Next]_vars
  PROVE  sitting' = sitting \/ sitting' = {Reading}
BY DEF Next, DayPasses, Refetch, Fetch, Sit, Approve, vars

\* The edges of a drawn trade: its stop is behind its entry, its target ahead.
LEMMA DrawnIsOrdered ==
  ASSUME NEW s, NEW row, NEW context, NEW range, Drawn(s, row, context, range)
  PROVE  /\ s.target \in Int /\ s.entry \in Int /\ s.stop \in Int
         /\ Beyond(s.block.kind, s.entry, s.stop)
         /\ Beyond(s.block.kind, s.target, s.entry)
         /\ Distance(s.target, s.entry) >= 2 * Distance(s.entry, s.stop)
<1>1. s.entry \in Int /\ s.stop \in Int /\ s.block.kind \in Kinds
  BY DEF Drawn
<1>2. s.target \in Int /\ Beyond(s.block.kind, s.target, s.entry)
  BY DEF Drawn, RungTyped
<1>3. Beyond(s.block.kind, s.entry, s.stop)
  BY DEF Drawn, Beyond, NearEdge, FarEdge
<1>4. Distance(s.target, s.entry) >= 2 * Distance(s.entry, s.stop)
  <2>1. ~(Distance(s.target, s.entry) < 2 * Distance(s.entry, s.stop))
    BY DEF Drawn
  <2>2. Distance(s.target, s.entry) \in Int /\ Distance(s.entry, s.stop) \in Int
    BY <1>1, <1>2 DEF Distance
  <2>. QED
    BY <2>1, <2>2
<1>. QED
  BY <1>1, <1>2, <1>3, <1>4

\* A price is on one side of the middle of the range, so one side is offered.
LEMMA OneSide ==
  ASSUME NEW context, ContextTyped(context), NEW s, NEW row, NEW range, Drawn(s, row, context, range),
         NEW o, NEW other, NEW span, Drawn(o, other, context, span)
  PROVE  o.block.kind = s.block.kind
<1>1. span = range
  BY DEF Drawn
<1>2. Permits(range, row.direction, context.price) /\ Permits(range, other.direction, context.price)
  BY <1>1 DEF Drawn
<1>3. row.direction = "long" <=> other.direction = "long"
  BY <1>2, Zenon DEF Permits
<1>4. /\ row.direction \in {"long", "short"} /\ other.direction \in {"long", "short"}
      /\ s.block.kind = Families[row.direction] /\ o.block.kind = Families[other.direction]
  BY DEF Drawn
<1>. QED
  BY <1>3, <1>4, SidesOf

\* Every trade that passes the gates can be placed as it is drawn: the stop is
\* out past the zone, the target and every other exit are on the profit side of
\* the entry, it pays at least twice what it risks, and the two sides of one
\* zone are never offered at once (core.setups, core.exits).
THEOREM EveryTradeIsOrdered == Spec => []TradeIsOrdered
<1>1. Init => TradeIsOrdered
  BY DEF Init, TradeIsOrdered
<1>2. ASSUME StateInv, NEW s \in Passed(Reading.gated)
      PROVE  LET kind == s.block.kind IN
             /\ Beyond(kind, FarEdge(s.block), s.stop) \/ s.stop = FarEdge(s.block)
             /\ Beyond(kind, s.entry, s.stop)
             /\ \A rung \in s.levels : Beyond(kind, rung.price, s.entry)
             /\ Distance(s.target, s.entry) >= 2 * Distance(s.entry, s.stop)
             /\ ~\E o \in Passed(Reading.gated) : o.timeframe = s.timeframe /\ o.block.kind = Opposite(kind)
  <2>1. PICK row \in Rows(today) : \E range \in Reading.context.range : Drawn(s, row, Reading.context, range)
    BY <1>2, ReadingIsDrawn
  <2>2. PICK range \in Reading.context.range : Drawn(s, row, Reading.context, range)
    BY <2>1
  <2>3. Beyond(s.block.kind, FarEdge(s.block), s.stop) \/ s.stop = FarEdge(s.block)
    BY <2>2 DEF Drawn
  <2>4. \A rung \in s.levels : Beyond(s.block.kind, rung.price, s.entry)
    BY <2>2 DEF Drawn, RungTyped
  <2>5. ASSUME NEW o \in Passed(Reading.gated) PROVE o.block.kind # Opposite(s.block.kind)
    <3>1. PICK other \in Rows(today) : \E span \in Reading.context.range : Drawn(o, other, Reading.context, span)
      BY <1>2, <2>5, ReadingIsDrawn
    <3>2. PICK span \in Reading.context.range : Drawn(o, other, Reading.context, span)
      BY <3>1
    <3>3. ContextTyped(Reading.context)
      BY <1>2, ReadingTyped
    <3>4. o.block.kind = s.block.kind
      BY <2>2, <3>2, <3>3, OneSide
    <3>. QED
      BY <3>4 DEF Opposite
  <2>. QED
    BY <2>2, <2>3, <2>4, <2>5, DrawnIsOrdered
<1>3. ASSUME StateInv, TradeIsOrdered, [Next]_vars PROVE TradeIsOrdered'
  <2>1. CASE sitting' = sitting
    BY <1>3, <2>1 DEF TradeIsOrdered
  <2>2. CASE sitting' = {Reading}
    <3> HIDE DEF TradeIsOrdered
    <3>1. \A r \in sitting' : r = Reading
      BY <2>2
    <3>. QED
      BY <1>2, <1>3, <3>1 DEF TradeIsOrdered
  <2>. QED
    BY <1>3, <2>1, <2>2, SitOnce
<1>. QED
  BY <1>1, <1>3, StateAlways, PTL DEF Spec

\* Below the middle of the range there is still its top ahead, and the other way.
LEMMA BoundIsAhead ==
  ASSUME NEW context, context.price \in Nat, NEW s, NEW row, NEW range, Drawn(s, row, context, range)
  PROVE  Beyond(s.block.kind, RangeBound(s.block.kind, range), context.price)
<1>1. /\ range.low \in Int /\ range.high \in Int /\ range.low < range.high
      /\ row.direction \in {"long", "short"} /\ s.block.kind = Families[row.direction]
      /\ Permits(range, row.direction, context.price)
  BY DEF Drawn
<1> DEFINE price == context.price
<1>2. /\ row.direction = "long"  => 2 * price < range.low + range.high
      /\ row.direction = "short" => 2 * price > range.low + range.high
  <2> HIDE DEF price
  <2>1. ZoneAt(range, price) = "discount" => 2 * price < range.low + range.high
    BY Zenon DEF ZoneAt
  <2>2. ZoneAt(range, price) = "premium" => 2 * price > range.low + range.high
    BY Zenon DEF ZoneAt
  <2>3. ZoneAt(range, price) = IF row.direction = "long" THEN "discount" ELSE "premium"
    BY <1>1 DEF Permits, price
  <2>. QED
    BY <1>1, <2>1, <2>2, <2>3
<1>3. s.block.kind = IF row.direction = "long" THEN "bullish" ELSE "bearish"
  BY <1>1, SidesOf
<1> HIDE DEF price
<1>4. Beyond(s.block.kind, RangeBound(s.block.kind, range), price)
  <2>1. price \in Nat
    BY DEF price
  <2>2. CASE row.direction = "long"
    BY <1>1, <1>2, <1>3, <2>1, <2>2 DEF Beyond, RangeBound
  <2>3. CASE row.direction = "short"
    BY <1>1, <1>2, <1>3, <2>1, <2>3 DEF Beyond, RangeBound
  <2>. QED
    BY <1>1, <2>2, <2>3
<1>. QED
  BY <1>4 DEF price

\* A trade entered inside the range still has its whole move ahead of price:
\* the target is beyond where the market already is, and no exit but one
\* untaken pool lies past the range's boundary (core.exits.select_target).
THEOREM InsideTradesAimAhead == Spec => []InternalTargetAhead
<1>1. Init => InternalTargetAhead
  BY DEF Init, InternalTargetAhead
<1>2. ASSUME StateInv, NEW s \in Passed(Reading.gated), ~s.external
      PROVE  LET kind == s.block.kind
                 past == {rung \in s.levels : Beyond(kind, rung.price, s.target)}
             IN /\ Beyond(kind, s.target, s.price)
                /\ Cardinality(past) <= 1
                /\ \A rung \in past : rung.kind = "liquidity_pool"
  <2> DEFINE past == {rung \in s.levels : Beyond(s.block.kind, rung.price, s.target)}
  <2>1. PICK row \in Rows(today) : \E range \in Reading.context.range : Drawn(s, row, Reading.context, range)
    BY <1>2, ReadingIsDrawn
  <2>2. PICK range \in Reading.context.range : Drawn(s, row, Reading.context, range)
    BY <2>1
  <2>3. Reading.context.price \in Nat /\ s.price = Reading.context.price
    BY <1>2, <2>2, ReadingTyped DEF ContextTyped, Drawn
  <2>4. PICK t \in s.levels : s.target = t.price /\ t.kind = "range_bound"
    BY <1>2, <2>2 DEF Drawn
  <2>5. t.price = RangeBound(s.block.kind, range)
    BY <2>2, <2>4 DEF Drawn, RungTyped
  <2>6. Beyond(s.block.kind, s.target, s.price)
    BY <2>2, <2>3, <2>4, <2>5, BoundIsAhead
  <2>7. /\ \A r \in past : r.kind = "liquidity_pool"
        /\ \A r, q \in past : r = q
    BY <2>2, <2>4 DEF Drawn
  <2> HIDE DEF past
  <2>8. Cardinality(past) <= 1
    <3>1. CASE past = {}
      BY <3>1, FS_EmptySet
    <3>2. CASE past # {}
      <4>1. PICK r \in past : past = {r}
        BY <2>7, <3>2
      <4>. QED
        BY <4>1, FS_Singleton
    <3>. QED
      BY <3>1, <3>2
  <2>. QED
    BY <2>6, <2>7, <2>8 DEF past
<1>3. ASSUME StateInv, InternalTargetAhead, [Next]_vars PROVE InternalTargetAhead'
  <2>1. CASE sitting' = sitting
    BY <1>3, <2>1 DEF InternalTargetAhead
  <2>2. CASE sitting' = {Reading}
    <3>1. \A r \in sitting' : r = Reading
      BY <2>2
    <3>. QED
      BY <1>2, <1>3, <3>1 DEF InternalTargetAhead
  <2>. QED
    BY <1>3, <2>1, <2>2, SitOnce
<1>. QED
  BY <1>1, <1>3, StateAlways, PTL DEF Spec

-----------------------------------------------------------------------------
(* The queue and the review of one reading.                                 *)

\* Advice to sell or trim needs a falling weekly trend, to buy or add a rising
\* one, and where price is says neither.
LEMMA AdviceNeedsTrend ==
  ASSUME NEW context, NEW roster, NEW advice,
         advice = LevelsVerdictFor(roster, Locate(context), context.weekly)
  PROVE  /\ advice \in {"sell_zone", "trim"} => context.weekly = "downtrend"
         /\ advice \in {"buy_zone", "add"}   => context.weekly = "uptrend"
<1> DEFINE where == Locate(context)
<1>1. where \notin {"sell_zone", "trim", "buy_zone", "add"}
  BY Zenon DEF Locate
<1>2. /\ where = "at_support" => where # "at_resistance" /\ where # "unreadable"
      /\ where = "at_resistance" => where # "unreadable"
  OBVIOUS
<1> HIDE DEF where
<1>3. advice = CASE where = "unreadable" -> "no_read"
                 [] where = "at_support" /\ context.weekly = "uptrend" ->
                      IF ~roster.thin /\ roster.lean = "bullish" THEN "add" ELSE "buy_zone"
                 [] where = "at_resistance" /\ context.weekly = "downtrend" ->
                      IF ~roster.thin /\ roster.lean = "bearish" THEN "trim" ELSE "sell_zone"
                 [] OTHER -> where
  BY DEF LevelsVerdictFor, where
<1>4. CASE where = "unreadable"
  BY <1>1, <1>3, <1>4
<1>5. CASE where = "at_support" /\ context.weekly = "uptrend"
  BY <1>3, <1>5
<1>6. CASE where = "at_resistance" /\ context.weekly = "downtrend"
  BY <1>3, <1>6
<1>7. CASE /\ where # "unreadable"
           /\ ~(where = "at_support" /\ context.weekly = "uptrend")
           /\ ~(where = "at_resistance" /\ context.weekly = "downtrend")
  <2>1. advice = where
    BY <1>3, <1>7, Zenon
  <2>. QED
    BY <1>1, <2>1
<1>. QED
  BY <1>4, <1>5, <1>6, <1>7

\* A row of the queue is a trade that passed, on the side it says.
LEMMA QueueOf ==
  ASSUME NEW c \in Reading.queue
  PROVE  \E s \in Passed(Reading.gated) : c.key.direction = s.thesis.direction
<1> DEFINE passed == Passed(Reading.gated)
           rows == Rows(today)
           members(key) == {s \in passed : ZoneKey(s) = key}
<1>1. c \in Collapse(passed, rows)
  <2>1. Reading.queue = OnePerAsset(Collapse(passed, rows))
    BY DEF Reading
  <2> HIDE DEF passed, rows
  <2>. QED
    BY <2>1 DEF OnePerAsset
<1> HIDE DEF passed, rows
<1>2. PICK s \in passed : c = CandidateFor(members(ZoneKey(s)), ZoneKey(s), rows)
  <2>1. PICK key \in {ZoneKey(s) : s \in passed} : c = CandidateFor(members(key), key, rows)
    BY <1>1 DEF Collapse
  <2>. QED
    BY <2>1
<1> HIDE DEF members
<1>3. c.key = ZoneKey(s)
  BY <1>2 DEF CandidateFor
<1>4. c.key.direction = s.thesis.direction
  BY <1>3 DEF ZoneKey
<1>. QED
  BY <1>4 DEF passed

\* The queue and the review never give opposite advice on one instrument: no
\* row to buy what the chart-led review says to sell, and none to sell what it
\* says to buy (core.setups' weekly rule against core.review's zones).
THEOREM QueueAndReviewAgree == Spec => []NoCrossAdvice
<1>1. Init => NoCrossAdvice
  BY DEF Init, NoCrossAdvice
<1>2. ASSUME StateInv, NEW c \in Reading.queue
      PROVE  Reading.review.levels \notin
               (IF c.key.direction = "long" THEN {"sell_zone", "trim"} ELSE {"buy_zone", "add"})
  <2> DEFINE context == Reading.context
  <2>1. PICK s \in Passed(Reading.gated) : c.key.direction = s.thesis.direction
    BY QueueOf
  <2>2. PICK row \in Rows(today) : ThesisRefusal(row, context) = "none" /\ s.thesis = row
    BY <1>2, ReadingIsDrawn DEF Drawn
  <2>3. Reading.review = Review(context, Said(today), today)
    BY DEF Reading
  <2> HIDE DEF context
  <2>4. PICK roster : Reading.review.levels = LevelsVerdictFor(roster, Locate(context), context.weekly)
    BY <2>3 DEF Review
  <2>5. /\ row.direction \in {"long", "short"}
        /\ Families[row.direction] = (IF row.direction = "long" THEN "bullish" ELSE "bearish")
        /\ FamilyOf(context.weekly) = {} \/ FamilyOf(context.weekly) = {Families[row.direction]}
    BY <2>2, ThesisAllowed
  <2>6. /\ Reading.review.levels \in {"sell_zone", "trim"} => context.weekly = "downtrend"
        /\ Reading.review.levels \in {"buy_zone", "add"}   => context.weekly = "uptrend"
    BY <2>4, AdviceNeedsTrend
  <2>7. FamilyOf("uptrend") = {"bullish"} /\ FamilyOf("downtrend") = {"bearish"}
    BY DEF FamilyOf
  <2>. QED
    BY <2>1, <2>2, <2>5, <2>6, <2>7
<1>3. ASSUME StateInv, NoCrossAdvice, [Next]_vars PROVE NoCrossAdvice'
  <2>1. CASE sitting' = sitting
    BY <1>3, <2>1 DEF NoCrossAdvice
  <2>2. CASE sitting' = {Reading}
    <3>1. \A r \in sitting' : r = Reading
      BY <2>2
    <3>. QED
      BY <1>2, <1>3, <3>1 DEF NoCrossAdvice
  <2>. QED
    BY <1>3, <2>1, <2>2, SitOnce
<1>. QED
  BY <1>1, <1>3, StateAlways, PTL DEF Spec

\* A ramp of less than its whole is below it.
LEMMA ShareBelow ==
  ASSUME NEW whole \in Nat, NEW part \in Nat, NEW all \in Nat, part < whole * all, all > 0
  PROVE  part \div all < whole
<1> DEFINE q == part \div all
           r == part % all
<1>1. q \in Int /\ r \in 0..(all - 1) /\ part = all * q + r
  OBVIOUS
<1> HIDE DEF q, r
<1>2. CASE q >= whole
  <2>1. PICK k \in Nat : q = whole + k
    <3>1. q - whole \in Nat /\ q = whole + (q - whole)
      BY <1>1, <1>2
    <3>. QED
      BY <3>1
  <2>2. all * q = all * whole + all * k
    BY <2>1
  <2>3. all * k \in Nat /\ all * whole = whole * all /\ whole * all \in Nat
    OBVIOUS
  <2>. QED
    BY <1>1, <2>2, <2>3
<1>. QED
  BY <1>1, <1>2 DEF q

\* Five eighths of the way means price is in the block.
LEMMA ReachedIsInside ==
  ASSUME NEW block, block.kind \in Kinds, block.top \in Int, block.bottom \in Int,
         block.bottom < block.top, NEW price \in Nat, price > 0, ApproachTo(block, price) >= 625
  PROVE  Inside(block, price)
<1> DEFINE t == Distance(price, NearEdge(block))
           inside == 625 + (375 * t) \div (block.top - block.bottom)
           ramp == (625 * price) \div (price + 10 * t)
<1>1. NearEdge(block) \in Int /\ t \in Nat
  BY DEF NearEdge, Distance
<1>2. ApproachTo(block, price) = CASE TradedThrough(block, price) -> 0
                                   [] Inside(block, price) -> inside
                                   [] OTHER -> IF price <= 0 THEN 0 ELSE ramp
  BY DEF ApproachTo
<1> HIDE DEF inside, ramp
<1>3. CASE TradedThrough(block, price) /\ ~Inside(block, price)
  <2>1. ApproachTo(block, price) = 0
    BY <1>2, <1>3, Zenon
  <2>. QED
    BY <2>1
<1>4. CASE ~TradedThrough(block, price) /\ ~Inside(block, price)
  <2>1. ApproachTo(block, price) = IF price <= 0 THEN 0 ELSE ramp
    BY <1>2, <1>4, Zenon
  <2>2. t > 0
    BY <1>4 DEF TradedThrough, Inside, Beyond, FarEdge, NearEdge, Distance, Kinds
  <2> HIDE DEF t
  <2>3. price + 10 * t \in Nat /\ price + 10 * t > 0 /\ 625 * price \in Nat
        /\ 625 * price < 625 * (price + 10 * t)
    BY <1>1, <2>2
  <2>4. ramp < 625
    BY <2>3, ShareBelow DEF ramp
  <2>5. ApproachTo(block, price) = ramp /\ ramp \in Int
    <3>1. ~(price <= 0)
      OBVIOUS
    <3>2. ramp \in Int
      BY <2>3 DEF ramp
    <3>. QED
      BY <2>1, <3>1, <3>2
  <2>. QED
    BY <2>4, <2>5
<1>. QED
  BY <1>3, <1>4

\* A review and the levels printed under it agree about the zone price is
\* standing in (core.review.locate, core.nearby.levels_near).
THEOREM LevelsSideWithReview == Spec => []LevelsAgreeWithReview
<1>1. Init => LevelsAgreeWithReview
  BY DEF Init, LevelsAgreeWithReview
<1>2. ASSUME StateInv, ReachedZones(Reading.context) # {}
      PROVE  \E l \in Reading.levels :
               /\ l.inside /\ l.timeframe = "weekly"
               /\ l.side = IF Reading.review.where = "at_support" THEN "support" ELSE "resistance"
  <2> DEFINE context == Reading.context
             reached == ReachedZones(context)
             zone    == The(reached)
             block   == zone.block
             level   == LevelOf("weekly", block.top, block.bottom, block.kind, context.price)
  <2>1. Reading.levels = LevelsNear(context) /\ Reading.review.where = Locate(context)
    BY DEF Reading, Review
  <2>2. ContextTyped(context)
    BY <1>2, ReadingTyped
  <2> HIDE DEF context
  <2>3. zone \in reached
    <3> HIDE DEF reached
    <3>. QED
      BY <1>2 DEF The, context, reached
  <2> HIDE DEF zone
  <2>4. zone \in context.zones /\ zone.timeframe = "weekly" /\ ApproachTo(block, context.price) >= 625
    BY <2>3 DEF ReachedZones
  <2>5. context.price \in Nat /\ context.price > 0 /\ ZoneTyped(zone)
    BY <2>2, <2>4 DEF ContextTyped
  <2>6. Inside(block, context.price)
    BY <2>4, <2>5, ReachedIsInside DEF ZoneTyped
  <2>7. Locate(context) = IF block.kind = "bullish" THEN "at_support" ELSE "at_resistance"
    <3>1. reached # {}
      BY <1>2 DEF context
    <3>. QED
      BY <3>1, Zenon DEF Locate, zone
  <2> HIDE DEF block
  <2>8. /\ level.inside /\ level.timeframe = "weekly" /\ level.gap = 0
        /\ level.side = IF block.kind = "bearish" THEN "resistance" ELSE "support"
    <3> DEFINE standing == block.bottom <= context.price /\ context.price <= block.top
               own  == IF block.kind = "bearish" THEN "resistance" ELSE "support"
               side == CASE standing -> own
                         [] context.price > block.top -> "support"
                         [] OTHER -> "resistance"
               gap  == CASE standing -> 0
                         [] context.price > block.top -> context.price - block.top
                         [] OTHER -> block.bottom - context.price
    <3>1. standing
      BY <2>6 DEF Inside
    <3>2. ~(context.price > block.top)
      <4>1. block.top \in Int /\ context.price \in Int
        BY <2>5 DEF ZoneTyped, block
      <4>. QED
        BY <3>1, <4>1
    <3>3. /\ level.inside = standing /\ level.timeframe = "weekly"
          /\ level.gap = gap /\ level.side = side
      BY DEF LevelOf
    <3> HIDE DEF level, standing, own
    <3>4. side = own
      BY <3>1, <3>2, Zenon
    <3>5. gap = 0
      BY <3>1, <3>2, Zenon
    <3> HIDE DEF side, gap
    <3>. QED
      BY <3>1, <3>3, <3>4, <3>5 DEF own
  <2>9. level \in LevelsNear(context)
    <3>1. level = LevelOf(zone.timeframe, zone.block.top, zone.block.bottom, zone.block.kind, context.price)
      BY <2>4 DEF block
    <3> HIDE DEF level
    <3>2. level \in {LevelOf(z.timeframe, z.block.top, z.block.bottom, z.block.kind, context.price) :
                       z \in context.zones}
      BY <2>4, <3>1
    <3>3. context.price > 0 /\ 20 * level.gap <= context.price
      BY <2>5, <2>8
    <3>. QED
      BY <3>2, <3>3 DEF LevelsNear
  <2>10. block.kind = "bullish" \/ block.kind = "bearish"
    BY <2>5 DEF ZoneTyped, Kinds, block
  <2> HIDE DEF level
  <2>. QED
    BY <2>1, <2>7, <2>8, <2>9, <2>10
<1>3. ASSUME StateInv, LevelsAgreeWithReview, [Next]_vars PROVE LevelsAgreeWithReview'
  <2>1. CASE sitting' = sitting
    BY <1>3, <2>1 DEF LevelsAgreeWithReview
  <2>2. CASE sitting' = {Reading}
    <3>1. \A r \in sitting' : r = Reading
      BY <2>2
    <3>. QED
      BY <1>2, <1>3, <3>1 DEF LevelsAgreeWithReview
  <2>. QED
    BY <1>3, <2>1, <2>2, SitOnce
<1>. QED
  BY <1>1, <1>3, StateAlways, PTL DEF Spec
=============================================================================
