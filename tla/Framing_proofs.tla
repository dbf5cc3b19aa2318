--------------------------- MODULE Framing_proofs ---------------------------
(***************************************************************************)
(* Whatever a device sends, and whatever its line ends and the delimiters  *)
(* of the tenants it moves between: a message is taken as it was sent, once*)
(* and in order, is parsed into what the device asked, and is answered at  *)
(* most once, with its own response.                                       *)
(***************************************************************************)
EXTENDS Framing, SequenceTheorems, FiniteSetTheorems, WellFoundedInduction, TLAPS

---------------------------------------------------------------------------
(* Induction and recursion up to a number. *)

(* What holds of 0 and passes from each number to the next one holds of all: *)
(* otherwise there is a least initial stretch with a counterexample.         *)
LEMMA Induction ==
  ASSUME NEW n \in Nat, NEW S, 0 \in S, \A i \in 1..n : i - 1 \in S => i \in S
  PROVE  \A i \in 0..n : i \in S
<1> DEFINE upto(i) == 0..i
           D == {upto(i) : i \in {j \in 0..n : j \notin S}}
<1> SUFFICES ASSUME D # {} PROVE FALSE
  OBVIOUS
<1>1. D \subseteq FiniteSubsetsOf(0..n)
  <2>1. ASSUME NEW i \in 0..n PROVE IsFiniteSet(upto(i)) /\ upto(i) \in SUBSET (0..n)
    BY FS_Interval
  <2> QED
    BY <2>1 DEF FiniteSubsetsOf
<1>2. \E s \in D : \A t \in D : ~(<<t, s>> \in StrictSubsetOrdering(0..n))
  <2> HIDE DEF D
  <2> QED
    BY <1>1, FS_StrictSubsetOrderingWellFounded, WFMin
<1>3. PICK s \in D : \A t \in D : ~(t \subseteq s /\ t # s)
  BY <1>1, <1>2 DEF FiniteSubsetsOf, StrictSubsetOrdering
<1>4. PICK i \in 0..n : s = upto(i) /\ i \notin S
  OBVIOUS
<1>5. i # 0 /\ i - 1 \in 0..n /\ i - 1 \notin S
  BY <1>4
<1>6. upto(i - 1) \in D
  BY <1>5
<1>7. upto(i - 1) \subseteq upto(i) /\ i \in upto(i) /\ i \notin upto(i - 1)
  BY <1>5
<1> QED
  BY <1>3, <1>4, <1>6, <1>7

(* A recursion over the numbers up to n has a solution. *)
Solution(f, n, X, x0, step) ==
  f \in [0..n -> X] /\ f[0] = x0 /\ \A i \in 1..n : f[i] = step[i][f[i - 1]]

LEMMA Recursion ==
  ASSUME NEW n \in Nat, NEW X, NEW x0 \in X, NEW step \in [1..n -> [X -> X]]
  PROVE  \E f : Solution(f, n, X, x0, step)
<1> DEFINE Solves(f, m) == f[0] = x0 /\ \A i \in 1..m : f[i] = step[i][f[i - 1]]
           S == {m \in 0..n : \E f \in [0..m -> X] : Solves(f, m)}
<1>1. 0 \in S
  <2> DEFINE f == [i \in 0..0 |-> x0]
  <2>1. f \in [0..0 -> X] /\ Solves(f, 0)
    OBVIOUS
  <2> HIDE DEF f
  <2> QED
    BY <2>1
<1>2. ASSUME NEW m \in 1..n, m - 1 \in S PROVE m \in S
  <2>1. PICK f \in [0..(m - 1) -> X] : Solves(f, m - 1)
    BY <1>2
  <2> DEFINE g == [i \in 0..m |-> IF i = m THEN step[m][f[m - 1]] ELSE f[i]]
  <2>2. f[m - 1] \in X /\ step[m][f[m - 1]] \in X
    OBVIOUS
  <2>3. g \in [0..m -> X]
    BY <2>2
  <2>4. \A i \in 0..(m - 1) : g[i] = f[i]
    OBVIOUS
  <2>5. g[m] = step[m][g[m - 1]]
    BY <2>4
  <2> HIDE DEF g
  <2>6. Solves(g, m)
    BY <2>1, <2>4, <2>5
  <2> QED
    BY <2>3, <2>6
<1>3. \A m \in 0..n : m \in S
  <2> HIDE DEF S
  <2> QED
    BY <1>1, <1>2, Induction
<1> QED
  BY <1>3 DEF Solution

(* A set of positions has a first and a last one, if it has any. *)
LEMMA MaxExists ==
  ASSUME NEW n \in Nat, NEW T \in SUBSET (1..n), T # {}
  PROVE  Max(T) \in T /\ \A i \in T : i <= Max(T)
<1> DEFINE S == {m \in 0..n : (\E i \in T : i <= m) =>
                    \E i \in T : i <= m /\ \A j \in T : j <= m => j <= i}
<1>1. 0 \in S
  OBVIOUS
<1>2. ASSUME NEW m \in 1..n, m - 1 \in S PROVE m \in S
  <2>1. CASE m \in T
    BY <2>1
  <2>2. CASE m \notin T
    <3>1. \A i \in T : i <= m <=> i <= m - 1
      BY <2>2
    <3> QED
      BY <3>1, <1>2
  <2> QED
    BY <2>1, <2>2
<1>3. n \in S /\ \A i \in T : i <= n
  <2> HIDE DEF S
  <2> QED
    BY <1>1, <1>2, Induction
<1>4. \E i \in T : \A j \in T : i >= j
  BY <1>3
<1> QED
  BY <1>4 DEF Max

LEMMA MinExists ==
  ASSUME NEW n \in Nat, NEW T \in SUBSET (1..n), T # {}
  PROVE  Min(T) \in T /\ \A i \in T : Min(T) <= i
<1> DEFINE S == {m \in 0..n : (\E i \in T : i <= m) => \E i \in T : \A j \in T : i <= j}
<1>1. 0 \in S
  OBVIOUS
<1>2. ASSUME NEW m \in 1..n, m - 1 \in S PROVE m \in S
  <2>1. CASE \E i \in T : i <= m - 1
    BY <2>1, <1>2
  <2>2. CASE ~ \E i \in T : i <= m - 1
    <3>1. \A j \in T : m <= j
      BY <2>2
    <3> QED
      BY <3>1
  <2> QED
    BY <2>1, <2>2
<1>3. n \in S /\ \A i \in T : i <= n
  <2> HIDE DEF S
  <2> QED
    BY <1>1, <1>2, Induction
<1>4. \E i \in T : \A j \in T : i <= j
  BY <1>3
<1> QED
  BY <1>4 DEF Min

---------------------------------------------------------------------------
(* What a stretch of the stream is split into. *)

Names == STRING \cup {"CR", "LF", "AY", "AZ", "fixed", "sum", "none", "seq"}
Units == [ch : Names, n : Nat, sum : Nat, mark : Names]
Halves == [done : Seq(Seq(Units)), open : Seq(Units)]

(* The initial stretches of a sequence grow by one unit. *)
LEMMA PrefixGrows ==
  ASSUME NEW V, NEW us \in Seq(V), NEW w \in Seq(V), NEW i \in 1..Len(w)
  PROVE  /\ SubSeq(w, 1, i - 1) \in Seq(V) /\ w[i] \in V
         /\ SubSeq(w, 1, i) = Append(SubSeq(w, 1, i - 1), w[i])
         /\ us \o SubSeq(w, 1, i) = Append(us \o SubSeq(w, 1, i - 1), w[i])
<1>1. Len(w) \in Nat /\ i \in Nat /\ i - 1 \in Nat /\ i <= Len(w)
  OBVIOUS
<1>2. SubSeq(w, 1, i - 1) \in Seq(V) /\ Len(SubSeq(w, 1, i - 1)) = i - 1 /\ w[i] \in V
  BY <1>1
<1>3. SubSeq(w, 1, i) = Append(SubSeq(w, 1, i - 1), w[i])
  BY <1>1
<1> QED
  BY <1>1, <1>2, <1>3

LEMMA Concat ==
  ASSUME NEW s \in Seq(Units), NEW t \in Seq(Units)
  PROVE  /\ s \o t \in Seq(Units) /\ Len(s) \in Nat /\ Len(t) \in Nat
         /\ Len(s \o t) = Len(s) + Len(t) /\ DOMAIN (s \o t) = 1..(Len(s) + Len(t))
         /\ \A i \in 1..Len(s) : (s \o t)[i] = s[i]
         /\ \A i \in 1..Len(t) : (s \o t)[Len(s) + i] = t[i]
OBVIOUS

LEMMA SplitNextType ==
  ASSUME NEW acc \in Halves, NEW u \in Units
  PROVE  SplitNext(acc, u) \in Halves
<1>1. acc = [done |-> acc.done, open |-> acc.open]
  BY DEF Halves
<1>2. /\ acc.done \in Seq(Seq(Units)) /\ acc.open \in Seq(Units)
      /\ Append(acc.open, u) \in Seq(Units)
      /\ Append(acc.done, acc.open) \in Seq(Seq(Units)) /\ << >> \in Seq(Units)
  BY DEF Halves
<1>3. [acc EXCEPT !.open = Append(@, u)] = [done |-> acc.done, open |-> Append(acc.open, u)]
  BY <1>1
<1> QED
  BY <1>2, <1>3 DEF Halves, SplitNext

(* The recursion of Split, with its solution. *)
SplitsBy(us, g) ==
  g = [i \in 0..Len(us) |-> IF i = 0 THEN NothingRead ELSE SplitNext(g[i - 1], us[i])]

LEMMA SplitUnfolds ==
  ASSUME NEW us \in Seq(Units)
  PROVE  \E g \in [0..Len(us) -> Halves] :
           /\ Split(us) = g[Len(us)] /\ g[0] = NothingRead
           /\ \A i \in 1..Len(us) : g[i] = SplitNext(g[i - 1], us[i])
<1> DEFINE n == Len(us)
           step == [i \in 1..n |-> [x \in Halves |-> SplitNext(x, us[i])]]
<1>1. n \in Nat /\ NothingRead \in Halves
  BY DEF NothingRead, Halves
<1>2. step \in [1..n -> [Halves -> Halves]]
  BY SplitNextType
<1>3. PICK f : Solution(f, n, Halves, NothingRead, step)
  <2> HIDE DEF step, n
  <2> QED
    BY <1>1, <1>2, Recursion
<1>4. \A i \in 1..n : f[i - 1] \in Halves /\ f[i] = SplitNext(f[i - 1], us[i])
  <2>1. \A i \in 1..n : i - 1 \in 0..n /\ \A x \in Halves : step[i][x] = SplitNext(x, us[i])
    BY <1>1
  <2> HIDE DEF step, n
  <2> QED
    BY <1>3, <2>1 DEF Solution
<1>5. f = [i \in 0..n |-> IF i = 0 THEN NothingRead ELSE SplitNext(f[i - 1], us[i])]
  <2> DEFINE h == [i \in 0..n |-> IF i = 0 THEN NothingRead ELSE SplitNext(f[i - 1], us[i])]
  <2>1. \A i \in 0..n : f[i] = h[i]
    BY <1>1, <1>3, <1>4 DEF Solution
  <2>2. f = [i \in 0..n |-> f[i]]
    BY <1>3 DEF Solution
  <2> QED
    BY <2>1, <2>2
<1> DEFINE g == CHOOSE h : SplitsBy(us, h)
<1>6. SplitsBy(us, g)
  BY <1>5 DEF SplitsBy
<1>7. Split(us) = g[n]
  BY DEF Split, SplitsBy
<1> HIDE DEF g
<1>8. g[0] = NothingRead /\ \A i \in 1..n : g[i] = SplitNext(g[i - 1], us[i])
  BY <1>1, <1>6 DEF SplitsBy
<1>9. \A i \in 0..n : g[i] \in Halves
  <2> DEFINE S == {i \in 0..n : g[i] \in Halves}
  <2>1. 0 \in S /\ \A i \in 1..n : i - 1 \in S => i \in S
    BY <1>1, <1>8, SplitNextType
  <2> HIDE DEF S
  <2>2. \A i \in 0..n : i \in S
    BY <1>1, <2>1, Induction
  <2> QED
    BY <2>2 DEF S
<1>10. DOMAIN g = 0..n /\ g = [i \in DOMAIN g |-> g[i]]
  BY <1>6 DEF SplitsBy
<1> QED
  BY <1>7, <1>8, <1>9, <1>10

LEMMA SplitType ==
  ASSUME NEW us \in Seq(Units)
  PROVE  /\ Split(us) \in Halves
         /\ Complete(us) \in Seq(Seq(Units)) /\ Split(us).open \in Seq(Units)
BY SplitUnfolds DEF Halves, Complete

LEMMA SplitEmpty == Split(<<>>) = NothingRead
<1>1. << >> \in Seq(Units) /\ Len(<< >>) = 0
  OBVIOUS
<1> QED
  BY <1>1, SplitUnfolds

LEMMA SplitAppend ==
  ASSUME NEW us \in Seq(Units), NEW u \in Units
  PROVE  Split(Append(us, u)) = SplitNext(Split(us), u)
<1> DEFINE n == Len(us)
           vs == Append(us, u)
<1>1. /\ n \in Nat /\ vs \in Seq(Units) /\ Len(vs) = n + 1 /\ vs[n + 1] = u
      /\ \A i \in 1..n : vs[i] = us[i]
  OBVIOUS
<1>2. PICK f \in [0..n -> Halves] :
           /\ Split(us) = f[n] /\ f[0] = NothingRead
           /\ \A i \in 1..n : f[i] = SplitNext(f[i - 1], us[i])
  BY SplitUnfolds
<1>3. PICK g \in [0..(n + 1) -> Halves] :
           /\ Split(vs) = g[n + 1] /\ g[0] = NothingRead
           /\ \A i \in 1..(n + 1) : g[i] = SplitNext(g[i - 1], vs[i])
  <2> HIDE DEF vs, n
  <2> QED
    BY <1>1, SplitUnfolds
<1> DEFINE S == {i \in 0..n : f[i] = g[i]}
<1>4. 0 \in S /\ \A i \in 1..n : i - 1 \in S => i \in S
  BY <1>1, <1>2, <1>3
<1>5. n \in S
  <2> HIDE DEF S, n
  <2>1. \A i \in 0..n : i \in S
    BY <1>1, <1>4, Induction
  <2> QED
    BY <2>1, <1>1
<1>6. n + 1 \in 1..(n + 1)
  BY <1>1
<1> HIDE DEF n, vs
<1>7. g[n + 1] = SplitNext(g[n + 1 - 1], vs[n + 1]) /\ n + 1 - 1 = n
  BY <1>1, <1>3, <1>6
<1> QED
  BY <1>1, <1>2, <1>3, <1>5, <1>7 DEF vs

LEMMA ControlTypes == CR \in Units /\ LF \in Units /\ IsControl(CR) /\ IsControl(LF) /\ CR # LF
<1>1. CR \in Units /\ LF \in Units
  BY DEF CR, LF, Unit, Units, Names
<1>2. CR.ch # LF.ch
  BY DEF CR, LF, Unit
<1> QED
  BY <1>1, <1>2 DEF IsControl

(* What can be said of every initial stretch of a sequence, because it can  *)
(* be said of the empty one and one more unit does not change it, can be    *)
(* said of the sequence.                                                    *)
LEMMA PrefixInduction ==
  ASSUME NEW V, NEW w \in Seq(V), NEW S, << >> \in S,
         \A i \in 1..Len(w) : SubSeq(w, 1, i - 1) \in S =>
                                Append(SubSeq(w, 1, i - 1), w[i]) \in S
  PROVE  w \in S
<1> DEFINE n == Len(w)
           T == {i \in 0..n : SubSeq(w, 1, i) \in S}
<1>1. n \in Nat /\ SubSeq(w, 1, 0) = << >> /\ SubSeq(w, 1, n) = w
  OBVIOUS
<1>2. 0 \in T
  <2>1. 0 \in 0..n
    BY <1>1
  <2>2. SubSeq(w, 1, 0) \in S
    BY <1>1, Zenon
  <2> QED
    BY <2>1, <2>2, Zenon
<1>3. ASSUME NEW i \in 1..n, i - 1 \in T PROVE i \in T
  <2>1. SubSeq(w, 1, i) = Append(SubSeq(w, 1, i - 1), w[i])
    BY PrefixGrows
  <2>2. i \in 0..n /\ SubSeq(w, 1, i - 1) \in S
    BY <1>3
  <2>3. SubSeq(w, 1, i) \in S
    BY <2>1, <2>2
  <2> HIDE DEF n
  <2> QED
    BY <2>2, <2>3
<1>4. n \in T
  <2> HIDE DEF T, n
  <2>1. \A i \in 0..n : i \in T
    BY <1>1, <1>2, <1>3, Induction
  <2> QED
    BY <1>1, <2>1
<1> QED
  BY <1>1, <1>4

(* A stretch without line ends is a part of one message. *)
LEMMA SplitClean ==
  ASSUME NEW us \in Seq(Units), \A i \in DOMAIN us : ~IsControl(us[i])
  PROVE  Split(us) = [done |-> << >>, open |-> us]
<1> DEFINE S == {w \in Seq(Units) : Split(w) = [done |-> << >>, open |-> w]}
<1>1. << >> \in S
  BY SplitEmpty DEF NothingRead
<1>2. ASSUME NEW i \in 1..Len(us), SubSeq(us, 1, i - 1) \in S
      PROVE  Append(SubSeq(us, 1, i - 1), us[i]) \in S
  <2> DEFINE v == SubSeq(us, 1, i - 1)
             u == us[i]
  <2>1. v \in Seq(Units) /\ u \in Units /\ ~IsControl(u) /\ Append(v, u) \in Seq(Units)
    BY PrefixGrows
  <2>2. Split(v) = [done |-> << >>, open |-> v]
    BY <1>2
  <2> HIDE DEF v, u
  <2>3. Split(Append(v, u)) = [done |-> << >>, open |-> Append(v, u)]
    BY <2>1, <2>2, SplitAppend DEF SplitNext
  <2> QED
    BY <2>1, <2>3 DEF v, u
<1>3. us \in S
  <2> HIDE DEF S
  <2> QED
    BY <1>1, <1>2, PrefixInduction
<1> QED
  BY <1>3

(* After a line end no message is under way. *)
LEMMA SplitEnded ==
  ASSUME NEW us \in Seq(Units), us # << >>, IsControl(Last(us))
  PROVE  Split(us).open = << >>
<1>1. Len(us) \in 1..Len(us) /\ SubSeq(us, 1, Len(us)) = us
  OBVIOUS
<1> DEFINE v == SubSeq(us, 1, Len(us) - 1)
<1>2. us = Append(v, Last(us)) /\ v \in Seq(Units) /\ Last(us) \in Units
  BY <1>1, PrefixGrows DEF Last
<1> HIDE DEF v
<1>3. Split(us) = SplitNext(Split(v), Last(us))
  BY <1>2, SplitAppend
<1> QED
  BY <1>3 DEF SplitNext

(* A message with its line end: however the line ends. *)
LEMMA SplitMessage ==
  ASSUME NEW us \in Seq(Units), us # << >>, \A i \in DOMAIN us : ~IsControl(us[i]),
         NEW c \in Units, IsControl(c), NEW d \in Units, IsControl(d)
  PROVE  /\ Split(Append(us, c)) = [done |-> << us >>, open |-> << >>]
         /\ Split(Append(Append(us, c), d)) = [done |-> << us >>, open |-> << >>]
<1>1. Split(us) = [done |-> << >>, open |-> us]
  BY SplitClean
<1>2. Append(<< >>, us) = << us >> /\ Append(us, c) \in Seq(Units)
  OBVIOUS
<1>3. Split(Append(us, c)) = [done |-> << us >>, open |-> << >>]
  <2>1. Split(Append(us, c)) = SplitNext([done |-> << >>, open |-> us], c)
    BY <1>1, SplitAppend
  <2>2. SplitNext([done |-> << >>, open |-> us], c)
          = [done |-> Append(<< >>, us), open |-> << >>]
    BY DEF SplitNext
  <2> QED
    BY <2>1, <2>2, <1>2
<1>4. Split(Append(Append(us, c), d)) = SplitNext(Split(Append(us, c)), d)
  <2> DEFINE v == Append(us, c)
  <2> HIDE DEF v
  <2>1. v \in Seq(Units)
    BY <1>2 DEF v
  <2>2. Split(Append(v, d)) = SplitNext(Split(v), d)
    BY <2>1, SplitAppend
  <2> QED
    BY <2>2 DEF v
<1> QED
  BY <1>3, <1>4 DEF SplitNext

(* Appending to the second half of a sequence appends to the whole. *)
LEMMA ConcatAppends ==
  ASSUME NEW T, NEW s \in Seq(T), NEW t \in Seq(T), NEW e \in T
  PROVE  s \o Append(t, e) = Append(s \o t, e) /\ s \o t \in Seq(T)
OBVIOUS

(* Behind a stretch that leaves no message under way, the stream is split   *)
(* as it would be on its own.                                               *)
LEMMA SplitConcat ==
  ASSUME NEW us \in Seq(Units), Split(us).open = << >>, NEW w \in Seq(Units)
  PROVE  /\ Complete(us \o w) = Complete(us) \o Complete(w)
         /\ Split(us \o w).open = Split(w).open
<1> DEFINE Behind(v) == [done |-> Complete(us) \o Split(v).done, open |-> Split(v).open]
           S == {v \in Seq(Units) : Split(us \o v) = Behind(v)}
<1>1. << >> \in S
  <2>1. us \o << >> = us /\ << >> \in Seq(Units) /\ Complete(us) \in Seq(Seq(Units))
    BY SplitType
  <2>2. Complete(us) \o << >> = Complete(us)
    BY <2>1
  <2>3. Split(us) \in Halves
    BY SplitType
  <2>4. Split(us) = [done |-> Complete(us), open |-> << >>]
    BY <2>3 DEF Halves, Complete
  <2> QED
    BY <2>1, <2>2, <2>4, SplitEmpty DEF NothingRead
<1>2. ASSUME NEW i \in 1..Len(w), SubSeq(w, 1, i - 1) \in S
      PROVE  Append(SubSeq(w, 1, i - 1), w[i]) \in S
  <2> DEFINE v == SubSeq(w, 1, i - 1)
             u == w[i]
  <2>1. v \in Seq(Units) /\ u \in Units /\ Append(v, u) \in Seq(Units)
    BY PrefixGrows
  <2>2. Split(us \o v) = Behind(v)
    BY <1>2
  <2> HIDE DEF v, u
  <2>3. us \o Append(v, u) = Append(us \o v, u) /\ us \o v \in Seq(Units)
    BY <2>1, ConcatAppends
  <2>4. Split(us \o Append(v, u)) = SplitNext(Behind(v), u)
    BY <2>1, <2>2, <2>3, SplitAppend
  <2>5. Split(Append(v, u)) = SplitNext(Split(v), u)
    BY <2>1, SplitAppend
  <2>6. /\ Complete(us) \in Seq(Seq(Units))
        /\ Split(v).done \in Seq(Seq(Units)) /\ Split(v).open \in Seq(Units)
        /\ Split(v) = [done |-> Split(v).done, open |-> Split(v).open]
    BY <2>1, SplitType DEF Halves
  <2>7. Complete(us) \o Append(Split(v).done, Split(v).open)
          = Append(Complete(us) \o Split(v).done, Split(v).open)
    BY <2>6, ConcatAppends
  <2> DEFINE a == Split(v)
  <2>8. SplitNext(Behind(v), u) =
          [done |-> Complete(us) \o SplitNext(a, u).done, open |-> SplitNext(a, u).open]
    <3> HIDE DEF a
    <3>1. CASE IsControl(u)
      BY <3>1, <2>7 DEF SplitNext, a
    <3>2. CASE ~IsControl(u)
      BY <3>2, <2>6 DEF SplitNext, a
    <3> QED
      BY <3>1, <3>2
  <2>9. Append(v, u) \in S
    BY <2>1, <2>4, <2>5, <2>8
  <2> QED
    BY <2>9 DEF v, u
<1>3. w \in S
  <2> HIDE DEF S
  <2> QED
    BY <1>1, <1>2, PrefixInduction
<1>4. Split(us \o w) = Behind(w)
  BY <1>3
<1>5. Split(us \o w).done = Complete(us) \o Split(w).done /\ Split(us \o w).open = Split(w).open
  BY <1>4
<1> QED
  BY <1>5 DEF Complete

---------------------------------------------------------------------------
(* What readMessage takes for a delimiter. *)

LEMMA SuffixIs ==
  ASSUME NEW s \in Seq(Units), NEW t \in Seq(Units)
  PROVE  IsSuffix(s, t) <=>
           /\ Len(s) <= Len(t)
           /\ \A i \in 1..Len(s) : s[Len(s) - i + 1] = t[Len(t) - i + 1]
<1> DEFINE a == Reverse(s)
           b == Reverse(t)
<1>1. /\ Len(s) \in Nat /\ Len(t) \in Nat
      /\ a \in Seq(Units) /\ Len(a) = Len(s) /\ \A i \in 1..Len(s) : a[i] = s[Len(s) - i + 1]
      /\ b \in Seq(Units) /\ Len(b) = Len(t) /\ \A i \in 1..Len(t) : b[i] = t[Len(t) - i + 1]
  BY DEF Reverse
<1>2. IsSuffix(s, t) <=> IsPrefix(a, b)
  BY DEF IsSuffix
<1> HIDE DEF a, b
<1>3. ASSUME Len(a) <= Len(b)
      PROVE  SubSeq(a, 1, Len(a)) = SubSeq(b, 1, Len(a)) <=> \A i \in 1..Len(a) : a[i] = b[i]
  <2> DEFINE x == SubSeq(a, 1, Len(a))
             y == SubSeq(b, 1, Len(a))
  <2>1. /\ x \in Seq(Units) /\ Len(x) = Len(a) /\ \A i \in 1..Len(a) : x[i] = a[i]
        /\ y \in Seq(Units) /\ Len(y) = Len(a) /\ \A i \in 1..Len(a) : y[i] = b[i]
    BY <1>1, <1>3
  <2> HIDE DEF x, y
  <2>2. x = y <=> \A i \in 1..Len(a) : x[i] = y[i]
    BY <2>1
  <2> QED
    BY <2>1, <2>2 DEF x, y
<1>4. IsSuffix(s, t) <=> Len(a) <= Len(b) /\ \A i \in 1..Len(a) : a[i] = b[i]
  BY <1>2, <1>3 DEF IsPrefix
<1>5. ASSUME Len(s) <= Len(t)
      PROVE  (\A i \in 1..Len(s) : a[i] = b[i])
               <=> \A i \in 1..Len(s) : s[Len(s) - i + 1] = t[Len(t) - i + 1]
  <2>1. ASSUME NEW i \in 1..Len(s)
        PROVE  a[i] = s[Len(s) - i + 1] /\ b[i] = t[Len(t) - i + 1]
    <3>1. i \in 1..Len(t)
      BY <1>1, <1>5
    <3> QED
      BY <1>1, <3>1, Zenon
  <2>2. ASSUME NEW i \in 1..Len(s)
        PROVE  a[i] = b[i] <=> s[Len(s) - i + 1] = t[Len(t) - i + 1]
    BY <2>1, Zenon
  <2> QED
    BY <2>2
<1> QED
  BY <1>1, <1>4, <1>5

LEMMA EndsIn ==
  ASSUME NEW us \in Seq(Units), NEW d \in {"CR", "LF", "CRLF"}
  PROVE  /\ d = "CR" => (IsSuffix(Bytes(d), us) <=> us # << >> /\ Last(us) = CR)
         /\ d = "LF" => (IsSuffix(Bytes(d), us) <=> us # << >> /\ Last(us) = LF)
         /\ d = "CRLF" => (IsSuffix(Bytes(d), us) <=>
                             Len(us) >= 2 /\ us[Len(us) - 1] = CR /\ us[Len(us)] = LF)
<1>1. Len(us) \in Nat /\ (us # << >> <=> Len(us) >= 1)
  OBVIOUS
<1>2. << CR >> \in Seq(Units) /\ << LF >> \in Seq(Units) /\ << CR, LF >> \in Seq(Units)
  BY ControlTypes
<1>3. ASSUME NEW c \in Units
      PROVE  IsSuffix(<< c >>, us) <=> us # << >> /\ Last(us) = c
  <2> DEFINE s == << c >>
  <2>1. s \in Seq(Units) /\ Len(s) = 1 /\ s[1] = c
    OBVIOUS
  <2> HIDE DEF s
  <2>2. IsSuffix(s, us) <=>
           Len(s) <= Len(us) /\ \A i \in 1..Len(s) : s[Len(s) - i + 1] = us[Len(us) - i + 1]
    BY <2>1, SuffixIs
  <2>3. (\A i \in 1..1 : s[1 - i + 1] = us[Len(us) - i + 1]) <=> s[1] = us[Len(us)]
    BY <1>1
  <2> QED
    BY <1>1, <2>1, <2>2, <2>3 DEF s, Last
<1>4. IsSuffix(<< CR, LF >>, us) <=> Len(us) >= 2 /\ us[Len(us) - 1] = CR /\ us[Len(us)] = LF
  <2> DEFINE s == << CR, LF >>
  <2>1. s \in Seq(Units) /\ Len(s) = 2 /\ s[1] = CR /\ s[2] = LF
    BY <1>2
  <2> HIDE DEF s
  <2>2. IsSuffix(s, us) <=>
           Len(s) <= Len(us) /\ \A i \in 1..Len(s) : s[Len(s) - i + 1] = us[Len(us) - i + 1]
    BY <2>1, SuffixIs
  <2>3. (\A i \in 1..2 : s[2 - i + 1] = us[Len(us) - i + 1])
          <=> s[2] = us[Len(us)] /\ s[1] = us[Len(us) - 1]
    BY <1>1
  <2> QED
    BY <1>1, <2>1, <2>2, <2>3 DEF s
<1> QED
  BY <1>3, <1>4, ControlTypes DEF Bytes

---------------------------------------------------------------------------
(* What a device sends for a request. *)

LEMMA UnitFacts ==
  ASSUME NEW u \in Units
  PROVE  u.n \in Nat /\ u.sum \in Nat /\ u.ch \in Names /\ u.mark \in Names
BY DEF Units

LEMMA RequestFacts ==
  ASSUME NEW r \in Requests
  PROVE  /\ r.code \in Names /\ r.code \notin Reserved /\ r.seq \in Names
         /\ r.fixed \in Nat /\ r.fixed = FixedLength(r.code)
         /\ r.fields \in Seq(Units) /\ Len(r.fields) \in Nat
         /\ \A i \in 1..Len(r.fields) :
              /\ r.fields[i] \in Units /\ r.fields[i].ch \notin Reserved
              /\ r.fields[i].mark \in {"none", "AY", "AZ"} /\ ~IsControl(r.fields[i])
<1>1. r \in Request
  BY FramingAssumption
<1>2. /\ r.code \in STRING \ Reserved /\ r.fixed \in Nat /\ r.fields \in Seq(FieldUnits)
      /\ r.seq \in STRING /\ r.fixed = FixedLength(r.code)
  BY <1>1 DEF Request
<1>3. ASSUME NEW u \in FieldUnits
      PROVE  /\ u \in Units /\ u.ch \notin Reserved
             /\ u.mark \in {"none", "AY", "AZ"} /\ ~IsControl(u)
  BY DEF FieldUnits, Units, Names
<1>4. r.fields \in Seq(Units)
  BY <1>2, <1>3
<1>5. \A i \in 1..Len(r.fields) : r.fields[i] \in FieldUnits
  BY <1>2
<1> QED
  BY <1>2, <1>3, <1>4, <1>5 DEF Names

(* The units that are not fields. *)
LEMMA FixedUnits ==
  ASSUME NEW r \in Requests
  PROVE  /\ CodeUnit(r.code) \in Units /\ ~IsControl(CodeUnit(r.code))
         /\ FixedUnit(r.fixed) \in Units /\ ~IsControl(FixedUnit(r.fixed))
         /\ AY \in Units /\ ~IsControl(AY) /\ AZ \in Units /\ ~IsControl(AZ)
         /\ SeqUnit(r.seq) \in Units /\ ~IsControl(SeqUnit(r.seq))
<1>1. r.code \in Names /\ r.seq \in Names /\ r.fixed \in Nat
  BY RequestFacts
<1>2. ASSUME NEW ch \in Names, NEW n \in Nat, NEW sum \in Nat, NEW mark \in Names
      PROVE  /\ Unit(ch, n, sum, mark) \in Units
             /\ n # 1 \/ ch \notin {"CR", "LF"} \/ mark # "none" => ~IsControl(Unit(ch, n, sum, mark))
  BY DEF Unit, Units, IsControl, CR, LF
<1>3. 7 * r.fixed \in Nat
  BY <1>1
<1>4. CodeUnit(r.code) \in Units /\ ~IsControl(CodeUnit(r.code))
  <2>1. "none" \in Names /\ 2 \in Nat /\ 100 \in Nat /\ 2 # 1
    BY DEF Names
  <2>2. Unit(r.code, 2, 100, "none") \in Units /\ ~IsControl(Unit(r.code, 2, 100, "none"))
    BY <1>1, <1>2, <2>1, Zenon
  <2> QED
    BY <2>2 DEF CodeUnit
<1>5. FixedUnit(r.fixed) \in Units /\ ~IsControl(FixedUnit(r.fixed))
  BY <1>1, <1>2, <1>3 DEF FixedUnit, Names
<1>6. SeqUnit(r.seq) \in Units /\ ~IsControl(SeqUnit(r.seq))
  BY <1>1, <1>2 DEF SeqUnit, Names
<1>7. AY \in Units /\ ~IsControl(AY) /\ AZ \in Units /\ ~IsControl(AZ)
  BY <1>2 DEF AY, AZ, Names
<1> QED
  BY <1>4, <1>5, <1>6, <1>7

(* The recursion of Sum16, whose values are words of 16 bits.               *)
Words == 0..(Word - 1)
Added(x, u) == (x + u.sum) % Word
SummedBy(us, g) == g = [i \in 0..Len(us) |-> IF i = 0 THEN 0 ELSE Added(g[i - 1], us[i])]

LEMMA AddedType ==
  ASSUME NEW x \in Words, NEW u \in Units
  PROVE  Added(x, u) \in Words
<1>1. Word \in Nat \ {0}
  BY DEF Word
<1>2. ASSUME NEW a \in Nat, NEW b \in Nat, NEW m \in Nat \ {0} PROVE (a + b) % m \in 0..(m - 1)
  OBVIOUS
<1>3. u.sum \in Nat /\ x \in Nat
  BY UnitFacts, <1>1 DEF Words
<1> QED
  BY <1>1, <1>2, <1>3, Zenon DEF Added, Words

LEMMA Sum16Type ==
  ASSUME NEW us \in Seq(Units)
  PROVE  Sum16(us) \in Words
<1> DEFINE n == Len(us)
           step == [i \in 1..n |-> [x \in Words |-> Added(x, us[i])]]
           g == CHOOSE h : SummedBy(us, h)
<1>1. n \in Nat
  OBVIOUS
<1>2. 0 \in Words
  BY DEF Words, Word
<1>3. step \in [1..n -> [Words -> Words]]
  BY AddedType
<1>4. PICK f : Solution(f, n, Words, 0, step)
  <2> HIDE DEF step, n
  <2> QED
    BY <1>1, <1>2, <1>3, Recursion
<1>5. \A i \in 1..n : f[i] = Added(f[i - 1], us[i])
  <2>1. \A i \in 1..n : i - 1 \in 0..n /\ \A x \in Words : step[i][x] = Added(x, us[i])
    BY <1>1
  <2> HIDE DEF step, n
  <2> QED
    BY <1>4, <2>1 DEF Solution
<1>6. SummedBy(us, f)
  <2> DEFINE h == [i \in 0..n |-> IF i = 0 THEN 0 ELSE Added(f[i - 1], us[i])]
  <2>1. \A i \in 0..n : f[i] = h[i]
    BY <1>1, <1>4, <1>5 DEF Solution
  <2>2. f = [i \in 0..n |-> f[i]]
    BY <1>4 DEF Solution
  <2> QED
    BY <2>1, <2>2 DEF SummedBy
<1>7. SummedBy(us, g)
  BY <1>6
<1>8. Sum16(us) = g[n]
  BY DEF Sum16, SummedBy, Added
<1> HIDE DEF g
<1>9. g[0] = 0 /\ \A i \in 1..n : g[i] = Added(g[i - 1], us[i])
  BY <1>1, <1>7 DEF SummedBy
<1> DEFINE S == {i \in 0..n : g[i] \in Words}
<1>10. 0 \in S /\ \A i \in 1..n : i - 1 \in S => i \in S
  BY <1>1, <1>9, <1>2, AddedType
<1>11. n \in S
  <2> HIDE DEF S, n
  <2>1. \A i \in 0..n : i \in S
    BY <1>1, <1>10, Induction
  <2> QED
    BY <1>1, <2>1
<1> QED
  BY <1>8, <1>11

(* The unit of the checksum: one more than it should be if garbled. *)
SumOf(us, garbled) ==
  IF garbled THEN [Checksum(us) EXCEPT !.sum = (@ + 1) % Word] ELSE Checksum(us)

LEMMA SumOfType ==
  ASSUME NEW us \in Seq(Units), NEW g \in BOOLEAN
  PROVE  /\ SumOf(us, g) \in Units /\ ~IsControl(SumOf(us, g))
         /\ SumOf(us, g).ch = "sum" /\ SumOf(us, g).mark = "none"
         /\ SumOf(us, g).sum = IF g THEN (((Word - Sum16(us)) % Word) + 1) % Word
                               ELSE (Word - Sum16(us)) % Word
<1> DEFINE w == (Word - Sum16(us)) % Word
           s == IF g THEN (w + 1) % Word ELSE w
<1>1. s \in Nat
  <2>1. Word \in Nat \ {0} /\ Sum16(us) \in 0..(Word - 1)
    <3>1. Word \in Nat \ {0}
      BY DEF Word
    <3> QED
      BY <3>1, Sum16Type DEF Words
  <2>2. ASSUME NEW m \in Nat \ {0}, NEW a \in 0..(m - 1)
        PROVE  (m - a) % m \in Nat /\ (((m - a) % m) + 1) % m \in Nat
    OBVIOUS
  <2>3. w \in Nat /\ (w + 1) % Word \in Nat
    BY <2>1, <2>2
  <2> QED
    BY <2>3
<1>2. SumOf(us, g) = [ch |-> "sum", n |-> 4, sum |-> s, mark |-> "none"]
  BY DEF SumOf, Checksum, Unit
<1> HIDE DEF s
<1>3. SumOf(us, g) \in Units
  BY <1>1, <1>2 DEF Units, Names
<1>4. ~IsControl(SumOf(us, g))
  BY <1>2 DEF IsControl, CR, LF, Unit
<1> QED
  BY <1>2, <1>3, <1>4 DEF s

(* The request as text: its code, its fixed part if it has one, its fields. *)
FixedPart(r) == IF r.fixed = 0 THEN << >> ELSE << FixedUnit(r.fixed) >>
FixedUnitsOf(r) == IF r.fixed = 0 THEN 0 ELSE 1
Text(r) == << CodeUnit(r.code) >> \o FixedPart(r) \o r.fields
TrailerOf(r) == << AY, SeqUnit(r.seq), AZ >>
TextLength(r) == 1 + FixedUnitsOf(r) + Len(r.fields)

LEMMA TextShape ==
  ASSUME NEW r \in Requests
  PROVE  /\ Text(r) \in Seq(Units) /\ Len(Text(r)) = TextLength(r)
         /\ Text(r)[1] = CodeUnit(r.code)
         /\ r.fixed # 0 => Text(r)[2] = FixedUnit(r.fixed)
         /\ \A i \in 1..Len(r.fields) : Text(r)[1 + FixedUnitsOf(r) + i] = r.fields[i]
<1>1. /\ r.fields \in Seq(Units) /\ Len(r.fields) \in Nat
      /\ CodeUnit(r.code) \in Units /\ FixedUnit(r.fixed) \in Units
  BY RequestFacts, FixedUnits
<1> DEFINE c == CodeUnit(r.code)
           x == FixedUnit(r.fixed)
           f == r.fields
<1> HIDE DEF c, x, f
<1>2. f \in Seq(Units) /\ Len(f) \in Nat /\ c \in Units /\ x \in Units
  BY <1>1 DEF c, x, f
<1>3. CASE r.fixed = 0
  <2>1. Text(r) = << c >> \o f
    <3>1. << c >> \o << >> = << c >>
      BY <1>2
    <3> QED
      BY <1>3, <3>1 DEF Text, FixedPart, c, f
  <2>2. /\ << c >> \o f \in Seq(Units) /\ Len(<< c >> \o f) = 1 + Len(f)
        /\ (<< c >> \o f)[1] = c /\ \A i \in 1..Len(f) : (<< c >> \o f)[1 + i] = f[i]
    BY <1>2
  <2>3. FixedUnitsOf(r) = 0
    BY <1>3 DEF FixedUnitsOf
  <2>4. 1 + 0 = 1
    OBVIOUS
  <2> QED
    BY <1>3, <2>1, <2>2, <2>3, <2>4 DEF TextLength, c, f
<1>4. CASE r.fixed # 0
  <2> DEFINE t == << c >> \o << x >> \o f
  <2>1. Text(r) = t
    BY <1>4 DEF Text, FixedPart, c, x, f
  <2>2. /\ t \in Seq(Units) /\ Len(t) = 2 + Len(f)
        /\ t[1] = c /\ t[2] = x /\ \A i \in 1..Len(f) : t[2 + i] = f[i]
    <3>1. << c >> \o << x >> \in Seq(Units)
          /\ Len(<< c >> \o << x >>) = 2 /\ (<< c >> \o << x >>)[1] = c
          /\ (<< c >> \o << x >>)[2] = x
      BY <1>2
    <3> DEFINE p == << c >> \o << x >>
    <3> HIDE DEF p
    <3> QED
      BY <1>2, <3>1 DEF p
  <2>3. FixedUnitsOf(r) = 1 /\ 1 + 1 = 2
    BY <1>4 DEF FixedUnitsOf
  <2> HIDE DEF t
  <2> QED
    BY <1>4, <2>1, <2>2, <2>3 DEF TextLength, c, x, f
<1> QED
  BY <1>3, <1>4

(* What follows the text if the device sends checksums. *)
LEMMA EncodeShape ==
  ASSUME NEW r \in Requests, NEW g \in BOOLEAN
  PROVE  LET n == TextLength(r)
             e == Encode(r, TRUE, g)
         IN /\ Encode(r, FALSE, g) = Text(r)
            /\ e \in Seq(Units) /\ Len(e) = n + 4
            /\ \A i \in 1..n : e[i] = Text(r)[i]
            /\ e[n + 1] = AY /\ e[n + 2] = SeqUnit(r.seq) /\ e[n + 3] = AZ
            /\ Front(e) = Text(r) \o TrailerOf(r)
            /\ e[n + 4] = SumOf(Text(r) \o TrailerOf(r), g)
<1> DEFINE n == TextLength(r)
           e == Encode(r, TRUE, g)
           t == Text(r)
           z == TrailerOf(r)
           u == SumOf(t \o z, g)
<1>1. t \in Seq(Units) /\ Len(t) = n /\ n \in Nat
  <2>1. Len(r.fields) \in Nat /\ FixedUnitsOf(r) \in {0, 1}
    BY RequestFacts DEF FixedUnitsOf
  <2>2. TextLength(r) \in Nat
    BY <2>1 DEF TextLength
  <2> QED
    BY <2>2, TextShape
<1>2. z \in Seq(Units) /\ Len(z) = 3 /\ z[1] = AY /\ z[2] = SeqUnit(r.seq) /\ z[3] = AZ
  BY FixedUnits DEF TrailerOf
<1>3. Encode(r, FALSE, g) = t
  BY DEF Encode, Text, FixedPart
<1>4. e = Append(t \o z, u)
  BY DEF Encode, Text, FixedPart, TrailerOf, SumOf
<1> HIDE DEF e, n, t, z
<1>5. /\ t \o z \in Seq(Units) /\ Len(t \o z) = n + 3
      /\ \A i \in 1..n : (t \o z)[i] = t[i]
      /\ (t \o z)[n + 1] = AY /\ (t \o z)[n + 2] = SeqUnit(r.seq) /\ (t \o z)[n + 3] = AZ
  <2>1. /\ t \o z \in Seq(Units) /\ Len(t \o z) = n + 3
        /\ \A i \in 1..n : (t \o z)[i] = t[i]
        /\ \A i \in 1..3 : (t \o z)[n + i] = z[i]
    <3>1. t \in Seq(Units) /\ z \in Seq(Units)
      BY <1>1, <1>2
    <3>2. /\ t \o z \in Seq(Units) /\ Len(t \o z) = Len(t) + Len(z)
          /\ \A i \in 1..Len(t) : (t \o z)[i] = t[i]
          /\ \A i \in 1..Len(z) : (t \o z)[Len(t) + i] = z[i]
      BY <3>1, Concat, Zenon
    <3>3. Len(t) = n /\ Len(z) = 3
      BY <1>1, <1>2, Zenon
    <3> QED
      BY <3>2, <3>3, Zenon
  <2>2. (t \o z)[n + 1] = z[1] /\ (t \o z)[n + 2] = z[2] /\ (t \o z)[n + 3] = z[3]
    <3>1. 1 \in 1..3 /\ 2 \in 1..3 /\ 3 \in 1..3
      OBVIOUS
    <3> QED
      BY <2>1, <3>1, Zenon
  <2> QED
    BY <1>2, <2>1, <2>2
<1>6. u \in Units
  BY <1>5, SumOfType
<1> DEFINE w == t \o z
<1> HIDE DEF w, u
<1>7. /\ w \in Seq(Units) /\ Len(w) = n + 3 /\ \A i \in 1..n : w[i] = t[i]
      /\ w[n + 1] = AY /\ w[n + 2] = SeqUnit(r.seq) /\ w[n + 3] = AZ
      /\ e = Append(w, u)
  BY <1>4, <1>5 DEF w
<1>8. e \in Seq(Units) /\ Len(e) = n + 4 /\ \A i \in 1..(n + 3) : e[i] = w[i]
  BY <1>1, <1>6, <1>7
<1>9. e[n + 4] = u
  BY <1>1, <1>6, <1>7
<1>10. Front(e) = w
  BY <1>1, <1>6, <1>7 DEF Front
<1>11. n + 1 \in 1..(n + 3) /\ n + 2 \in 1..(n + 3) /\ n + 3 \in 1..(n + 3)
       /\ \A i \in 1..n : i \in 1..(n + 3)
  BY <1>1
<1>12. /\ \A i \in 1..n : e[i] = t[i]
       /\ e[n + 1] = AY /\ e[n + 2] = SeqUnit(r.seq) /\ e[n + 3] = AZ
  BY <1>7, <1>8, <1>11
<1> QED
  BY <1>3, <1>8, <1>9, <1>10, <1>12 DEF e, n, t, z, w, u

LEMMA TextClean ==
  ASSUME NEW r \in Requests
  PROVE  /\ TextLength(r) \in Nat /\ TextLength(r) >= 1
         /\ \A i \in 1..TextLength(r) : ~IsControl(Text(r)[i])
<1> DEFINE k == FixedUnitsOf(r)
           m == Len(r.fields)
<1>1. m \in Nat /\ k \in {0, 1} /\ TextLength(r) = 1 + k + m /\ (k = 1 => r.fixed # 0)
  BY RequestFacts DEF TextLength, FixedUnitsOf
<1>2. ASSUME NEW i \in 1..TextLength(r) PROVE ~IsControl(Text(r)[i])
  <2>1. CASE i = 1
    BY <2>1, TextShape, FixedUnits
  <2>2. CASE i = 2 /\ k = 1
    BY <2>2, <1>1, TextShape, FixedUnits
  <2>3. CASE i > 1 + k
    <3> DEFINE j == i - (1 + k)
    <3>1. j \in 1..m /\ i = 1 + k + j
      BY <1>1, <2>3
    <3> HIDE DEF j
    <3> QED
      BY <3>1, TextShape, RequestFacts
  <2> QED
    BY <1>1, <2>1, <2>2, <2>3
<1> QED
  BY <1>1, <1>2

(* No line end in a message, and never an empty message. *)
LEMMA EncodeClean ==
  ASSUME NEW r \in Requests, NEW c \in BOOLEAN, NEW g \in BOOLEAN
  PROVE  /\ Encode(r, c, g) \in Seq(Units) /\ Encode(r, c, g) # << >>
         /\ Len(Encode(r, c, g)) = TextLength(r) + IF c THEN 4 ELSE 0
         /\ Encode(r, c, g)[1] = CodeUnit(r.code)
         /\ \A i \in DOMAIN Encode(r, c, g) : ~IsControl(Encode(r, c, g)[i])
<1> DEFINE n == TextLength(r)
           t == Text(r)
<1>1. /\ t \in Seq(Units) /\ Len(t) = n /\ t[1] = CodeUnit(r.code)
      /\ n \in Nat /\ n >= 1 /\ \A i \in 1..n : ~IsControl(t[i])
  BY TextShape, TextClean
<1>2. CASE c = FALSE
  <2>1. Encode(r, c, g) = t
    BY <1>2, EncodeShape
  <2> HIDE DEF t, n
  <2>2. t # << >> /\ DOMAIN t = 1..n
    BY <1>1
  <2> QED
    BY <1>1, <1>2, <2>1, <2>2 DEF n
<1>3. CASE c = TRUE
  <2> DEFINE e == Encode(r, TRUE, g)
             u == SumOf(t \o TrailerOf(r), g)
  <2>1. /\ e \in Seq(Units) /\ Len(e) = n + 4 /\ \A i \in 1..n : e[i] = t[i]
        /\ e[n + 1] = AY /\ e[n + 2] = SeqUnit(r.seq) /\ e[n + 3] = AZ /\ e[n + 4] = u
    BY EncodeShape
  <2>2. ~IsControl(u)
    <3>1. TrailerOf(r) \in Seq(Units)
      BY FixedUnits DEF TrailerOf
    <3> HIDE DEF t
    <3>2. t \o TrailerOf(r) \in Seq(Units)
      BY <1>1, <3>1
    <3> QED
      BY <3>2, SumOfType
  <2>3. ~IsControl(AY) /\ ~IsControl(AZ) /\ ~IsControl(SeqUnit(r.seq))
    BY FixedUnits
  <2> HIDE DEF e, t, n, u
  <2>4. DOMAIN e = 1..(n + 4) /\ e # << >> /\ 1 \in 1..n
    BY <1>1, <2>1
  <2>5. \A i \in 1..(n + 4) : i \in 1..n \/ i = n + 1 \/ i = n + 2 \/ i = n + 3 \/ i = n + 4
    BY <1>1
  <2>6. \A i \in DOMAIN e : ~IsControl(e[i])
    BY <1>1, <2>1, <2>2, <2>3, <2>4, <2>5
  <2>7. e[1] = CodeUnit(r.code)
    BY <1>1, <2>1, <2>4
  <2> QED
    BY <1>3, <2>1, <2>4, <2>6, <2>7 DEF e, n
<1> QED
  BY <1>2, <1>3

---------------------------------------------------------------------------
(* What the parser makes of it. *)

(* The recursion of Chars: a text is at least as long as its first units.   *)
Longer(x, u) == x + u.n
MeasuredBy(us, g) == g = [i \in 0..Len(us) |-> IF i = 0 THEN 0 ELSE Longer(g[i - 1], us[i])]

LEMMA CharsUnfolds ==
  ASSUME NEW us \in Seq(Units)
  PROVE  \E g : /\ Chars(us) = g[Len(us)] /\ g[0] = 0
                /\ \A i \in 1..Len(us) : g[i] = Longer(g[i - 1], us[i])
<1> DEFINE n == Len(us)
           N == Nat
           zero == 0
           step == [i \in 1..n |-> [x \in N |-> Longer(x, us[i])]]
           g == CHOOSE h : MeasuredBy(us, h)
<1>1. n \in Nat /\ \A i \in 1..n : us[i] \in Units
  OBVIOUS
<1>2. zero \in N /\ \A x \in N, u \in Units : Longer(x, u) \in N
  BY UnitFacts DEF Longer
<1> HIDE DEF N, zero
<1>3. step \in [1..n -> [N -> N]]
  BY <1>1, <1>2
<1>4. PICK f : Solution(f, n, N, zero, step)
  <2> HIDE DEF step, n
  <2> QED
    BY <1>1, <1>2, <1>3, Recursion
<1>5. \A i \in 1..n : f[i] = Longer(f[i - 1], us[i])
  <2>1. \A i \in 1..n : i - 1 \in 0..n /\ \A x \in N : step[i][x] = Longer(x, us[i])
    BY <1>1
  <2> HIDE DEF step, n
  <2> QED
    BY <1>4, <2>1 DEF Solution
<1>6. MeasuredBy(us, f)
  <2> DEFINE h == [i \in 0..n |-> IF i = 0 THEN 0 ELSE Longer(f[i - 1], us[i])]
  <2>1. \A i \in 0..n : f[i] = h[i]
    BY <1>1, <1>4, <1>5 DEF Solution, zero
  <2>2. f = [i \in 0..n |-> f[i]]
    BY <1>4 DEF Solution
  <2> QED
    BY <2>1, <2>2 DEF MeasuredBy
<1>7. MeasuredBy(us, g)
  BY <1>6
<1>8. Chars(us) = g[n]
  BY DEF Chars, MeasuredBy, Longer
<1> HIDE DEF g
<1>9. g[0] = 0 /\ \A i \in 1..n : g[i] = Longer(g[i - 1], us[i])
  BY <1>1, <1>7 DEF MeasuredBy
<1> QED
  BY <1>8, <1>9

LEMMA CharsFacts ==
  ASSUME NEW us \in Seq(Units)
  PROVE  /\ Chars(us) \in Nat
         /\ us = << >> => Chars(us) = 0
         /\ us # << >> => us[1].n \in Nat /\ Chars(us) >= us[1].n
         /\ Len(us) >= 2 => us[2].n \in Nat /\ Chars(us) >= us[1].n + us[2].n
<1> DEFINE n == Len(us)
<1>1. /\ n \in Nat /\ (us = << >> <=> n = 0)
      /\ \A i \in 1..n : us[i] \in Units
  OBVIOUS
<1>2. PICK g : /\ Chars(us) = g[n] /\ g[0] = 0
               /\ \A i \in 1..n : g[i] = Longer(g[i - 1], us[i])
  BY CharsUnfolds
<1>3. \A i \in 1..n : us[i].n \in Nat
  BY <1>1, UnitFacts
<1>4. \A i \in 1..n : g[i - 1] \in Nat => g[i] \in Nat /\ g[i] >= g[i - 1] /\ g[i] = g[i - 1] + us[i].n
  BY <1>2, <1>3 DEF Longer
<1> DEFINE S == {i \in 0..n : /\ g[i] \in Nat
                              /\ i >= 1 => g[i] >= us[1].n
                              /\ i >= 2 => g[i] >= us[1].n + us[2].n}
<1>5. 0 \in S
  BY <1>1, <1>2
<1>6. ASSUME NEW i \in 1..n, i - 1 \in S PROVE i \in S
  <2>1. i \in 0..n /\ g[i - 1] \in Nat /\ g[i] \in Nat /\ g[i] >= g[i - 1]
    BY <1>1, <1>4, <1>6
  <2>2. CASE i = 1
    <3>1. g[1] = g[0] + us[1].n /\ us[1].n \in Nat
      BY <1>3, <1>4, <2>1, <2>2
    <3> QED
      BY <1>2, <2>1, <2>2, <3>1
  <2>3. CASE i = 2
    <3>1. 1 \in 1..n /\ 2 \in 1..n /\ 1 - 1 = 0 /\ 2 - 1 = 1
      BY <1>1, <2>3
    <3>2. us[1].n \in Nat /\ us[2].n \in Nat /\ g[1] = g[0] + us[1].n
      BY <1>2, <1>3, <1>4, <3>1
    <3>3. g[2] = g[1] + us[2].n
      BY <1>4, <2>1, <2>3, <3>1
    <3> QED
      BY <1>2, <2>1, <2>3, <3>2, <3>3
  <2>4. CASE i > 2
    <3>1. 1 \in 1..n /\ 2 \in 1..n
      BY <1>1, <2>4
    <3>2. us[1].n \in Nat /\ us[2].n \in Nat
      BY <1>3, <3>1
    <3>3. g[i - 1] >= us[1].n /\ g[i - 1] >= us[1].n + us[2].n
      BY <1>6, <2>4
    <3> QED
      BY <2>1, <2>4, <3>2, <3>3
  <2> QED
    BY <2>2, <2>3, <2>4
<1>7. n \in S
  <2> HIDE DEF S, n
  <2>1. \A i \in 0..n : i \in S
    BY <1>1, <1>5, <1>6, Induction
  <2> QED
    BY <1>1, <2>1
<1>8. us # << >> => 1 \in 1..n
  BY <1>1
<1>9. n >= 2 => 2 \in 1..n
  BY <1>1
<1> QED
  BY <1>1, <1>2, <1>3, <1>7, <1>8, <1>9

(* The recursion of FieldsFrom. *)
Glued(us, from) == us # << >> /\ us[1].ch = "fixed" /\ from < us[1].n
Nothing == [at |-> 0, seen |-> << >>]
Advance(acc, u, from, joined) ==
  [at   |-> acc.at + u.n,
   seen |-> IF IsField(u) /\ acc.at >= from /\ ~joined THEN Append(acc.seen, u.ch) ELSE acc.seen]
ReadBy(us, from, g) ==
  g = [i \in 0..Len(us) |-> IF i = 0 THEN Nothing
                            ELSE Advance(g[i - 1], us[i], from, Glued(us, from) /\ i = 2)]
Accounts == [at : Nat, seen : Seq(Names)]

Reading(us, from, g) ==
  /\ FieldsFrom(us, from) = g[Len(us)].seen /\ g[0] = Nothing
  /\ \A i \in 1..Len(us) : g[i] = Advance(g[i - 1], us[i], from, Glued(us, from) /\ i = 2)

LEMMA FieldsUnfold ==
  ASSUME NEW us \in Seq(Units), NEW from
  PROVE  \E g : Reading(us, from, g)
<1> DEFINE n == Len(us)
           adv(x, i) == Advance(x, us[i], from, Glued(us, from) /\ i = 2)
           step == [i \in 1..n |-> [x \in Accounts |-> adv(x, i)]]
           g == CHOOSE h : ReadBy(us, from, h)
<1>1. n \in Nat /\ \A i \in 1..n : us[i] \in Units
  OBVIOUS
<1>2. Nothing \in Accounts
  BY DEF Nothing, Accounts
<1>3. ASSUME NEW x \in Accounts, NEW u \in Units, NEW joined
      PROVE  Advance(x, u, from, joined) \in Accounts
  <2>1. u.n \in Nat /\ u.ch \in Names
    BY UnitFacts
  <2>2. x.at \in Nat /\ x.seen \in Seq(Names)
    BY DEF Accounts
  <2>3. x.at + u.n \in Nat /\ Append(x.seen, u.ch) \in Seq(Names)
    BY <2>1, <2>2
  <2> QED
    BY <2>2, <2>3 DEF Advance, Accounts
<1>4. step \in [1..n -> [Accounts -> Accounts]]
  BY <1>1, <1>3
<1> HIDE DEF adv
<1>5. PICK f : Solution(f, n, Accounts, Nothing, step)
  <2> HIDE DEF step, n
  <2> QED
    BY <1>1, <1>2, <1>4, Recursion
<1>6. \A i \in 1..n : f[i] = adv(f[i - 1], i)
  <2>1. \A i \in 1..n : i - 1 \in 0..n /\ \A x \in Accounts : step[i][x] = adv(x, i)
    BY <1>1
  <2> HIDE DEF step, n
  <2> QED
    BY <1>5, <2>1 DEF Solution
<1>7. ReadBy(us, from, f)
  <2> DEFINE h == [i \in 0..n |-> IF i = 0 THEN Nothing ELSE adv(f[i - 1], i)]
  <2>1. \A i \in 0..n : f[i] = h[i]
    BY <1>1, <1>5, <1>6 DEF Solution
  <2>2. f = [i \in 0..n |-> f[i]]
    BY <1>5 DEF Solution
  <2> QED
    BY <2>1, <2>2 DEF ReadBy, adv
<1>8. ReadBy(us, from, g)
  BY <1>7
<1>9. FieldsFrom(us, from) = g[n].seen
  BY DEF FieldsFrom, ReadBy, Advance, Glued, Nothing
<1> HIDE DEF g
<1>10. g[0] = Nothing /\ \A i \in 1..n : g[i] = adv(g[i - 1], i)
  BY <1>1, <1>8 DEF ReadBy, adv
<1> QED
  BY <1>9, <1>10 DEF adv, Reading

(* From a content that begins as the device wrote it, and has nothing that  *)
(* could be taken for a field behind it, exactly the device's fields are    *)
(* read.                                                                    *)
Holds(r, c, k, m) ==
  /\ k = FixedUnitsOf(r) /\ m = Len(r.fields) /\ Len(c) >= k + m
  /\ r.fixed # 0 => c[1] = FixedUnit(r.fixed)
  /\ \A i \in 1..m : c[k + i] = r.fields[i]
  /\ \A i \in (k + m + 1)..Len(c) : ~IsField(c[i])
  /\ k + m = 0 /\ c # << >> => c[1].ch # "fixed"

LEMMA FieldsRead ==
  ASSUME NEW r \in Requests, NEW c \in Seq(Units), NEW k, NEW m, Holds(r, c, k, m)
  PROVE  FieldsFrom(c, r.fixed) = [i \in 1..m |-> r.fields[i].ch]
<1> USE DEF Holds
<1> DEFINE n == Len(c)
           names == [i \in 1..m |-> r.fields[i].ch]
           count(i) == IF i <= k THEN 0 ELSE IF i <= k + m THEN i - k ELSE m
           read(i) == [j \in 1..count(i) |-> r.fields[j].ch]
<1>1. /\ n \in Nat /\ k \in {0, 1} /\ m \in Nat /\ n >= k + m /\ r.fixed \in Nat
      /\ (k = 1 <=> r.fixed # 0)
      /\ \A i \in 1..n : c[i] \in Units /\ c[i].n \in Nat
  <2>1. k \in {0, 1} /\ (k = 1 <=> r.fixed # 0)
    BY DEF FixedUnitsOf
  <2>2. m \in Nat /\ r.fixed \in Nat
    BY RequestFacts
  <2>3. n \in Nat /\ \A i \in 1..n : c[i] \in Units
    OBVIOUS
  <2>4. \A i \in 1..n : c[i].n \in Nat
    BY <2>3, UnitFacts
  <2> QED
    BY <2>1, <2>2, <2>3, <2>4
<1>2. \A i \in 1..m : IsField(r.fields[i]) /\ r.fields[i].ch # "fixed" /\ r.fields[i].ch \in Names
  BY RequestFacts, UnitFacts DEF IsField, Reserved
<1>3. ~Glued(c, r.fixed)
  <2>1. SUFFICES ASSUME c # << >>, c[1].ch = "fixed", r.fixed < c[1].n PROVE FALSE
    BY DEF Glued
  <2>2. 1 \in 1..n
    BY <2>1
  <2>3. CASE k = 1
    BY <1>1, <2>1, <2>3 DEF FixedUnit, Unit
  <2>4. CASE k = 0 /\ m >= 1
    <3>1. c[k + 1] = r.fields[1] /\ 1 \in 1..m /\ k + 1 = 1
      BY <1>1, <2>4
    <3> QED
      BY <1>2, <2>1, <3>1
  <2>5. CASE k = 0 /\ m = 0
    BY <2>1, <2>5
  <2> QED
    BY <1>1, <2>3, <2>4, <2>5
<1>4. PICK g : Reading(c, r.fixed, g)
  BY FieldsUnfold
<1>5. ASSUME NEW i \in 1..n
      PROVE  /\ g[i].at = g[i - 1].at + c[i].n
             /\ IsField(c[i]) /\ g[i - 1].at >= r.fixed =>
                  g[i].seen = Append(g[i - 1].seen, c[i].ch)
             /\ ~IsField(c[i]) => g[i].seen = g[i - 1].seen
  <2> DEFINE joined == Glued(c, r.fixed) /\ i = 2
  <2>1. g[i] = Advance(g[i - 1], c[i], r.fixed, joined) /\ ~joined
    BY <1>3, <1>4 DEF Reading
  <2> HIDE DEF joined
  <2> QED
    BY <2>1 DEF Advance
<1> DEFINE S == {i \in 0..n : /\ g[i].at \in Nat
                              /\ i >= k => g[i].at >= r.fixed
                              /\ g[i].seen = read(i)}
<1>6. 0 \in S
  <2>1. g[0].at = 0 /\ g[0].seen = << >>
    BY <1>4 DEF Nothing, Reading
  <2>2. count(0) = 0
    BY <1>1
  <2>3. read(0) = << >>
    <3> HIDE DEF count
    <3> QED
      BY <2>2
  <2> HIDE DEF read, count, n
  <2> QED
    BY <1>1, <2>1, <2>3
<1>7. ASSUME NEW i \in 1..n, i - 1 \in S PROVE i \in S
  <2>1. /\ i \in 0..n /\ g[i - 1].at \in Nat /\ (i - 1 >= k => g[i - 1].at >= r.fixed)
        /\ g[i - 1].seen = read(i - 1) /\ c[i].n \in Nat
    <3>1. i \in 0..n /\ c[i].n \in Nat
      BY <1>1
    <3> HIDE DEF read
    <3> QED
      BY <3>1, <1>7
  <2>2. g[i].at = g[i - 1].at + c[i].n
    BY <1>5
  <2>3. CASE i <= k
    <3>1. i = 1 /\ k = 1 /\ r.fixed # 0 /\ c[1] = FixedUnit(r.fixed) /\ i - 1 = 0
      BY <1>1, <2>3
    <3>2. ~IsField(c[1]) /\ c[1].n = r.fixed
      BY <3>1 DEF FixedUnit, Unit, IsField
    <3>3. g[1].seen = read(0)
      BY <1>5, <2>1, <3>1, <3>2
    <3>4. count(0) = 0 /\ count(1) = 0
      BY <1>1, <3>1
    <3>5. read(0) = read(1)
      BY <3>4
    <3>6. g[1].at = 0 + r.fixed
      BY <1>4, <2>2, <3>1, <3>2 DEF Nothing, Reading
    <3> HIDE DEF read, count
    <3> QED
      BY <1>1, <2>1, <3>1, <3>3, <3>5, <3>6
  <2>4. CASE i > k /\ i <= k + m
    <3> DEFINE j == i - k
    <3>1. j \in 1..m /\ i = k + j /\ i - 1 >= k /\ c[i] = r.fields[j]
      <4>1. j \in 1..m /\ i = k + j /\ i - 1 >= k
        BY <1>1, <2>4
      <4> HIDE DEF j
      <4> QED
        BY <4>1
    <3>2. IsField(c[i]) /\ c[i].ch = r.fields[j].ch
      BY <1>2, <3>1
    <3>3. g[i].seen = Append(read(i - 1), r.fields[j].ch)
      <4>1. g[i - 1].at >= r.fixed
        BY <2>1, <3>1
      <4>2. g[i].seen = Append(g[i - 1].seen, c[i].ch)
        BY <1>5, <3>2, <4>1
      <4> HIDE DEF read, j
      <4> QED
        BY <2>1, <3>2, <4>2
    <3>4. count(i - 1) = j - 1 /\ count(i) = j
      <4> DEFINE l == i - 1
      <4>1. i \in Nat /\ k \in Nat /\ m \in Nat /\ l \in Nat
        BY <1>1, <2>4
      <4>2. l >= k /\ l <= k + m /\ l - k = j - 1
        BY <4>1, <2>4
      <4>3. count(l) = IF l <= k THEN 0 ELSE l - k
        BY <4>1, <4>2
      <4>4. count(l) = l - k
        <5> HIDE DEF count
        <5> QED
          BY <4>1, <4>2, <4>3
      <4>5. count(i) = j
        BY <4>1, <2>4
      <4> HIDE DEF count
      <4> QED
        BY <4>2, <4>4, <4>5
    <3> HIDE DEF j, count
    <3>5. Append(read(i - 1), r.fields[j].ch) = read(i)
      <4> DEFINE a == [x \in 1..(j - 1) |-> r.fields[x].ch]
                 b == [x \in 1..j |-> r.fields[x].ch]
      <4>1. read(i - 1) = a /\ read(i) = b
        BY <3>4
      <4>2. j \in Nat /\ j >= 1 /\ \A x \in 1..j : r.fields[x].ch \in Names
        <5>1. j \in Nat /\ j >= 1 /\ \A x \in 1..j : x \in 1..m
          BY <1>1, <3>1
        <5> QED
          BY <1>2, <5>1
      <4>3. a \in Seq(Names) /\ Len(a) = j - 1 /\ b \in Seq(Names) /\ Len(b) = j
        <5>1. j - 1 \in Nat /\ \A x \in 1..(j - 1) : x \in 1..j
          BY <4>2
        <5>2. \A x \in 1..(j - 1) : r.fields[x].ch \in Names
          BY <4>2, <5>1
        <5>3. a \in Seq(Names) /\ Len(a) = j - 1
          BY <5>1, <5>2
        <5>4. b \in Seq(Names) /\ Len(b) = j
          BY <4>2
        <5> QED
          BY <5>3, <5>4
      <4>4. \A x \in 1..j : Append(a, r.fields[j].ch)[x] = b[x]
        BY <4>2, <4>3
      <4>5. Append(a, r.fields[j].ch) \in Seq(Names) /\ Len(Append(a, r.fields[j].ch)) = j
        BY <4>2, <4>3
      <4> HIDE DEF a, b
      <4>6. Append(a, r.fields[j].ch) = b
        BY <4>2, <4>3, <4>4, <4>5
      <4> QED
        BY <4>1, <4>6
    <3> HIDE DEF read
    <3>6. g[i].at \in Nat /\ g[i].at >= r.fixed
      <4>1. g[i - 1].at \in Nat /\ g[i - 1].at >= r.fixed /\ c[i].n \in Nat /\ r.fixed \in Nat
        BY <1>1, <2>1, <3>1
      <4> QED
        BY <2>2, <4>1
    <3> QED
      BY <2>1, <3>3, <3>5, <3>6
  <2>5. CASE i > k + m
    <3>1. i \in (k + m + 1)..n /\ i - 1 >= k
      BY <1>1, <2>5
    <3>2. ~IsField(c[i])
      BY <3>1
    <3>3. g[i].seen = read(i - 1)
      BY <1>5, <2>1, <3>2
    <3>4. count(i - 1) = m /\ count(i) = m
      BY <1>1, <2>5
    <3>5. read(i - 1) = read(i)
      BY <3>4
    <3> HIDE DEF read, count
    <3>6. g[i].at \in Nat /\ g[i].at >= r.fixed
      <4>1. g[i - 1].at \in Nat /\ g[i - 1].at >= r.fixed /\ c[i].n \in Nat /\ r.fixed \in Nat
        BY <1>1, <2>1, <3>1
      <4> QED
        BY <2>2, <4>1
    <3> QED
      BY <2>1, <3>3, <3>5, <3>6
  <2> QED
    BY <1>1, <2>3, <2>4, <2>5
<1>8. n \in S
  <2> HIDE DEF S, n
  <2>1. \A i \in 0..n : i \in S
    BY <1>1, <1>6, <1>7, Induction
  <2> QED
    BY <1>1, <2>1
<1>9. count(n) = m
  BY <1>1
<1>10. read(n) = names
  <2> HIDE DEF count
  <2> QED
    BY <1>9
<1> QED
  BY <1>4, <1>8, <1>10 DEF Reading

(* The marks of a text: only a field has one.                               *)
LEMMA TextMarks ==
  ASSUME NEW r \in Requests, NEW i \in 1..TextLength(r)
  PROVE  /\ Text(r)[i].ch # "sum" /\ Text(r)[i].mark # "seq"
         /\ Text(r)[i].mark \in {"AY", "AZ"} =>
              \E j \in 1..Len(r.fields) :
                Text(r)[i] = r.fields[j] /\ Text(r)[i].ch \notin Reserved
<1> DEFINE k == FixedUnitsOf(r)
           m == Len(r.fields)
<1>1. m \in Nat /\ k \in {0, 1} /\ TextLength(r) = 1 + k + m /\ (k = 1 => r.fixed # 0)
  BY RequestFacts DEF TextLength, FixedUnitsOf
<1>2. CASE i = 1
  <2>1. Text(r)[i] = Unit(r.code, 2, 100, "none") /\ r.code # "sum"
    BY <1>2, TextShape, RequestFacts DEF CodeUnit, Reserved
  <2> QED
    BY <2>1 DEF Unit
<1>3. CASE i = 2 /\ k = 1
  <2>1. Text(r)[i] = Unit("fixed", r.fixed, 7 * r.fixed, "none")
    BY <1>1, <1>3, TextShape DEF FixedUnit
  <2> QED
    BY <2>1 DEF Unit
<1>4. CASE i > 1 + k
  <2> DEFINE j == i - (1 + k)
  <2>1. j \in 1..m /\ i = 1 + k + j
    BY <1>1, <1>4
  <2> HIDE DEF j
  <2>2. Text(r)[i] = r.fields[j]
    BY <2>1, TextShape
  <2>3. r.fields[j].ch \notin Reserved /\ r.fields[j].mark \in {"none", "AY", "AZ"}
    BY <2>1, RequestFacts
  <2> QED
    BY <2>1, <2>2, <2>3 DEF Reserved
<1> QED
  BY <1>1, <1>2, <1>3, <1>4

(* A complete fixed part is taken as a whole, and the fields start after it. *)
LEMMA FixedPartTaken ==
  ASSUME NEW code, NEW n \in Nat, n >= FixedLength(code)
  PROVE  /\ FieldsStart(code, n) = FixedLength(code)
         /\ ExtractFixedFields(code, n) = {f[1] : f \in FixedFields(code)}
<1> DEFINE S == FieldsStarts(code)
           T == {0} \cup S
<1>1. S \in {{2}, {21}, {20, 38}, {37}, {31}, {18}, {25}, {8}, {}}
  BY DEF FieldsStarts
<1>2. S \subseteq Nat /\ \E x \in T : \A y \in T : x >= y
  BY <1>1
<1>3. FixedLength(code) \in T /\ \A y \in T : FixedLength(code) >= y
  BY <1>2 DEF FixedLength, Max
<1>4. {s \in S : s <= n} = S
  <2>1. \A y \in S : y \in Nat /\ FixedLength(code) >= y /\ FixedLength(code) \in Nat
    BY <1>2, <1>3
  <2> HIDE DEF S
  <2> QED
    BY <2>1
<1>5. FieldsStart(code, n) = FixedLength(code)
  BY <1>4 DEF FieldsStart, FixedLength
<1>6. ASSUME NEW f \in FixedFields(code)
      PROVE  f[2] \in Nat /\ f[2] <= FixedLength(code)
  <2>1. f[2] \in Nat /\ \E y \in S : f[2] <= y
    <3>1. CASE code = "93"
      BY <3>1 DEF FixedFields, FieldsStarts
    <3>2. CASE code = "23"
      BY <3>2 DEF FixedFields, FieldsStarts
    <3>3. CASE code = "11"
      BY <3>3 DEF FixedFields, FieldsStarts
    <3>4. CASE code = "29"
      BY <3>4 DEF FixedFields, FieldsStarts
    <3>5. CASE code = "09"
      BY <3>5 DEF FixedFields, FieldsStarts
    <3>6. CASE code = "63"
      BY <3>6 DEF FixedFields, FieldsStarts
    <3>7. CASE code \in {"17", "19", "35", "65"}
      BY <3>7 DEF FixedFields, FieldsStarts
    <3>8. CASE code = "37"
      BY <3>8 DEF FixedFields, FieldsStarts
    <3>9. CASE code = "99"
      BY <3>9 DEF FixedFields, FieldsStarts
    <3>10. CASE code \notin {"93", "23", "11", "29", "09", "63", "17", "19", "35", "65", "37", "99"}
      BY <3>10 DEF FixedFields
    <3> QED
      BY <3>1, <3>2, <3>3, <3>4, <3>5, <3>6, <3>7, <3>8, <3>9, <3>10
  <2> QED
    BY <1>2, <1>3, <2>1
<1>7. {g \in FixedFields(code) : g[2] <= n} = FixedFields(code)
  <2>1. \A y \in T : y \in Nat
    BY <1>2
  <2>2. FixedLength(code) \in Nat
    BY <1>3, <2>1
  <2>3. ASSUME NEW f \in FixedFields(code) PROVE f[2] <= n
    <3>1. f[2] \in Nat /\ f[2] <= FixedLength(code)
      BY <1>6
    <3> QED
      BY <2>2, <3>1
  <2> QED
    BY <2>3
<1> QED
  BY <1>5, <1>7 DEF ExtractFixedFields

(* What stands before the checksum of a message sent with one.              *)
Unsummed(r) == Text(r) \o TrailerOf(r)

LEMMA UnsummedShape ==
  ASSUME NEW r \in Requests
  PROVE  LET n == TextLength(r)
             w == Unsummed(r)
         IN /\ n \in Nat /\ n >= 1 /\ w \in Seq(Units) /\ Len(w) = n + 3
            /\ \A i \in 1..n : w[i] = Text(r)[i]
            /\ w[n + 1] = AY /\ w[n + 2] = SeqUnit(r.seq) /\ w[n + 3] = AZ
            /\ SubSeq(w, 1, n) = Text(r)
<1> DEFINE n == TextLength(r)
           w == Unsummed(r)
           e == Encode(r, TRUE, FALSE)
<1>1. n \in Nat /\ n >= 1
  BY TextClean
<1>2. /\ e \in Seq(Units) /\ Len(e) = n + 4 /\ \A i \in 1..n : e[i] = Text(r)[i]
      /\ e[n + 1] = AY /\ e[n + 2] = SeqUnit(r.seq) /\ e[n + 3] = AZ
      /\ Front(e) = w
  BY EncodeShape DEF Unsummed
<1> HIDE DEF e, n, w
<1>3. w \in Seq(Units) /\ Len(w) = n + 3 /\ \A i \in 1..(n + 3) : w[i] = e[i]
  BY <1>1, <1>2 DEF Front
<1>4. /\ \A i \in 1..n : w[i] = Text(r)[i]
      /\ w[n + 1] = AY /\ w[n + 2] = SeqUnit(r.seq) /\ w[n + 3] = AZ
  <2>1. n + 1 \in 1..(n + 3) /\ n + 2 \in 1..(n + 3) /\ n + 3 \in 1..(n + 3)
        /\ \A i \in 1..n : i \in 1..(n + 3)
    BY <1>1
  <2> QED
    BY <1>2, <1>3, <2>1
<1>5. SubSeq(w, 1, n) = Text(r)
  <2> DEFINE t == Text(r)
             s == SubSeq(w, 1, n)
  <2>1. t \in Seq(Units) /\ Len(t) = n
    BY TextShape DEF n
  <2> HIDE DEF t
  <2>2. s \in Seq(Units) /\ Len(s) = n /\ \A i \in 1..n : s[i] = w[i]
    BY <1>1, <1>3
  <2>3. \A i \in 1..n : w[i] = t[i]
    BY <1>4 DEF t
  <2> HIDE DEF s
  <2>4. s = t
    BY <2>1, <2>2, <2>3
  <2> QED
    BY <2>4 DEF s, t
<1> QED
  BY <1>1, <1>3, <1>4, <1>5 DEF n, w

(* Where the marks of such a message are: in fields, or the trailer's own.  *)
LEMMA UnsummedMarks ==
  ASSUME NEW r \in Requests
  PROVE  LET n == TextLength(r)
             w == Unsummed(r)
         IN /\ n + 1 \in Where(w, "AY") /\ n + 3 \in Where(w, "AZ")
            /\ Where(w, "AY") \subseteq 1..(n + 1)
            /\ Where(w, "AZ") \subseteq (1..n) \cup {n + 3}
            /\ \A i \in 1..n : w[i].mark \in {"AY", "AZ"} =>
                 \E j \in 1..Len(r.fields) :
                   w[i] = r.fields[j] /\ w[i].ch \notin Reserved
<1> DEFINE n == TextLength(r)
           w == Unsummed(r)
<1>1. /\ n \in Nat /\ w \in Seq(Units) /\ Len(w) = n + 3
      /\ \A i \in 1..n : w[i] = Text(r)[i]
      /\ w[n + 1] = AY /\ w[n + 2] = SeqUnit(r.seq) /\ w[n + 3] = AZ
  BY UnsummedShape
<1>2. /\ AY.mark = "AY" /\ AZ.mark = "AZ" /\ SeqUnit(r.seq).mark = "seq"
  BY DEF AY, AZ, SeqUnit, Unit
<1>3. \A i \in 1..n : w[i].mark \in {"AY", "AZ"} =>
        \E j \in 1..Len(r.fields) : w[i] = r.fields[j] /\ w[i].ch \notin Reserved
  BY <1>1, TextMarks
<1> HIDE DEF w, n
<1>4. DOMAIN w = 1..(n + 3)
  BY <1>1
<1>5. \A i \in DOMAIN w : i \in 1..n \/ i = n + 1 \/ i = n + 2 \/ i = n + 3
  BY <1>1, <1>4
<1>6. n + 1 \in DOMAIN w /\ n + 3 \in DOMAIN w /\ n + 1 \in 1..(n + 1) /\ \A i \in 1..n : i \in 1..(n + 1)
  BY <1>1, <1>4
<1> QED
  BY <1>1, <1>2, <1>3, <1>5, <1>6 DEF Where, w, n

(* The trailer is found as it was sent; a field with the letters AZ hides   *)
(* it, and may be taken for its end only if a field with AY precedes it.    *)
LEMMA TrailerFound ==
  ASSUME NEW r \in Requests
  PROVE  LET n == TextLength(r)
             w == Unsummed(r)
         IN \/ Trailer(w).seq = r.seq /\ Trailer(w).summed = w
            \/ \E j \in 1..n :
                 /\ w[j].mark = "AZ"
                 /\ Trailer(w).seq = "" \/ \E i \in 1..n : i < j /\ w[i].mark = "AY"
<1> DEFINE n == TextLength(r)
           w == Unsummed(r)
           azs == Where(w, "AZ")
           az == IF azs = {} THEN 0 ELSE Min(azs)
           ays == {i \in Where(w, "AY") : az = 0 \/ i < az}
           ay == IF ays = {} THEN 0 ELSE Max(ays)
           last == IF az = 0 THEN Len(w) ELSE az - 1
           seq == IF ay = 0 \/ az = 0 THEN << >> ELSE SubSeq(w, ay + 1, last)
           summed == IF ay = 0 THEN Append(SubSeq(w, 1, last), AZ)
                     ELSE SubSeq(w, 1, ay - 1) \o << AY >> \o seq \o << AZ >>
<1>1. /\ Trailer(w).seq = IF seq = << >> THEN "" ELSE seq[1].ch
      /\ Trailer(w).summed = summed
  BY DEF Trailer
<1>2. /\ n \in Nat /\ n >= 1 /\ w \in Seq(Units) /\ Len(w) = n + 3
      /\ w[n + 1] = AY /\ w[n + 2] = SeqUnit(r.seq) /\ w[n + 3] = AZ
  BY UnsummedShape
<1>3. /\ n + 1 \in Where(w, "AY") /\ n + 3 \in azs
      /\ Where(w, "AY") \subseteq 1..(n + 1) /\ azs \subseteq (1..n) \cup {n + 3}
      /\ \A i \in Where(w, "AY") : w[i].mark = "AY"
      /\ \A i \in azs : w[i].mark = "AZ"
  BY UnsummedMarks DEF Where
<1> HIDE DEF w, n, azs
<1>4. az = Min(azs) /\ az \in azs /\ \A i \in azs : az <= i
  <2>1. azs \in SUBSET (1..(n + 3)) /\ azs # {} /\ n + 3 \in Nat
    BY <1>2, <1>3
  <2> QED
    BY <2>1, MinExists
<1>5. az \in (1..n) \cup {n + 3} /\ az # 0 /\ last = az - 1
  <2> HIDE DEF az
  <2>1. az \in (1..n) \cup {n + 3}
    BY <1>3, <1>4
  <2>2. az # 0
    BY <1>2, <2>1
  <2> QED
    BY <2>1, <2>2
<1> HIDE DEF az
<1>6. ays \in SUBSET (1..(n + 1)) /\ \A i \in ays : i < az /\ w[i].mark = "AY"
  BY <1>3, <1>5
<1>7. ays # {} => ay \in ays /\ \A i \in ays : i <= ay
  <2>1. n + 1 \in Nat
    BY <1>2
  <2> HIDE DEF ays
  <2> QED
    BY <1>6, <2>1, MaxExists
<1>8. CASE az = n + 3
  <2>1. n + 1 \in ays
    BY <1>2, <1>3, <1>5, <1>8
  <2>2. ay \in 1..(n + 1) /\ n + 1 <= ay
    <3> HIDE DEF ays
    <3> QED
      BY <1>6, <1>7, <2>1
  <2>3. ay = n + 1 /\ last = n + 2 /\ ay # 0
    <3> HIDE DEF ay, last
    <3> QED
      BY <1>2, <1>5, <1>8, <2>2
  <2>4. seq = SubSeq(w, n + 2, n + 2)
    <3> HIDE DEF ay, last
    <3>1. ay + 1 = n + 2
      BY <1>2, <2>3
    <3> QED
      BY <1>5, <2>3, <3>1
  <2>5. SubSeq(w, n + 2, n + 2) = << SeqUnit(r.seq) >>
    <3> DEFINE s == SubSeq(w, n + 2, n + 2)
    <3>1. s \in Seq(Units) /\ Len(s) = 1 /\ s[1] = w[n + 2]
      BY <1>2
    <3> HIDE DEF s
    <3>2. s = << s[1] >>
      BY <3>1
    <3> QED
      BY <1>2, <3>1, <3>2 DEF s
  <2> HIDE DEF seq
  <2>6. seq = << SeqUnit(r.seq) >> /\ seq # << >> /\ seq[1].ch = r.seq
    <3>1. seq = << SeqUnit(r.seq) >>
      BY <2>4, <2>5
    <3> QED
      BY <3>1 DEF SeqUnit, Unit
  <2>7. summed = SubSeq(w, 1, n) \o << AY >> \o << SeqUnit(r.seq) >> \o << AZ >>
    <3> HIDE DEF ay, last
    <3>1. ay - 1 = n
      BY <1>2, <2>3
    <3> QED
      BY <2>3, <2>6, <3>1
  <2>8. SubSeq(w, 1, n) \o << AY >> \o << SeqUnit(r.seq) >> \o << AZ >> = w
    <3> DEFINE p == SubSeq(w, 1, n)
               q == p \o << AY >> \o << SeqUnit(r.seq) >> \o << AZ >>
    <3>1. /\ AY \in Units /\ AZ \in Units /\ SeqUnit(r.seq) \in Units
      BY FixedUnits
    <3>2. p \in Seq(Units) /\ Len(p) = n /\ \A i \in 1..n : p[i] = w[i]
      BY <1>2
    <3> HIDE DEF p
    <3>3. q = Append(Append(Append(p, AY), SeqUnit(r.seq)), AZ)
      BY <3>1, <3>2
    <3>4. q \in Seq(Units) /\ Len(q) = n + 3 /\ \A i \in 1..n : q[i] = p[i]
      BY <1>2, <3>1, <3>2, <3>3
    <3>5. q[n + 1] = AY /\ q[n + 2] = SeqUnit(r.seq) /\ q[n + 3] = AZ
      BY <1>2, <3>1, <3>2, <3>3
    <3> HIDE DEF q
    <3>6. \A i \in 1..(n + 3) : i \in 1..n \/ i = n + 1 \/ i = n + 2 \/ i = n + 3
      BY <1>2
    <3>7. \A i \in 1..(n + 3) : q[i] = w[i]
      BY <1>2, <3>2, <3>4, <3>5, <3>6
    <3>8. q = w
      BY <1>2, <3>4, <3>7
    <3> QED
      BY <3>8 DEF q, p
  <2> HIDE DEF summed
  <2> QED
    BY <1>1, <2>6, <2>7, <2>8 DEF w
<1>9. CASE az \in 1..n
  <2>1. w[az].mark = "AZ"
    BY <1>3, <1>4
  <2>2. CASE ays = {}
    <3>1. seq = << >>
      BY <2>2
    <3>2. Trailer(w).seq = ""
      BY <1>1, <3>1 DEF w
    <3> QED
      BY <1>9, <2>1, <3>2 DEF w, n
  <2>3. CASE ays # {}
    <3>1. ay \in ays
      BY <1>7, <2>3
    <3> HIDE DEF ay, ays
    <3>2. ay < az /\ ay \in 1..n /\ w[ay].mark = "AY"
      BY <1>2, <1>6, <1>9, <3>1
    <3> QED
      BY <1>9, <2>1, <3>2 DEF w, n
  <2> QED
    BY <2>2, <2>3
<1> QED
  BY <1>5, <1>8, <1>9

(* What is read of a message whose units behind the text are no fields.     *)
LEMMA TextRead ==
  ASSUME NEW r \in Requests, NEW e \in Seq(Units), Len(e) >= TextLength(r),
         \A i \in 1..TextLength(r) : e[i] = Text(r)[i],
         \A i \in (TextLength(r) + 1)..Len(e) : ~IsField(e[i]),
         Len(e) > TextLength(r) => e[TextLength(r) + 1].ch # "fixed"
  PROVE  /\ FieldsFrom(Tail(e), FieldsStart(r.code, Chars(Tail(e)))) =
              [i \in DOMAIN r.fields |-> r.fields[i].ch]
         /\ ExtractFixedFields(r.code, Chars(e) - 2) = {f[1] : f \in FixedFields(r.code)}
<1> DEFINE k == FixedUnitsOf(r)
           m == Len(r.fields)
           c == Tail(e)
<1>1. /\ k \in {0, 1} /\ m \in Nat /\ TextLength(r) = 1 + k + m /\ (k = 1 <=> r.fixed # 0)
      /\ r.fixed \in Nat /\ r.fixed = FixedLength(r.code) /\ DOMAIN r.fields = 1..m
  BY RequestFacts DEF TextLength, FixedUnitsOf
<1> HIDE DEF k, m
<1>2. e # << >> /\ Len(e) \in Nat
  BY <1>1
<1>3. c \in Seq(Units) /\ Len(c) = Len(e) - 1 /\ \A i \in 1..Len(c) : c[i] = e[i + 1]
  BY <1>2
<1> HIDE DEF c
<1>4. e[1] = CodeUnit(r.code) /\ e[1].n = 2
  <2>1. 1 \in 1..TextLength(r)
    BY <1>1
  <2> QED
    BY <2>1, TextShape DEF CodeUnit, Unit
<1>5. r.fixed # 0 => Len(e) >= 2 /\ Len(c) >= 1 /\ e[2] = FixedUnit(r.fixed) /\ c[1] = e[2] /\ e[2].n = r.fixed
  <2>1. SUFFICES ASSUME r.fixed # 0
                 PROVE  Len(e) >= 2 /\ Len(c) >= 1 /\ e[2] = FixedUnit(r.fixed) /\ c[1] = e[2]
                        /\ e[2].n = r.fixed
    OBVIOUS
  <2>2. 2 \in 1..TextLength(r) /\ 1 \in 1..Len(c) /\ 1 + 1 = 2 /\ Len(e) >= 2
    BY <1>1, <1>2, <1>3, <2>1
  <2>3. e[2] = FixedUnit(r.fixed) /\ c[1] = e[2]
    BY <1>3, <2>1, <2>2, TextShape
  <2> QED
    BY <1>3, <2>2, <2>3 DEF FixedUnit, Unit
<1>6. Len(c) >= k + m
  BY <1>1, <1>2, <1>3
<1>7. \A i \in 1..m : c[k + i] = r.fields[i]
  <2>1. TAKE i \in 1..m
  <2>2. k + i \in 1..Len(c) /\ (k + i) + 1 = 1 + k + i /\ 1 + k + i \in 1..TextLength(r)
    BY <1>1, <1>2, <1>3
  <2>3. c[k + i] = Text(r)[1 + k + i]
    BY <1>3, <2>2
  <2> QED
    BY <2>3, TextShape DEF k, m
<1>8. \A i \in (k + m + 1)..Len(c) : ~IsField(c[i])
  <2>1. TAKE i \in (k + m + 1)..Len(c)
  <2>2. i \in 1..Len(c) /\ i + 1 \in (TextLength(r) + 1)..Len(e)
    BY <1>1, <1>2, <1>3
  <2> QED
    BY <1>3, <2>2
<1>9. k + m = 0 /\ c # << >> => c[1].ch # "fixed"
  <2>1. SUFFICES ASSUME k + m = 0, c # << >> PROVE c[1].ch # "fixed"
    OBVIOUS
  <2>2. 1 \in 1..Len(c) /\ TextLength(r) = 1 /\ Len(e) > TextLength(r) /\ 1 + 1 = 2
    BY <1>1, <1>2, <1>3, <2>1
  <2>3. c[1] = e[TextLength(r) + 1]
    BY <1>3, <2>2
  <2> QED
    BY <2>2, <2>3
<1>10. FieldsFrom(c, r.fixed) = [i \in 1..m |-> r.fields[i].ch]
  <2>1. k = FixedUnitsOf(r) /\ m = Len(r.fields)
    BY DEF k, m
  <2>2. r.fixed # 0 => c[1] = FixedUnit(r.fixed)
    BY <1>5
  <2> QED
    <3>1. Holds(r, c, k, m)
      BY <1>6, <1>7, <1>8, <1>9, <2>1, <2>2 DEF Holds
    <3> QED
      BY <1>3, <3>1, FieldsRead
<1>11. Chars(c) \in Nat /\ Chars(c) >= r.fixed
  <2>1. CASE r.fixed = 0
    BY <1>3, <2>1, CharsFacts
  <2>2. CASE r.fixed # 0
    <3>1. c # << >>
      BY <1>3, <1>5, <2>2
    <3> QED
      BY <1>3, <1>5, <2>2, <3>1, CharsFacts
  <2> QED
    BY <2>1, <2>2
<1>12. FieldsStart(r.code, Chars(c)) = r.fixed
  BY <1>1, <1>11, FixedPartTaken
<1>13. Chars(e) - 2 \in Nat /\ Chars(e) - 2 >= r.fixed
  <2>1. CASE r.fixed = 0
    BY <1>2, <1>4, <2>1, CharsFacts
  <2>2. CASE r.fixed # 0
    BY <1>1, <1>4, <1>5, <2>2, CharsFacts
  <2> QED
    BY <2>1, <2>2
<1>14. ExtractFixedFields(r.code, Chars(e) - 2) = {f[1] : f \in FixedFields(r.code)}
  BY <1>1, <1>13, FixedPartTaken
<1> QED
  BY <1>1, <1>10, <1>12, <1>14 DEF c

(* A message with a checksum, unit by unit.                                 *)
LEMMA SummedShape ==
  ASSUME NEW r \in Requests, NEW g \in BOOLEAN
  PROVE  LET n == TextLength(r)
             e == Encode(r, TRUE, g)
         IN /\ n \in Nat /\ n >= 1 /\ e \in Seq(Units) /\ Len(e) = n + 4
            /\ \A i \in 1..n : e[i] = Text(r)[i]
            /\ e[n + 1] = AY /\ e[n + 2] = SeqUnit(r.seq) /\ e[n + 3] = AZ
            /\ Front(e) = Unsummed(r)
            /\ e[n + 4] = SumOf(Unsummed(r), g) /\ Last(e) = e[n + 4]
            /\ \A i \in (n + 1)..(n + 4) : ~IsField(e[i])
<1> DEFINE n == TextLength(r)
           e == Encode(r, TRUE, g)
<1>1. n \in Nat /\ n >= 1
  BY TextClean
<1>2. /\ e \in Seq(Units) /\ Len(e) = n + 4 /\ \A i \in 1..n : e[i] = Text(r)[i]
      /\ e[n + 1] = AY /\ e[n + 2] = SeqUnit(r.seq) /\ e[n + 3] = AZ
      /\ Front(e) = Unsummed(r) /\ e[n + 4] = SumOf(Unsummed(r), g)
  BY EncodeShape DEF Unsummed
<1>3. Unsummed(r) \in Seq(Units)
  BY UnsummedShape
<1>4. SumOf(Unsummed(r), g).ch = "sum"
  BY <1>3, SumOfType
<1>5. AY.ch = "AY" /\ AZ.ch = "AZ" /\ SeqUnit(r.seq).mark = "seq"
  BY DEF AY, AZ, SeqUnit, Unit
<1> HIDE DEF n, e
<1>7. Last(e) = e[n + 4]
  BY <1>1, <1>2 DEF Last
<1>8. \A i \in (n + 1)..(n + 4) : i = n + 1 \/ i = n + 2 \/ i = n + 3 \/ i = n + 4
  BY <1>1
<1>9. \A i \in (n + 1)..(n + 4) : ~IsField(e[i])
  BY <1>2, <1>4, <1>5, <1>8 DEF IsField
<1> QED
  BY <1>1, <1>2, <1>7, <1>9 DEF n, e

(* Only a message with a checksum can pass the check.                       *)
LEMMA OnlySummed ==
  ASSUME NEW r \in Requests, NEW g \in BOOLEAN
  PROVE  ~ChecksumValid(Encode(r, FALSE, g))
<1> DEFINE n == TextLength(r)
           e == Text(r)
<1>1. Encode(r, FALSE, g) = e
  BY EncodeShape
<1>2. e \in Seq(Units) /\ Len(e) = n /\ n \in Nat /\ n >= 1
  BY TextShape, TextClean
<1>3. e[n].ch # "sum"
  BY <1>2, TextMarks
<1> HIDE DEF e, n
<1>4. Last(e).ch # "sum"
  BY <1>2, <1>3 DEF Last
<1> QED
  BY <1>1, <1>4 DEF ChecksumValid

(* A garbled sum does not bring the sum to 0.                               *)
LEMMA GarbledFails ==
  ASSUME NEW us \in Seq(Units), NEW g \in BOOLEAN,
         (Sum16(us) + SumOf(us, g).sum) % Word = 0
  PROVE  ~g
<1> SUFFICES ASSUME g PROVE FALSE
  OBVIOUS
<1>1. Sum16(us) \in Words
  BY Sum16Type
<1>2. SumOf(us, g).sum = (((Word - Sum16(us)) % Word) + 1) % Word
  BY SumOfType
<1>3. ASSUME NEW w \in Nat \ {0, 1}, NEW x \in 0..(w - 1), NEW d, d = (((w - x) % w) + 1) % w
      PROVE  (x + d) % w # 0
  <2>1. ASSUME NEW a \in 0..(w - 1) PROVE a % w = a
    OBVIOUS
  <2>2. w % w = 0 /\ (w + 1) % w = 1
    OBVIOUS
  <2>3. CASE x = 0
    <3>1. (w - x) % w = 0
      BY <2>2, <2>3
    <3>2. d = 1 /\ x + d = 1 /\ 1 \in 0..(w - 1)
      BY <1>3, <2>1, <2>3, <3>1
    <3> QED
      BY <2>1, <3>2
  <2>4. CASE x = 1
    <3>1. w - x \in 0..(w - 1) /\ (w - x) + 1 = w
      BY <2>4
    <3>2. (w - x) % w = w - x
      BY <2>1, <3>1
    <3>3. d = 0
      BY <1>3, <2>2, <3>1, <3>2, Zenon
    <3>4. x + d = 1 /\ 1 \in 0..(w - 1)
      BY <2>4, <3>3
    <3> QED
      BY <2>1, <3>4
  <2>5. CASE x # 0 /\ x # 1
    <3>1. /\ w - x \in 0..(w - 1) /\ (w - x) + 1 \in 0..(w - 1)
          /\ x + ((w - x) + 1) = w + 1
      BY <2>5
    <3>2. (w - x) % w = w - x /\ ((w - x) + 1) % w = (w - x) + 1
      BY <2>1, <3>1
    <3>3. d = (w - x) + 1
      BY <1>3, <3>2, Zenon
    <3>4. (x + d) % w = 1
      BY <2>2, <3>1, <3>3, Zenon
    <3> QED
      BY <3>4
  <2> QED
    BY <2>3, <2>4, <2>5
<1>4. Word \in Nat \ {0, 1}
  BY DEF Word
<1>5. Sum16(us) \in 0..(Word - 1)
  BY <1>1 DEF Words
<1> DEFINE d == SumOf(us, g).sum
           x == Sum16(us)
<1>6. d = (((Word - x) % Word) + 1) % Word /\ (x + d) % Word = 0 /\ x \in 0..(Word - 1)
  BY <1>2, <1>5, Zenon
<1> HIDE DEF d, x
<1>7. (x + d) % Word # 0
  BY <1>3, <1>4, <1>6, Zenon
<1> QED
  BY <1>6, <1>7

(* A right one does. *)
LEMMA RightPasses ==
  ASSUME NEW us \in Seq(Units)
  PROVE  (Sum16(us) + SumOf(us, FALSE).sum) % Word = 0
<1> DEFINE d == SumOf(us, FALSE).sum
           x == Sum16(us)
<1>1. d = (Word - x) % Word /\ x \in 0..(Word - 1)
  BY SumOfType, Sum16Type DEF Words
<1>2. ASSUME NEW w \in Nat \ {0}, NEW y \in 0..(w - 1), NEW e, e = (w - y) % w
      PROVE  (y + e) % w = 0
  <2>1. w % w = 0 /\ 0 % w = 0
    OBVIOUS
  <2>2. CASE y = 0
    <3>1. e = 0 /\ y + e = 0
      BY <1>2, <2>1, <2>2
    <3> QED
      BY <2>1, <3>1, Zenon
  <2>3. CASE y # 0
    <3>1. w - y \in 0..(w - 1) /\ y + (w - y) = w
      BY <2>3
    <3>2. (w - y) % w = w - y
      BY <3>1
    <3> QED
      BY <1>2, <2>1, <3>1, <3>2, Zenon
  <2> QED
    BY <2>2, <2>3
<1>3. Word \in Nat \ {0}
  BY DEF Word
<1> HIDE DEF d, x
<1>4. (x + d) % Word = 0
  BY <1>1, <1>2, <1>3, Zenon
<1> QED
  BY <1>4 DEF d, x

(* The letters AY are only where the trailer begins, unless a field has     *)
(* them: what is cut off is the trailer.                                    *)
LEMMA Stripped ==
  ASSUME NEW r \in Requests, NEW g \in BOOLEAN, ~CutOff(r)
  PROVE  StripChecksum(Encode(r, TRUE, g)) = Text(r)
<1> DEFINE n == TextLength(r)
           e == Encode(r, TRUE, g)
           w == Unsummed(r)
           ays == Where(e, "AY")
<1>1. /\ n \in Nat /\ n >= 1 /\ e \in Seq(Units) /\ Len(e) = n + 4
      /\ \A i \in 1..n : e[i] = Text(r)[i]
      /\ e[n + 1] = AY /\ e[n + 2] = SeqUnit(r.seq) /\ e[n + 3] = AZ
      /\ e[n + 4] = SumOf(w, g)
  BY SummedShape
<1>2. AY.mark = "AY" /\ AZ.mark = "AZ" /\ SeqUnit(r.seq).mark = "seq" /\ SumOf(w, g).mark = "none"
  BY UnsummedShape, SumOfType DEF AY, AZ, SeqUnit, Unit
<1>3. ASSUME NEW i \in 1..n, e[i].mark = "AY" PROVE FALSE
  <2>1. \E j \in 1..Len(r.fields) : Text(r)[i] = r.fields[j]
    BY <1>1, <1>3, TextMarks
  <2>2. PICK j \in 1..Len(r.fields) : Text(r)[i] = r.fields[j]
    BY <2>1
  <2>3. r.fields[j].mark = "AY"
    <3> HIDE DEF e
    <3> QED
      BY <1>1, <1>3, <2>2
  <2>4. j \in DOMAIN r.fields
    BY RequestFacts
  <2> QED
    BY <2>3, <2>4 DEF CutOff
<1>4. ays = {n + 1}
  <2> HIDE DEF n, e, w
  <2>1. DOMAIN e = 1..(n + 4) /\ n + 1 \in 1..(n + 4)
    BY <1>1
  <2>2. \A i \in 1..(n + 4) : i \in 1..n \/ i = n + 1 \/ i = n + 2 \/ i = n + 3 \/ i = n + 4
    BY <1>1
  <2>3. \A i \in 1..(n + 4) : e[i].mark = "AY" => i = n + 1
    BY <1>1, <1>2, <1>3, <2>2
  <2>4. e[n + 1].mark = "AY"
    BY <1>1, <1>2
  <2> QED
    BY <2>1, <2>3, <2>4 DEF Where
<1>5. Min(ays) = n + 1 /\ ays # {}
  <2> HIDE DEF ays, n
  <2>1. ays \in SUBSET (1..(n + 1)) /\ n + 1 \in Nat /\ ays # {}
    BY <1>1, <1>4
  <2>2. Min(ays) \in ays
    BY <2>1, MinExists
  <2> QED
    BY <1>4, <2>2
<1>6. SubSeq(e, 1, n) = Text(r)
  <2> DEFINE t == Text(r)
             s == SubSeq(e, 1, n)
  <2>1. t \in Seq(Units) /\ Len(t) = n
    BY TextShape
  <2>2. \A i \in 1..n : e[i] = t[i]
    BY <1>1
  <2> HIDE DEF t, e, n
  <2>3. s \in Seq(Units) /\ Len(s) = n /\ \A i \in 1..n : s[i] = e[i]
    BY <1>1
  <2> HIDE DEF s
  <2>4. s = t
    BY <2>1, <2>2, <2>3
  <2> QED
    BY <2>4 DEF s, t
<1> DEFINE i == Min(ays)
<1>7. StripChecksum(e) = SubSeq(e, 1, i - 1) \o
            (IF e[i] = AY THEN << >> ELSE << Field("cut", e[i].n \div 2, e[i].sum \div 2) >>)
  BY <1>5 DEF StripChecksum
<1>8. i = n + 1 /\ e[i] = AY /\ i - 1 = n
  <2> HIDE DEF e, n
  <2>1. i = n + 1
    BY <1>5
  <2> HIDE DEF i
  <2> QED
    BY <1>1, <2>1
<1>9. StripChecksum(e) = SubSeq(e, 1, n) \o << >>
  <2> HIDE DEF i, e, n
  <2> QED
    BY <1>7, <1>8
<1>10. Text(r) \in Seq(Units)
  BY TextShape
<1> HIDE DEF e
<1>11. StripChecksum(e) = Text(r)
  BY <1>6, <1>9, <1>10
<1> QED
  BY <1>11 DEF e

(* What Parse makes of a message of a device, under any tenant's settings.  *)
ReadsFields(p, r) ==
  /\ p.fields = [i \in DOMAIN r.fields |-> r.fields[i].ch]
  /\ p.fixed = {f[1] : f \in FixedFields(r.code)}
Heeds(e, seq) ==
  seq = "" \/ (\E u \in Range(e) : u.mark = "seq" /\ u.ch = seq) \/ Misleads(e)
Understood(p, r, g, e) ==
  /\ p.code = r.code
  /\ CutOff(r) \/ ReadsFields(p, r)
  /\ p.seq # "" => (~g /\ p.seq = r.seq) \/ CutOff(r)
  /\ Heeds(e, p.seq)

(* The sequence number of a message whose checksum is right.                *)
LEMMA SequenceRead ==
  ASSUME NEW r \in Requests, NEW g \in BOOLEAN, ChecksumValid(Encode(r, TRUE, g))
  PROVE  LET e == Encode(r, TRUE, g)
             s == Trailer(Front(e)).seq
         IN (s # "" => (~g /\ s = r.seq) \/ CutOff(r)) /\ Heeds(e, s)
<1> DEFINE n == TextLength(r)
           e == Encode(r, TRUE, g)
           w == Unsummed(r)
           s == Trailer(w).seq
<1>1. /\ n \in Nat /\ n >= 1 /\ e \in Seq(Units) /\ Len(e) = n + 4
      /\ \A i \in 1..n : e[i] = Text(r)[i]
      /\ e[n + 2] = SeqUnit(r.seq)
      /\ Front(e) = w /\ e[n + 4] = SumOf(w, g) /\ Last(e) = e[n + 4]
  BY SummedShape
<1>2. w \in Seq(Units) /\ \A i \in 1..n : w[i] = e[i]
  BY <1>1, UnsummedShape
<1>3. (Sum16(Trailer(w).summed) + SumOf(w, g).sum) % Word = 0
  BY <1>1 DEF ChecksumValid
<1>4. \/ Trailer(w).seq = r.seq /\ Trailer(w).summed = w
      \/ Trailer(w).seq = ""
      \/ \E i, j \in 1..n : i < j /\ w[i].mark = "AY" /\ w[j].mark = "AZ"
  <2>1. ASSUME NEW j \in 1..n, w[j].mark = "AZ",
               Trailer(w).seq = "" \/ \E i \in 1..n : i < j /\ w[i].mark = "AY"
        PROVE  \/ Trailer(w).seq = ""
               \/ \E i, k \in 1..n : i < k /\ w[i].mark = "AY" /\ w[k].mark = "AZ"
    BY <2>1
  <2> QED
    BY <2>1, TrailerFound
<1>5. \A i \in 1..n : w[i].mark \in {"AY", "AZ"} =>
        \E j \in 1..Len(r.fields) : w[i] = r.fields[j] /\ w[i].ch \notin Reserved
  BY UnsummedMarks
<1> HIDE DEF n, e, w
<1>6. CASE s = r.seq /\ Trailer(w).summed = w
  <2>1. (Sum16(w) + SumOf(w, g).sum) % Word = 0
    BY <1>3, <1>6
  <2>2. ~g
    BY <1>2, <2>1, GarbledFails
  <2>3. n + 2 \in DOMAIN e
    BY <1>1
  <2>4. SeqUnit(r.seq) \in Range(e)
    BY <1>1, <2>3 DEF Range
  <2>5. SeqUnit(r.seq).mark = "seq" /\ SeqUnit(r.seq).ch = r.seq
    BY DEF SeqUnit, Unit
  <2>6. Heeds(e, s)
    BY <1>6, <2>4, <2>5 DEF Heeds
  <2> QED
    BY <1>1, <1>6, <2>2, <2>6 DEF e
<1>7. CASE s = ""
  BY <1>1, <1>7 DEF Heeds, e
<1>8. CASE \E i, j \in 1..n : i < j /\ w[i].mark = "AY" /\ w[j].mark = "AZ"
  <2>1. PICK i \in 1..n, j \in 1..n : i < j /\ w[i].mark = "AY" /\ w[j].mark = "AZ"
    BY <1>8
  <2>2. PICK a \in 1..Len(r.fields) : w[i] = r.fields[a] /\ w[i].ch \notin Reserved
    BY <1>5, <2>1
  <2>3. w[j].ch \notin Reserved
    BY <1>5, <2>1
  <2>4. a \in DOMAIN r.fields
    BY RequestFacts
  <2>5. CutOff(r)
    BY <2>1, <2>2, <2>4 DEF CutOff
  <2>6. AY.ch \in Reserved /\ AZ.ch \in Reserved
    BY DEF AY, AZ, Unit, Reserved
  <2>7. i \in DOMAIN e /\ j \in DOMAIN e /\ e[i] = w[i] /\ e[j] = w[j]
    BY <1>1, <1>2
  <2>8. e[i] # AY /\ e[j] # AZ
    BY <2>2, <2>3, <2>6, <2>7
  <2>9. Misleads(e)
    BY <2>1, <2>7, <2>8 DEF Misleads
  <2>10. Heeds(e, s)
    BY <2>9 DEF Heeds
  <2> QED
    BY <1>1, <2>5, <2>10 DEF e
<1> QED
  BY <1>4, <1>6, <1>7, <1>8

LEMMA ParseReads ==
  ASSUME NEW r \in Requests, NEW c \in BOOLEAN, NEW g \in BOOLEAN, NEW t \in Tenants,
         Parse(Encode(r, c, g), t).ok
  PROVE  Understood(Parse(Encode(r, c, g), t), r, g, Encode(r, c, g))
<1> DEFINE e == Encode(r, c, g)
           p == Parse(e, t)
           n == TextLength(r)
           stripped == IF Detects[t] THEN StripChecksum(e) ELSE e
           content == Tail(stripped)
<1>1. ~(Chars(e) < 2 \/ (Detects[t] /\ ~ChecksumValid(e)))
  BY DEF Parse, ParseError
<1>2. /\ p.code = e[1].ch
      /\ p.seq = IF Detects[t] THEN Trailer(Front(e)).seq ELSE ""
      /\ p.fields = FieldsFrom(content, FieldsStart(p.code, Chars(content)))
      /\ p.fixed = ExtractFixedFields(p.code, Chars(e) - 2)
  BY <1>1 DEF Parse
<1>3. p.code = r.code
  <2>1. e[1] = CodeUnit(r.code)
    BY EncodeClean
  <2>2. CodeUnit(r.code).ch = r.code
    BY DEF CodeUnit, Unit
  <2> HIDE DEF p, e
  <2> QED
    BY <1>2, <2>1, <2>2
<1>4. n \in Nat /\ n >= 1
  BY TextClean
<1>5. /\ e \in Seq(Units) /\ Len(e) >= n /\ \A i \in 1..n : e[i] = Text(r)[i]
      /\ \A i \in (n + 1)..Len(e) : ~IsField(e[i])
      /\ Len(e) > n => e[n + 1].ch # "fixed"
  <2>1. CASE c
    <3>1. AY.ch # "fixed"
      BY DEF AY, Unit
    <3> DEFINE f == Encode(r, TRUE, g)
    <3>2. /\ f \in Seq(Units) /\ Len(f) = n + 4 /\ \A i \in 1..n : f[i] = Text(r)[i]
          /\ f[n + 1] = AY /\ \A i \in (n + 1)..(n + 4) : ~IsField(f[i])
      BY SummedShape
    <3>3. e = f
      BY <2>1
    <3> HIDE DEF f
    <3> HIDE DEF n, e
    <3> QED
      BY <1>4, <3>1, <3>2, <3>3
  <2>2. CASE ~c
    <3>0. c = FALSE
      BY <2>2
    <3>1. e = Text(r) /\ e \in Seq(Units) /\ Len(e) = n
      BY <3>0, EncodeShape, TextShape
    <3> HIDE DEF e, n
    <3> QED
      BY <1>4, <3>1
  <2> QED
    BY <2>1, <2>2
<1>6. /\ Text(r) \in Seq(Units) /\ Len(Text(r)) >= n
      /\ \A i \in (n + 1)..Len(Text(r)) : ~IsField(Text(r)[i])
      /\ Len(Text(r)) > n => Text(r)[n + 1].ch # "fixed"
  <2>1. Text(r) \in Seq(Units) /\ Len(Text(r)) = n
    BY TextShape
  <2> HIDE DEF n
  <2> QED
    BY <1>4, <2>1
<1>7. Detects[t] => c = TRUE /\ ChecksumValid(e)
  BY <1>1, OnlySummed
<1>8. CutOff(r) \/ ReadsFields(p, r)
  <2>1. SUFFICES ASSUME ~CutOff(r) PROVE ReadsFields(p, r)
    OBVIOUS
  <2>2. p.fixed = {f[1] : f \in FixedFields(r.code)}
    BY <1>2, <1>3, <1>5, TextRead
  <2>3. stripped = e \/ stripped = Text(r)
    BY <1>7, <2>1, Stripped
  <2>4. FieldsFrom(content, FieldsStart(r.code, Chars(content))) =
          [i \in DOMAIN r.fields |-> r.fields[i].ch]
    <3>1. CASE stripped = e
      <4> HIDE DEF e, stripped
      <4> QED
        BY <1>5, <3>1, TextRead
    <3>2. CASE stripped = Text(r)
      <4> HIDE DEF e, stripped
      <4> QED
        BY <1>6, <3>2, TextRead
    <3> QED
      BY <2>3, <3>1, <3>2
  <2> QED
    BY <1>2, <1>3, <2>2, <2>4 DEF ReadsFields
<1>9. (p.seq # "" => (~g /\ p.seq = r.seq) \/ CutOff(r)) /\ Heeds(e, p.seq)
  <2>1. CASE Detects[t]
    <3>1. e = Encode(r, TRUE, g) /\ ChecksumValid(e) /\ p.seq = Trailer(Front(e)).seq
      BY <1>2, <1>7, <2>1
    <3> QED
      BY <3>1, SequenceRead
  <2>2. CASE ~Detects[t]
    BY <1>2, <2>2 DEF Heeds
  <2> QED
    BY <2>1, <2>2
<1> QED
  BY <1>3, <1>8, <1>9 DEF Understood

(* A message passes the check if and only if it has a checksum and a right  *)
(* one, and then its sequence number is found: unless letters AZ hide it.   *)
LEMMA Checked ==
  ASSUME NEW r \in Requests, NEW g \in BOOLEAN, ~Hides(r)
  PROVE  LET e == Encode(r, TRUE, g)
         IN (ChecksumValid(e) <=> ~g) /\ Trailer(Front(e)).seq = r.seq
<1> DEFINE n == TextLength(r)
           e == Encode(r, TRUE, g)
           w == Unsummed(r)
<1>1. /\ n \in Nat /\ e \in Seq(Units) /\ Len(e) = n + 4
      /\ Front(e) = w /\ e[n + 4] = SumOf(w, g) /\ Last(e) = e[n + 4]
  BY SummedShape
<1>2. w \in Seq(Units)
  BY UnsummedShape
<1>3. ASSUME NEW j \in 1..n, w[j].mark = "AZ" PROVE FALSE
  <2>1. PICK k \in 1..Len(r.fields) : w[j] = r.fields[k]
    BY <1>3, UnsummedMarks
  <2>2. k \in DOMAIN r.fields
    BY RequestFacts
  <2> HIDE DEF w
  <2> QED
    BY <1>3, <2>1, <2>2 DEF Hides
<1>4. Trailer(w).seq = r.seq /\ Trailer(w).summed = w
  BY <1>3, TrailerFound
<1>5. SumOf(w, g).ch = "sum"
  BY <1>2, SumOfType
<1>6. e # << >>
  <2> HIDE DEF e, n
  <2> QED
    BY <1>1
<1> HIDE DEF e, n, w
<1>7. ChecksumValid(e) <=> (Sum16(w) + SumOf(w, g).sum) % Word = 0
  BY <1>1, <1>4, <1>5, <1>6 DEF ChecksumValid
<1>8. (Sum16(w) + SumOf(w, g).sum) % Word = 0 <=> ~g
  <2>1. CASE g
    BY <1>2, <2>1, GarbledFails
  <2>2. CASE ~g
    <3>1. g = FALSE
      BY <2>2
    <3> QED
      BY <1>2, <3>1, RightPasses
  <2> QED
    BY <2>1, <2>2
<1> QED
  BY <1>1, <1>4, <1>7, <1>8 DEF e

LEMMA ParseSucceeds ==
  ASSUME NEW r \in Requests, NEW c \in BOOLEAN, NEW g \in BOOLEAN, NEW t \in Tenants, ~Hides(r)
  PROVE  LET p == Parse(Encode(r, c, g), t)
         IN /\ p.ok <=> (Detects[t] => c /\ ~g)
            /\ p.ok /\ Detects[t] => p.seq = r.seq
<1> DEFINE e == Encode(r, c, g)
           p == Parse(e, t)
<1>1. e \in Seq(Units) /\ e # << >> /\ e[1] = CodeUnit(r.code)
  BY EncodeClean
<1>2. ~(Chars(e) < 2)
  <2>1. CodeUnit(r.code).n = 2
    BY DEF CodeUnit, Unit
  <2> HIDE DEF e
  <2>2. Chars(e) \in Nat /\ Chars(e) >= 2
    BY <1>1, <2>1, CharsFacts
  <2> QED
    BY <2>2
<1>3. /\ p.ok <=> (Detects[t] => ChecksumValid(e))
      /\ p.ok /\ Detects[t] => p.seq = Trailer(Front(e)).seq
  BY <1>2 DEF Parse, ParseError
<1>4. CASE c
  <2>1. c = TRUE
    BY <1>4
  <2>2. (ChecksumValid(e) <=> ~g) /\ Trailer(Front(e)).seq = r.seq
    BY <2>1, Checked
  <2> HIDE DEF e, p
  <2>3. /\ p.ok <=> (Detects[t] => c /\ ~g)
        /\ p.ok /\ Detects[t] => p.seq = r.seq
    BY <1>3, <1>4, <2>2
  <2> QED
    BY <2>3 DEF e, p
<1>5. CASE ~c
  <2>1. c = FALSE
    BY <1>5
  <2>2. ~ChecksumValid(e)
    BY <2>1, OnlySummed
  <2> HIDE DEF e, p
  <2>3. /\ p.ok <=> (Detects[t] => c /\ ~g)
        /\ p.ok /\ Detects[t] => p.seq = r.seq
    BY <1>3, <1>5, <2>2
  <2> QED
    BY <2>3 DEF e, p
<1> QED
  BY <1>4, <1>5

(* Nothing is parsed into nothing.                                          *)
LEMMA NothingParsed ==
  ASSUME NEW t \in Tenants
  PROVE  ~Parse(<< >>, t).ok
<1>1. Chars(<< >>) < 2
  <2>1. << >> \in Seq(Units)
    OBVIOUS
  <2>2. Chars(<< >>) = 0
    BY <2>1, CharsFacts
  <2> QED
    BY <2>2
<1> QED
  BY <1>1 DEF Parse, ParseError

---------------------------------------------------------------------------
(* The stream: line ends come as the device writes them, whole but where   *)
(* the reader stands and where the device broke off.                       *)

LineEnds == {"CR", "LF", "CRLF"}
PairedAt(s, d, i) ==
  /\ s[i] = LF => d = "LF" \/ (d = "CRLF" /\ (i = 1 \/ s[i - 1] = CR))
  /\ s[i] = CR => d = "CR" \/ (d = "CRLF" /\ (i = Len(s) \/ s[i + 1] = LF))
Paired(s, d) == \A i \in DOMAIN s : PairedAt(s, d, i)
LastOf(d) == IF d = "CR" THEN CR ELSE LF

(* What is read under a delimiter and does not have it.                     *)
NoDelimiterIn(s, d) ==
  /\ d = "CR" => \A i \in DOMAIN s : s[i] # CR
  /\ d = "LF" => \A i \in DOMAIN s : s[i] # LF
  /\ d = "CRLF" => \A i \in 1..(Len(s) - 1) : ~(s[i] = CR /\ s[i + 1] = LF)
Read(s, d) == NoDelimiterIn(s, d) /\ (d # "LF" /\ s # << >> => s[1] # LF)

Clean(s) == \A i \in DOMAIN s : ~IsControl(s[i])
Only(v) == [done |-> IF v = << >> THEN << >> ELSE << v >>, open |-> << >>]

(* A message, or nothing, and its line end.                                 *)
LEMMA LineRead ==
  ASSUME NEW v \in Seq(Units), Clean(v), NEW c \in Units, IsControl(c),
         NEW d \in Units, IsControl(d)
  PROVE  Split(Append(v, c)) = Only(v) /\ Split(Append(Append(v, c), d)) = Only(v)
<1>1. CASE v = << >>
  <2>1. SplitNext(NothingRead, c) = NothingRead /\ SplitNext(NothingRead, d) = NothingRead
    BY DEF SplitNext, NothingRead
  <2>2. Split(v) = NothingRead /\ Only(v) = NothingRead
    BY <1>1, SplitEmpty DEF Only, NothingRead
  <2>3. Append(v, c) \in Seq(Units)
    OBVIOUS
  <2>4. Split(Append(v, c)) = NothingRead
    BY <2>1, <2>2, SplitAppend
  <2>5. Split(Append(Append(v, c), d)) = NothingRead
    BY <2>1, <2>3, <2>4, SplitAppend
  <2> QED
    BY <2>2, <2>4, <2>5
<1>2. CASE v # << >>
  <2>1. Only(v) = [done |-> << v >>, open |-> << >>]
    BY <1>2 DEF Only
  <2> QED
    BY <1>2, <2>1, SplitMessage DEF Clean
<1> QED
  BY <1>1, <1>2

LEMMA BytesFacts ==
  ASSUME NEW d \in LineEnds
  PROVE  /\ Bytes(d) \in Seq(Units) /\ Bytes(d) # << >>
         /\ d = "CR" => Bytes(d) = << CR >> /\ Len(Bytes(d)) = 1
         /\ d = "LF" => Bytes(d) = << LF >> /\ Len(Bytes(d)) = 1
         /\ d = "CRLF" => Bytes(d) = << CR, LF >> /\ Len(Bytes(d)) = 2
         /\ Bytes(d)[1] # LF <=> d # "LF"
<1>1. CR \in Units /\ LF \in Units /\ CR # LF
  BY ControlTypes
<1>2. CASE d = "CR"
  <2>1. Bytes(d) = << CR >>
    BY <1>2 DEF Bytes
  <2>2. << CR >> \in Seq(Units) /\ Len(<< CR >>) = 1 /\ << CR >>[1] = CR
    BY <1>1
  <2>3. Bytes(d) \in Seq(Units) /\ Len(Bytes(d)) = 1 /\ Bytes(d)[1] = CR
    BY <2>1, <2>2
  <2>4. Bytes(d) # << >>
    BY <2>3
  <2> QED
    BY <1>1, <1>2, <2>1, <2>3, <2>4
<1>3. CASE d = "LF"
  <2>1. Bytes(d) = << LF >>
    BY <1>3 DEF Bytes
  <2>2. << LF >> \in Seq(Units) /\ Len(<< LF >>) = 1 /\ << LF >>[1] = LF
    BY <1>1
  <2>3. Bytes(d) \in Seq(Units) /\ Len(Bytes(d)) = 1 /\ Bytes(d)[1] = LF
    BY <2>1, <2>2
  <2>4. Bytes(d) # << >>
    BY <2>3
  <2> QED
    BY <1>1, <1>3, <2>1, <2>3, <2>4
<1>4. CASE d = "CRLF"
  <2>1. Bytes(d) = << CR, LF >>
    BY <1>4 DEF Bytes
  <2>2. << CR, LF >> \in Seq(Units) /\ Len(<< CR, LF >>) = 2 /\ << CR, LF >>[1] = CR
    BY <1>1
  <2>3. Bytes(d) \in Seq(Units) /\ Len(Bytes(d)) = 2 /\ Bytes(d)[1] = CR
    BY <2>1, <2>2
  <2>4. Bytes(d) # << >>
    BY <2>3
  <2> QED
    BY <1>1, <1>4, <2>1, <2>3, <2>4
<1> QED
  BY <1>2, <1>3, <1>4 DEF LineEnds

(* What the device writes for one message.                                  *)
LEMMA LineSplit ==
  ASSUME NEW v \in Seq(Units), Clean(v), v # << >>, NEW d \in LineEnds
  PROVE  LET x == v \o Bytes(d)
         IN /\ x \in Seq(Units) /\ x # << >> /\ Len(x) = Len(v) + Len(Bytes(d))
            /\ Split(x) = [done |-> << v >>, open |-> << >>]
            /\ Last(x) = LastOf(d) /\ Paired(x, d) /\ x[1] # LF
<1> DEFINE x == v \o Bytes(d)
<1>1. CR \in Units /\ LF \in Units /\ CR # LF /\ IsControl(CR) /\ IsControl(LF)
  BY ControlTypes
<1>2. Len(v) \in Nat /\ Len(v) >= 1 /\ \A i \in 1..Len(v) : v[i] # CR /\ v[i] # LF
  <2>1. Len(v) \in Nat /\ Len(v) >= 1 /\ DOMAIN v = 1..Len(v)
    OBVIOUS
  <2> QED
    BY <1>1, <2>1 DEF Clean
<1>3. Only(v) = [done |-> << v >>, open |-> << >>]
  BY DEF Only
<1>4. CASE d = "CR" \/ d = "LF"
  <2> DEFINE c == LastOf(d)
  <2>1. c \in Units /\ IsControl(c) /\ c \in {CR, LF}
    BY <1>1 DEF LastOf
  <2>2. Bytes(d) = << c >> /\ Len(Bytes(d)) = 1
    BY <1>4, BytesFacts DEF LastOf
  <2>3. x = Append(v, c)
    BY <2>1, <2>2
  <2>4. Split(x) = [done |-> << v >>, open |-> << >>]
    BY <1>1, <1>3, <2>1, <2>3, LineRead
  <2>5. /\ x \in Seq(Units) /\ x # << >> /\ Len(x) = Len(v) + 1
        /\ \A i \in 1..Len(v) : x[i] = v[i]
        /\ x[Len(v) + 1] = c
    BY <2>1, <2>3
  <2> HIDE DEF x
  <2>6. Last(x) = c /\ x[1] # LF /\ DOMAIN x = 1..(Len(v) + 1)
    BY <1>2, <2>5 DEF Last
  <2>7. \A i \in DOMAIN x : x[i] \in {CR, LF} => x[i] = c
    <3>1. \A i \in DOMAIN x : i \in 1..Len(v) \/ i = Len(v) + 1
      BY <1>2, <2>6
    <3> QED
      BY <1>2, <2>5, <3>1
  <2>8. Paired(x, d)
    BY <1>1, <1>4, <2>7 DEF Paired, PairedAt, LastOf
  <2> QED
    BY <2>2, <2>4, <2>5, <2>6, <2>8 DEF x
<1>5. CASE d = "CRLF"
  <2>1. Bytes(d) = << CR, LF >> /\ Len(Bytes(d)) = 2
    BY <1>5, BytesFacts
  <2>2. x = Append(Append(v, CR), LF)
    BY <1>1, <2>1
  <2>3. Split(x) = [done |-> << v >>, open |-> << >>]
    BY <1>1, <1>3, <2>2, LineRead
  <2>4. /\ x \in Seq(Units) /\ x # << >> /\ Len(x) = Len(v) + 2
        /\ \A i \in 1..Len(v) : x[i] = v[i]
        /\ x[Len(v) + 1] = CR /\ x[Len(v) + 2] = LF
    BY <1>1, <2>2
  <2> HIDE DEF x
  <2>5. Last(x) = LF /\ x[1] # LF /\ DOMAIN x = 1..(Len(v) + 2)
    BY <1>2, <2>4 DEF Last
  <2>6. \A i \in DOMAIN x : i \in 1..Len(v) \/ i = Len(v) + 1 \/ i = Len(v) + 2
    BY <1>2, <2>5
  <2>7. /\ \A i \in DOMAIN x : x[i] = LF => i - 1 = Len(v) + 1
        /\ \A i \in DOMAIN x : x[i] = CR => i + 1 = Len(v) + 2
    BY <1>1, <1>2, <2>4, <2>6
  <2>8. Paired(x, d)
    BY <1>5, <2>4, <2>7 DEF Paired, PairedAt
  <2> QED
    BY <1>5, <2>1, <2>3, <2>4, <2>5, <2>8 DEF x, LastOf
<1> QED
  BY <1>4, <1>5 DEF LineEnds

(* Stretches of the stream that fit together.                               *)
LEMMA PairedConcat ==
  ASSUME NEW s \in Seq(Units), NEW x \in Seq(Units), NEW d \in LineEnds,
         Paired(s, d), Paired(x, d), s # << >> => Last(s) = LastOf(d), x # << >>, x[1] # LF
  PROVE  Paired(s \o x, d)
<1> DEFINE z == s \o x
           m == Len(s)
           k == Len(x)
<1>1. /\ m \in Nat /\ k \in Nat /\ DOMAIN z = 1..(m + k) /\ Len(z) = m + k
      /\ \A i \in 1..m : z[i] = s[i]
      /\ \A i \in 1..k : z[m + i] = x[i]
  BY Concat
<1>2. DOMAIN s = 1..m /\ DOMAIN x = 1..k /\ k >= 1
  OBVIOUS
<1>3. s # << >> => s[m] = LastOf(d)
  BY DEF Last
<1>4. CR # LF
  BY ControlTypes
<1> HIDE DEF z, m, k
<1>5. ASSUME NEW i \in 1..m
      PROVE  /\ z[i] = LF => d = "LF" \/ (d = "CRLF" /\ (i = 1 \/ z[i - 1] = CR))
             /\ z[i] = CR => d = "CR" \/ (d = "CRLF" /\ (i = Len(z) \/ z[i + 1] = LF))
  <2>1. /\ s[i] = LF => d = "LF" \/ (d = "CRLF" /\ (i = 1 \/ s[i - 1] = CR))
        /\ s[i] = CR => d = "CR" \/ (d = "CRLF" /\ (i = Len(s) \/ s[i + 1] = LF))
    BY <1>2 DEF Paired, PairedAt
  <2>2. i # 1 => i - 1 \in 1..m
    BY <1>1
  <2>3. i # m => i + 1 \in 1..m
    BY <1>1
  <2>4. i = m /\ s[i] = CR => d = "CR"
    BY <1>2, <1>3, <1>4 DEF LastOf
  <2> QED
    BY <1>1, <2>1, <2>2, <2>3, <2>4 DEF m
<1>6. ASSUME NEW j \in 1..k
      PROVE  /\ z[m + j] = LF => d = "LF" \/ (d = "CRLF" /\ z[m + j - 1] = CR)
             /\ z[m + j] = CR => d = "CR" \/ (d = "CRLF" /\ (m + j = Len(z) \/ z[m + j + 1] = LF))
  <2>1. /\ x[j] = LF => d = "LF" \/ (d = "CRLF" /\ (j = 1 \/ x[j - 1] = CR))
        /\ x[j] = CR => d = "CR" \/ (d = "CRLF" /\ (j = k \/ x[j + 1] = LF))
    BY <1>2 DEF Paired, PairedAt, k
  <2>2. j # 1 => j - 1 \in 1..k /\ m + (j - 1) = m + j - 1
    BY <1>1
  <2>3. j # k => j + 1 \in 1..k /\ m + (j + 1) = m + j + 1
    BY <1>1
  <2>4. x[j] = LF => j # 1
    OBVIOUS
  <2> QED
    BY <1>1, <2>1, <2>2, <2>3, <2>4
<1>7. ASSUME NEW i \in DOMAIN z
      PROVE  i \in 1..m \/ (i - m \in 1..k /\ m + (i - m) = i)
  BY <1>1
<1>8. ASSUME NEW i \in DOMAIN z
      PROVE  /\ z[i] = LF => d = "LF" \/ (d = "CRLF" /\ (i = 1 \/ z[i - 1] = CR))
             /\ z[i] = CR => d = "CR" \/ (d = "CRLF" /\ (i = Len(z) \/ z[i + 1] = LF))
  <2>1. CASE i \in 1..m
    BY <1>5, <2>1
  <2>2. CASE i \notin 1..m
    <3> DEFINE j == i - m
    <3>1. j \in 1..k /\ m + j = i
      BY <1>7, <2>2
    <3> HIDE DEF j
    <3>2. /\ z[m + j] = LF => d = "LF" \/ (d = "CRLF" /\ z[m + j - 1] = CR)
          /\ z[m + j] = CR => d = "CR" \/ (d = "CRLF" /\ (m + j = Len(z) \/ z[m + j + 1] = LF))
      BY <1>6, <3>1
    <3> QED
      BY <1>1, <3>1, <3>2
  <2> QED
    BY <2>1, <2>2
<1> QED
  BY <1>8 DEF Paired, PairedAt, z

LEMMA PairedPrefix ==
  ASSUME NEW s \in Seq(Units), NEW k \in 0..Len(s), NEW d, Paired(s, d)
  PROVE  Paired(SubSeq(s, 1, k), d)
<1> DEFINE x == SubSeq(s, 1, k)
<1>1. k \in Nat /\ Len(s) \in Nat /\ k <= Len(s) /\ DOMAIN s = 1..Len(s)
  OBVIOUS
<1>2. x \in Seq(Units) /\ Len(x) = k /\ DOMAIN x = 1..k /\ \A i \in 1..k : x[i] = s[i]
  BY <1>1
<1> HIDE DEF x
<1>3. ASSUME NEW i \in DOMAIN x
      PROVE  /\ x[i] = LF => d = "LF" \/ (d = "CRLF" /\ (i = 1 \/ x[i - 1] = CR))
             /\ x[i] = CR => d = "CR" \/ (d = "CRLF" /\ (i = Len(x) \/ x[i + 1] = LF))
  <2>1. i \in 1..k /\ i \in DOMAIN s /\ x[i] = s[i]
    BY <1>1, <1>2
  <2>2. /\ s[i] = LF => d = "LF" \/ (d = "CRLF" /\ (i = 1 \/ s[i - 1] = CR))
        /\ s[i] = CR => d = "CR" \/ (d = "CRLF" /\ (i = Len(s) \/ s[i + 1] = LF))
    BY <2>1 DEF Paired, PairedAt
  <2>3. i # 1 => x[i - 1] = s[i - 1]
    BY <1>1, <1>2, <2>1
  <2>4. i # k => x[i + 1] = s[i + 1] /\ i # Len(s)
    BY <1>1, <1>2, <2>1
  <2> QED
    BY <1>2, <2>1, <2>2, <2>3, <2>4
<1> QED
  BY <1>3 DEF Paired, PairedAt, x

LEMMA PairedSuffix ==
  ASSUME NEW s \in Seq(Units), NEW x \in Seq(Units), NEW d, Paired(s \o x, d)
  PROVE  /\ Paired(x, d) /\ Paired(s, d)
         /\ x # << >> => s \o x # << >> /\ Last(x) = Last(s \o x)
<1> DEFINE z == s \o x
           m == Len(s)
           k == Len(x)
<1>1. /\ m \in Nat /\ k \in Nat /\ z \in Seq(Units) /\ DOMAIN z = 1..(m + k) /\ Len(z) = m + k
      /\ \A i \in 1..m : z[i] = s[i]
      /\ \A i \in 1..k : z[m + i] = x[i]
      /\ DOMAIN x = 1..k
  BY Concat
<1>2. Paired(s, d)
  <2>1. SubSeq(z, 1, m) = s
    <3> DEFINE p == SubSeq(z, 1, m)
    <3> HIDE DEF z
    <3>1. p \in Seq(Units) /\ Len(p) = m /\ \A i \in 1..m : p[i] = s[i]
      BY <1>1
    <3> HIDE DEF p
    <3>2. p = s
      BY <3>1
    <3> QED
      BY <3>2 DEF p
  <2> HIDE DEF z, m
  <2>2. m \in 0..Len(z) /\ Paired(z, d)
    BY <1>1 DEF z
  <2> QED
    BY <1>1, <2>1, <2>2, PairedPrefix
<1> HIDE DEF z
<1>9. \A j \in DOMAIN z : PairedAt(z, d, j)
  BY DEF Paired, z
<1> HIDE DEF m, k
<1>3. ASSUME NEW i \in 1..k
      PROVE  /\ x[i] = LF => d = "LF" \/ (d = "CRLF" /\ (i = 1 \/ x[i - 1] = CR))
             /\ x[i] = CR => d = "CR" \/ (d = "CRLF" /\ (i = Len(x) \/ x[i + 1] = LF))
  <2>1. m + i \in DOMAIN z /\ z[m + i] = x[i]
    BY <1>1
  <2>2. /\ z[m + i] = LF => d = "LF" \/ (d = "CRLF" /\ (m + i = 1 \/ z[m + i - 1] = CR))
        /\ z[m + i] = CR => d = "CR" \/ (d = "CRLF" /\ (m + i = Len(z) \/ z[m + i + 1] = LF))
    <3> DEFINE j == m + i
    <3>1. j \in DOMAIN z
      BY <2>1
    <3> HIDE DEF j
    <3>3. PairedAt(z, d, j)
      BY <1>9, <3>1
    <3>2. /\ z[j] = LF => d = "LF" \/ (d = "CRLF" /\ (j = 1 \/ z[j - 1] = CR))
          /\ z[j] = CR => d = "CR" \/ (d = "CRLF" /\ (j = Len(z) \/ z[j + 1] = LF))
      BY <3>3 DEF PairedAt
    <3> QED
      BY <1>1, <3>2 DEF j
  <2>3. i # 1 => z[m + i - 1] = x[i - 1] /\ m + i # 1
    <3>1. i # 1 => i - 1 \in 1..k /\ m + (i - 1) = m + i - 1
      BY <1>1
    <3> QED
      BY <1>1, <3>1
  <2>4. i # k => z[m + i + 1] = x[i + 1] /\ m + i # Len(z)
    <3>1. i # k => i + 1 \in 1..k /\ m + (i + 1) = m + i + 1
      BY <1>1
    <3> QED
      BY <1>1, <3>1
  <2> QED
    BY <2>1, <2>2, <2>3, <2>4 DEF k
<1>4. ASSUME x # << >> PROVE z # << >> /\ Last(x) = Last(z)
  <2>1. k >= 1 /\ k \in 1..k
    BY <1>1, <1>4 DEF k
  <2>2. z[m + k] = x[k] /\ z # << >>
    BY <1>1, <2>1
  <2> QED
    BY <1>1, <2>2 DEF Last, k
<1> QED
  BY <1>1, <1>2, <1>3, <1>4 DEF Paired, PairedAt, z

(* What is taken under the delimiter d is what the stretch is split into.   *)
LEMMA Taken ==
  ASSUME NEW b \in Seq(Units), NEW u \in Units, delim \in LineEnds, NEW e \in LineEnds,
         Paired(Append(b, u), e), Read(b, delim), EndsInDelimiter(Append(b, u))
  PROVE  Split(Append(b, u)) = Only(Unframed(Append(b, u))) /\ Unframed(Append(b, u)) \in Seq(Units)
<1> DEFINE us == Append(b, u)
           m == Len(b)
<1>1. CR \in Units /\ LF \in Units /\ CR # LF /\ IsControl(CR) /\ IsControl(LF)
  BY ControlTypes
<1>2. /\ m \in Nat /\ DOMAIN b = 1..m /\ DOMAIN us = 1..(m + 1) /\ Len(us) = m + 1
      /\ us \in Seq(Units) /\ us # << >> /\ Last(us) = u /\ us[m + 1] = u
      /\ \A i \in 1..m : us[i] = b[i] /\ b[i] \in Units
  BY DEF Last
<1>3. /\ delim = "CR" => u = CR
      /\ delim = "LF" => u = LF
      /\ delim = "CRLF" => m >= 1 /\ b[m] = CR /\ u = LF
  <2>1. delim = "CR" \/ delim = "LF" \/ delim = "CRLF"
    BY DEF LineEnds
  <2>2. IsSuffix(Bytes(delim), us)
    BY DEF EndsInDelimiter
  <2> HIDE DEF us, m
  <2>3. CASE delim = "CR"
    BY <1>2, <2>2, <2>3, EndsIn
  <2>4. CASE delim = "LF"
    BY <1>2, <2>2, <2>4, EndsIn
  <2>5. CASE delim = "CRLF"
    <3>1. Len(us) >= 2 /\ us[Len(us) - 1] = CR /\ us[Len(us)] = LF
      BY <1>2, <2>2, <2>5, EndsIn
    <3> QED
      BY <1>2, <2>5, <3>1
  <2> QED
    BY <2>1, <2>3, <2>4, <2>5
<1>4. ASSUME NEW i \in 1..m
      PROVE  /\ b[i] = LF => e = "LF" \/ (e = "CRLF" /\ (i = 1 \/ b[i - 1] = CR))
             /\ b[i] = CR => e = "CR" \/ (e = "CRLF" /\ us[i + 1] = LF)
  <2>1. i \in DOMAIN us /\ us[i] = b[i] /\ i # Len(us) /\ (i # 1 => us[i - 1] = b[i - 1])
    BY <1>2
  <2> HIDE DEF us
  <2> QED
    BY <2>1 DEF Paired, PairedAt, us
<1>5. /\ u = LF => e = "LF" \/ e = "CRLF"
      /\ u = CR => e = "CR" \/ e = "CRLF"
  <2>1. m + 1 \in DOMAIN us
    BY <1>2
  <2> HIDE DEF us
  <2> QED
    BY <1>2, <2>1 DEF Paired, PairedAt, us
<1> DEFINE body == SubSeq(us, 1, Len(us) - Len(Bytes(delim)))
<1>6. CASE delim = "CR"
  <2>1. \A i \in 1..m : b[i] # CR
    BY <1>2, <1>6 DEF Read, NoDelimiterIn
  <2>2. b # << >> => b[1] # LF
    BY <1>6 DEF Read
  <2>3. \A i \in 1..m : b[i] # LF
    <3>1. TAKE i \in 1..m
    <3>2. SUFFICES ASSUME b[i] = LF PROVE FALSE
      OBVIOUS
    <3>3. i = 1 \/ b[i - 1] = CR
      BY <1>1, <1>3, <1>4, <1>5, <1>6, <3>2
    <3>4. i # 1 => i - 1 \in 1..m
      BY <1>2
    <3>5. b # << >>
      BY <1>2
    <3> QED
      BY <2>1, <2>2, <3>2, <3>3, <3>4, <3>5
  <2>4. Clean(b)
    BY <1>2, <2>1, <2>3 DEF Clean, IsControl
  <2>5. body = b
    <3>1. Len(Bytes(delim)) = 1
      BY <1>6, BytesFacts
    <3>2. SubSeq(us, 1, m) = b
      OBVIOUS
    <3> HIDE DEF us
    <3> QED
      BY <1>2, <3>1, <3>2
  <2>6. Unframed(us) = b
    BY <1>6, <2>5 DEF Unframed
  <2> QED
    BY <1>1, <1>3, <1>6, <2>4, <2>6, LineRead
<1>7. CASE delim = "CRLF"
  <2> DEFINE v == SubSeq(b, 1, m - 1)
  <2>1. m >= 1 /\ m - 1 \in Nat /\ b[m] = CR /\ u = LF
    BY <1>2, <1>3, <1>7
  <2>2. v \in Seq(Units) /\ Len(v) = m - 1 /\ DOMAIN v = 1..(m - 1) /\ \A i \in 1..(m - 1) : v[i] = b[i]
    BY <1>2, <2>1
  <2>3. b = Append(v, CR)
    <3> HIDE DEF v
    <3>1. Append(v, CR) \in Seq(Units) /\ Len(Append(v, CR)) = m
          /\ \A i \in 1..(m - 1) : Append(v, CR)[i] = v[i]
          /\ Append(v, CR)[m] = CR
      BY <1>1, <2>1, <2>2
    <3>2. \A i \in 1..m : i \in 1..(m - 1) \/ i = m
      <4>1. m \in Nat
        BY <1>2
      <4> HIDE DEF m, us, body
      <4> QED
        BY <4>1
    <3> DEFINE a == Append(v, CR)
    <3>3. \A i \in 1..m : a[i] = b[i]
      BY <2>1, <2>2, <3>1, <3>2
    <3>4. a \in Seq(Units) /\ Len(a) = m
      BY <3>1
    <3> HIDE DEF a, m
    <3>5. a = b
      BY <1>2, <3>3, <3>4
    <3> QED
      BY <3>5 DEF a
  <2>4. us = Append(Append(v, CR), LF)
    BY <2>1, <2>3
  <2>5. /\ \A i \in 1..(m - 1) : ~(b[i] = CR /\ b[i + 1] = LF)
        /\ b[1] # LF
    BY <1>2, <1>7, <2>1 DEF Read, NoDelimiterIn
  <2>6. \A i \in 1..(m - 1) : b[i] # LF /\ b[i] # CR
    <3>1. TAKE i \in 1..(m - 1)
    <3>2. i \in 1..m /\ i + 1 \in 1..m /\ (i # 1 => i - 1 \in 1..(m - 1) /\ (i - 1) + 1 = i)
      BY <1>2, <2>1
    <3>3. e = "CRLF"
      <4>1. m \in 1..m
        BY <1>2, <2>1
      <4>2. e = "CR" \/ e = "CRLF"
        BY <1>4, <2>1, <4>1
      <4>3. e = "LF" \/ e = "CRLF"
        BY <1>5, <2>1
      <4> QED
        BY <4>2, <4>3
    <3>4. b[i] # LF
      <4>1. b[i] = LF => i = 1 \/ b[i - 1] = CR
        BY <1>4, <3>2, <3>3
      <4>2. i # 1 => ~(b[i - 1] = CR /\ b[i] = LF)
        BY <2>5, <3>2
      <4> QED
        BY <2>5, <4>1, <4>2
    <3>5. b[i] # CR
      <4>1. b[i] = CR => us[i + 1] = LF
        BY <1>4, <3>2, <3>3
      <4>2. us[i + 1] = b[i + 1]
        BY <1>2, <3>2
      <4> QED
        BY <2>5, <4>1, <4>2
    <3> QED
      BY <3>4, <3>5
  <2>7. Clean(v)
    <3> HIDE DEF v
    <3> QED
      BY <2>2, <2>6 DEF Clean, IsControl
  <2>8. body = v
    <3>1. Len(Bytes(delim)) = 2
      BY <1>7, BytesFacts
    <3>2. Len(us) - 2 = m - 1 /\ m - 1 <= Len(us)
      BY <1>2, <2>1
    <3> DEFINE p == SubSeq(us, 1, m - 1)
    <3>3. p \in Seq(Units) /\ Len(p) = m - 1 /\ \A i \in 1..(m - 1) : p[i] = us[i]
      <4> HIDE DEF us
      <4> QED
        BY <1>2, <2>1
    <3>4. \A i \in 1..(m - 1) : p[i] = v[i]
      <4>1. \A i \in 1..(m - 1) : i \in 1..m
        BY <1>2, <2>1
      <4> HIDE DEF p, v, us
      <4> QED
        BY <1>2, <2>2, <3>3, <4>1
    <3>5. p = v
      <4> HIDE DEF p, v
      <4> QED
        BY <2>2, <3>3, <3>4
    <3> HIDE DEF v, us
    <3> QED
      BY <3>1, <3>2, <3>5
  <2>9. Unframed(us) = v
    BY <1>7, <2>8 DEF Unframed
  <2> HIDE DEF v, us
  <2>10. Split(us) = Only(v)
    BY <1>1, <2>2, <2>4, <2>7, LineRead
  <2> QED
    BY <2>2, <2>9, <2>10 DEF us
<1>8. CASE delim = "LF"
  <2> DEFINE k == IF m >= 1 /\ b[m] = CR THEN m - 1 ELSE m
             v == SubSeq(b, 1, k)
             text == {i \in DOMAIN body : body[i] # CR}
  <2>0. SubSeq(us, 1, m) = b
    OBVIOUS
  <2> HIDE DEF us, m
  <2>1. k \in Nat /\ k <= m /\ (k # m => k = m - 1 /\ m >= 1 /\ b[m] = CR)
    BY <1>2
  <2>2. v \in Seq(Units) /\ Len(v) = k /\ DOMAIN v = 1..k /\ \A i \in 1..k : v[i] = b[i]
    <3> HIDE DEF k
    <3> QED
      BY <1>2, <2>1
  <2>3. \A i \in 1..m : b[i] # LF
    BY <1>2, <1>8 DEF Read, NoDelimiterIn
  <2>4. \A i \in 1..m : b[i] = CR <=> i = m /\ k # m
    <3>1. TAKE i \in 1..m
    <3>2. CASE i = m
      BY <1>2, <3>2
    <3>3. CASE i # m
      <4>1. i + 1 \in 1..m
        BY <1>2, <3>3
      <4>2. us[i + 1] = b[i + 1] /\ b[i + 1] # LF
        BY <1>2, <2>3, <4>1
      <4>3. e = "LF" \/ e = "CRLF"
        BY <1>3, <1>5, <1>8
      <4>4. b[i] # CR
        BY <1>4, <4>2, <4>3
      <4> QED
        BY <3>3, <4>4
    <3> QED
      BY <3>2, <3>3
  <2>5. \A i \in 1..k : i \in 1..m /\ b[i] # CR /\ b[i] # LF
    <3>1. \A i \in 1..k : i \in 1..m /\ (i = m => k = m)
      <4> HIDE DEF k
      <4> QED
        BY <1>2, <2>1
    <3> HIDE DEF k
    <3> QED
      BY <2>3, <2>4, <3>1
  <2>6. Clean(v)
    <3> HIDE DEF v, k
    <3> QED
      BY <2>2, <2>5 DEF Clean, IsControl
  <2>7. body = b
    <3>1. Len(Bytes(delim)) = 1
      BY <1>8, BytesFacts
    <3> QED
      BY <1>2, <2>0, <3>1
  <2>8. text = 1..k
    <3>1. text = {i \in 1..m : b[i] # CR}
      <4> HIDE DEF body
      <4> QED
        BY <1>2, <2>7
    <3> HIDE DEF text, k
    <3>2. \A i \in 1..m : b[i] # CR <=> i \in 1..k
      BY <1>2, <2>1, <2>4
    <3>3. \A i \in 1..k : i \in 1..m
      BY <1>2, <2>1
    <3> QED
      BY <3>1, <3>2, <3>3
  <2>9. Max({0} \cup text) = k
    <3> HIDE DEF text, k
    <3>1. k \in {0} \cup text /\ \A x \in {0} \cup text : x \in Nat /\ k >= x
      BY <2>1, <2>8
    <3>2. \E x \in {0} \cup text : \A y \in {0} \cup text : x >= y
      BY <3>1
    <3> DEFINE top == Max({0} \cup text)
    <3>3. top \in {0} \cup text /\ \A y \in {0} \cup text : top >= y
      BY <3>2 DEF Max
    <3> HIDE DEF top
    <3>4. top \in Nat /\ k >= top /\ top >= k
      BY <3>1, <3>3
    <3>5. top = k
      BY <2>1, <3>4
    <3> QED
      BY <3>5 DEF top
  <2>10. Unframed(us) = v
    <3>1. Unframed(us) = SubSeq(body, 1, Max({0} \cup text))
      BY <1>8 DEF Unframed
    <3> HIDE DEF body, text, k, us
    <3> QED
      BY <2>7, <2>9, <3>1
  <2>11. us = Append(v, LF) \/ us = Append(Append(v, CR), LF)
    <3>1. u = LF
      BY <1>3, <1>8
    <3>2. CASE k = m
      <4>1. v = b
        <5> HIDE DEF v, k
        <5> QED
          BY <1>2, <2>2, <3>2
      <4> QED
        BY <3>1, <4>1 DEF us
    <3>3. CASE k # m
      <4> HIDE DEF k
      <4>1. b = Append(v, CR)
        <5> HIDE DEF v
        <5> DEFINE a == Append(v, CR)
        <5>1. k = m - 1 /\ b[m] = CR /\ m >= 1
          BY <2>1, <3>3
        <5>2. a \in Seq(Units) /\ Len(a) = m /\ a[m] = CR /\ \A i \in 1..(m - 1) : a[i] = v[i]
          BY <1>1, <1>2, <2>2, <5>1
        <5> HIDE DEF a
        <5>3. \A i \in 1..m : i \in 1..(m - 1) \/ i = m
          BY <1>2, <5>1
        <5>4. \A i \in 1..m : a[i] = b[i]
          BY <2>2, <5>1, <5>2, <5>3
        <5>5. a = b
          BY <1>2, <5>2, <5>4
        <5> QED
          BY <5>5 DEF a
      <4> QED
        BY <3>1, <4>1 DEF us
    <3> QED
      BY <3>2, <3>3
  <2> HIDE DEF v
  <2>12. Split(us) = Only(v)
    <3>1. CASE us = Append(v, LF)
      BY <1>1, <2>2, <2>6, <3>1, LineRead
    <3>2. CASE us = Append(Append(v, CR), LF)
      BY <1>1, <2>2, <2>6, <3>2, LineRead
    <3> QED
      BY <2>11, <3>1, <3>2
  <2> QED
    BY <2>2, <2>10, <2>12 DEF us
<1> QED
  BY <1>6, <1>7, <1>8 DEF LineEnds

LEMMA Shift ==
  ASSUME NEW b \in Seq(Units), NEW w \in Seq(Units), w # << >>
  PROVE  /\ Head(w) \in Units /\ Tail(w) \in Seq(Units) /\ Append(b, Head(w)) \in Seq(Units)
         /\ b \o w = Append(b, Head(w)) \o Tail(w)
<1> DEFINE u == Head(w)
           v == Tail(w)
           a == Append(b, u)
           x == b \o w
           y == a \o v
<1>1. u \in Units /\ v \in Seq(Units) /\ Len(w) \in Nat /\ Len(w) >= 1 /\ Len(v) = Len(w) - 1
      /\ u = w[1] /\ \A i \in 1..Len(v) : v[i] = w[i + 1]
  OBVIOUS
<1> HIDE DEF u, v
<1>2. a \in Seq(Units) /\ Len(a) = Len(b) + 1 /\ Len(b) \in Nat /\ a[Len(b) + 1] = u
      /\ \A i \in 1..Len(b) : a[i] = b[i]
  BY <1>1
<1> HIDE DEF a
<1>3. /\ x \in Seq(Units) /\ Len(x) = Len(b) + Len(w)
      /\ \A i \in 1..Len(b) : x[i] = b[i]
      /\ \A i \in 1..Len(w) : x[Len(b) + i] = w[i]
  BY Concat
<1>4. /\ y \in Seq(Units) /\ Len(y) = Len(a) + Len(v)
      /\ \A i \in 1..Len(a) : y[i] = a[i]
      /\ \A i \in 1..Len(v) : y[Len(a) + i] = v[i]
  BY <1>1, <1>2, Concat
<1> HIDE DEF x, y
<1>5. Len(x) = Len(y)
  BY <1>1, <1>2, <1>3, <1>4
<1>6. ASSUME NEW i \in 1..Len(x) PROVE x[i] = y[i]
  <2>1. CASE i \in 1..Len(b)
    <3>1. i \in 1..Len(a)
      BY <1>2, <2>1
    <3> QED
      BY <1>2, <1>3, <1>4, <2>1, <3>1
  <2>2. CASE i = Len(b) + 1
    <3>1. i \in 1..Len(a) /\ 1 \in 1..Len(w)
      BY <1>1, <1>2, <2>2
    <3> QED
      BY <1>1, <1>2, <1>3, <1>4, <2>2, <3>1
  <2>3. CASE i > Len(b) + 1
    <3> DEFINE j == i - (Len(b) + 1)
    <3>1. j \in 1..Len(v) /\ i = Len(a) + j /\ i = Len(b) + (j + 1) /\ j + 1 \in 1..Len(w)
      BY <1>1, <1>2, <1>3, <2>3
    <3> HIDE DEF j
    <3>2. y[i] = v[j] /\ x[i] = w[j + 1]
      BY <1>3, <1>4, <3>1
    <3> QED
      BY <1>1, <3>1, <3>2
  <2> QED
    BY <1>2, <2>1, <2>2, <2>3
<1>7. x = y
  BY <1>3, <1>4, <1>5, <1>6
<1> QED
  BY <1>1, <1>2, <1>7 DEF u, v, a, x, y

(* One more unit that is no stray line end and completes no delimiter.      *)
LEMMA ReadOn ==
  ASSUME NEW b \in Seq(Units), NEW u \in Units, delim \in LineEnds, Read(b, delim),
         ~EndsInDelimiter(Append(b, u)), ~(b = << >> /\ u = LF /\ Bytes(delim)[1] # LF)
  PROVE  Read(Append(b, u), delim)
<1> DEFINE us == Append(b, u)
           m == Len(b)
<1>1. /\ m \in Nat /\ DOMAIN b = 1..m /\ DOMAIN us = 1..(m + 1) /\ Len(us) = m + 1
      /\ us \in Seq(Units) /\ us # << >> /\ Last(us) = u /\ us[m + 1] = u
      /\ \A i \in 1..m : us[i] = b[i]
  BY DEF Last
<1>8. (b = << >> => m = 0) /\ (b # << >> => m >= 1)
  OBVIOUS
<1>2. ~IsSuffix(Bytes(delim), us)
  BY DEF EndsInDelimiter
<1> HIDE DEF us, m
<1>3. \A i \in 1..(m + 1) : i \in 1..m \/ i = m + 1
  BY <1>1
<1>4. delim = "CR" => \A i \in DOMAIN us : us[i] # CR
  <2>1. SUFFICES ASSUME delim = "CR", NEW i \in 1..(m + 1) PROVE us[i] # CR
    BY <1>1
  <2>2. u # CR
    BY <1>1, <1>2, <2>1, EndsIn
  <2>3. \A j \in 1..m : b[j] # CR
    BY <1>1, <2>1 DEF Read, NoDelimiterIn
  <2> QED
    BY <1>1, <1>3, <2>2, <2>3
<1>5. delim = "LF" => \A i \in DOMAIN us : us[i] # LF
  <2>1. SUFFICES ASSUME delim = "LF", NEW i \in 1..(m + 1) PROVE us[i] # LF
    BY <1>1
  <2>2. u # LF
    BY <1>1, <1>2, <2>1, EndsIn
  <2>3. \A j \in 1..m : b[j] # LF
    BY <1>1, <2>1 DEF Read, NoDelimiterIn
  <2> QED
    BY <1>1, <1>3, <2>2, <2>3
<1>6. delim = "CRLF" => \A i \in 1..(Len(us) - 1) : ~(us[i] = CR /\ us[i + 1] = LF)
  <2>1. SUFFICES ASSUME delim = "CRLF", NEW i \in 1..m, us[i] = CR, us[i + 1] = LF PROVE FALSE
    BY <1>1
  <2>2. ~(Len(us) >= 2 /\ us[Len(us) - 1] = CR /\ us[Len(us)] = LF)
    BY <1>1, <1>2, <2>1, EndsIn
  <2>3. \A j \in 1..(m - 1) : ~(b[j] = CR /\ b[j + 1] = LF)
    BY <1>1, <2>1 DEF Read, NoDelimiterIn, m
  <2>4. CASE i = m
    <3>1. Len(us) >= 2 /\ Len(us) - 1 = i /\ Len(us) = i + 1
      BY <1>1, <2>4
    <3> QED
      BY <2>1, <2>2, <3>1
  <2>5. CASE i # m
    <3>1. i \in 1..(m - 1) /\ i + 1 \in 1..m
      BY <1>1, <2>5
    <3>2. us[i] = b[i] /\ us[i + 1] = b[i + 1]
      BY <1>1, <3>1
    <3> QED
      BY <2>1, <2>3, <3>1, <3>2
  <2> QED
    BY <2>4, <2>5
<1>7. delim # "LF" => us[1] # LF
  <2>1. SUFFICES ASSUME delim # "LF" PROVE us[1] # LF
    OBVIOUS
  <2>2. Bytes(delim)[1] # LF
    BY <2>1, BytesFacts
  <2>3. CASE b = << >>
    <3>1. us[1] = u
      BY <1>1, <1>8, <2>3
    <3> QED
      BY <2>2, <2>3, <3>1
  <2>4. CASE b # << >>
    <3>1. 1 \in 1..m
      BY <1>1, <1>8, <2>4
    <3>2. us[1] = b[1]
      BY <1>1, <3>1
    <3> QED
      BY <2>1, <2>4, <3>2 DEF Read
  <2> QED
    BY <2>3, <2>4
<1> QED
  BY <1>4, <1>5, <1>6, <1>7 DEF Read, NoDelimiterIn, us

(* Where the device has ended its last message, none is under way.          *)
LEMMA NoneOpen ==
  ASSUME NEW s \in Seq(Units), NEW d \in LineEnds, s # << >> => Last(s) = LastOf(d)
  PROVE  Split(s).open = << >>
<1>1. CASE s = << >>
  BY <1>1, SplitEmpty DEF NothingRead
<1>2. CASE s # << >>
  <2>1. IsControl(LastOf(d))
    BY ControlTypes DEF LastOf
  <2> QED
    BY <1>2, <2>1, SplitEnded
<1> QED
  BY <1>1, <1>2

---------------------------------------------------------------------------
(* Answers. *)

LEMMA HandlerAnswers ==
  ASSUME NEW m, NEW t, m.code \in Handled
  PROVE  LET a == HandlerAnswer(m, t)
         IN /\ a.code = IF m.code = "96" THEN "96" ELSE ResponseOf[m.code]
            /\ a.seq \in {m.seq, "", "0"} /\ a # NoAnswer
<1> DEFINE a == HandlerAnswer(m, t)
<1>1. m.code \in {"09", "11", "17", "19", "23", "29", "35", "37", "63", "65", "93", "97", "99", "96"}
  BY DEF Handled, RequestCodes, ResponseOf
<1>2. a.code = IF m.code = "96" THEN "96" ELSE ResponseOf[m.code]
  BY <1>1 DEF HandlerAnswer, Bare, Build, ResponseOf
<1>3. a.seq \in {m.seq, "", "0"}
  BY <1>1 DEF HandlerAnswer, Bare, Build
<1>4. a.code # ""
  BY <1>1, <1>2 DEF ResponseOf
<1>5. a # NoAnswer
  <2>1. NoAnswer.code = ""
    BY DEF NoAnswer
  <2> HIDE DEF a
  <2> QED
    BY <1>4, <2>1
<1> QED
  BY <1>2, <1>3, <1>5

LEMMA ErrorAnswers ==
  ASSUME NEW m, NEW t
  PROVE  LET a == ErrorAnswer(m, t)
         IN /\ a # NoAnswer <=> m.code \in DOMAIN ResponseOf
            /\ a # NoAnswer => m.code # "96" /\ a.code = ResponseOf[m.code] /\ a.seq = m.seq
<1> DEFINE a == ErrorAnswer(m, t)
<1>1. ASSUME m.code \in DOMAIN ResponseOf
      PROVE  a # NoAnswer /\ m.code # "96" /\ a.code = ResponseOf[m.code] /\ a.seq = m.seq
  <2>1. m.code # "96"
    BY <1>1 DEF ResponseOf
  <2>2. a.code = ResponseOf[m.code] /\ a.seq = m.seq
    BY <1>1 DEF ErrorAnswer, Build
  <2>3. ResponseOf[m.code] # ""
    BY <1>1 DEF ResponseOf
  <2>4. NoAnswer.code = ""
    BY DEF NoAnswer
  <2> HIDE DEF a
  <2>5. a # NoAnswer
    BY <2>2, <2>3, <2>4
  <2> QED
    BY <2>1, <2>2, <2>5
<1>2. m.code \notin DOMAIN ResponseOf => a = NoAnswer
  BY DEF ErrorAnswer
<1> QED
  BY <1>1, <1>2

---------------------------------------------------------------------------
(* The inductive invariant.  What is left of the stream, read but not taken *)
(* or still to be read, is split into messages of the device, in the order  *)
(* it sent them; as long as the device is there, into all that were not     *)
(* taken.  Line ends are whole in it, so that what is found under whichever *)
(* delimiter is such a message.  What is processed was sent, was parsed     *)
(* under the settings of some tenant, and has its own answer.               *)

Processing == {"parsing", "parsed", "handling", "replying", "erring"}
EncodedAs(s, c, j) == Encode(s[j].request, c, s[j].garbled)
SentAs(j) == EncodedAs(sent, checks, j)
Left == buf \o wire

Types == TypeOK /\ wire \in Seq(Units) /\ buf \in Seq(Units) /\ raw \in Seq(Units)
Whole(s) == Paired(s, terminator) /\ (~gone /\ s # << >> => Last(s) = LastOf(terminator))
AsSent ==
  /\ Len(Complete(Left)) <= Len(sent) - taken
  /\ ~gone => Len(Complete(Left)) = Len(sent) - taken
  /\ \A j \in DOMAIN Complete(Left) : Complete(Left)[j] = SentAs(taken + j)
ReadSoFar == pc = "reading" => Read(buf, delim)
RawSent ==
  /\ pc \notin Processing => raw = << >>
  /\ raw # << >> => taken >= 1 /\ raw = SentAs(taken)
MsgParsed ==
  /\ pc \in Processing \ {"parsing"} => \E t \in Tenants : msg = Parse(raw, t)
  /\ pc = "parsed" => msg = Parse(raw, tenant)
  /\ pc \in {"handling", "replying", "erring"} => msg.ok
  /\ pc \in {"handling", "replying"} => msg.code \in Handled
ReplyBuilt ==
  /\ pc = "replying" => \E t \in Tenants : reply = HandlerAnswer(msg, t)
  /\ pc = "erring" => \E t \in Tenants : reply = ErrorAnswer(msg, t)
IInv == Types /\ Whole(Left) /\ AsSent /\ ReadSoFar /\ RawSent /\ MsgParsed /\ ReplyBuilt

LEMMA TypeFacts ==
  ASSUME Types
  PROVE  /\ terminator \in LineEnds /\ delim \in LineEnds /\ checks \in BOOLEAN /\ gone \in BOOLEAN
         /\ Left \in Seq(Units) /\ taken \in Nat /\ Len(sent) \in Nat /\ taken <= Len(sent)
         /\ tenant \in Tenants
         /\ \A j \in 1..Len(sent) : sent[j].request \in Requests /\ sent[j].garbled \in BOOLEAN
<1>1. terminator \in LineEnds /\ delim \in LineEnds
  BY FramingAssumption DEF Types, TypeOK, LineEnds
<1>2. Left \in Seq(Units)
  BY DEF Types, Left
<1>3. sent \in Seq([request : Requests, garbled : BOOLEAN])
  BY DEF Types, TypeOK
<1>4. Len(sent) \in Nat /\ \A j \in 1..Len(sent) : sent[j] \in [request : Requests, garbled : BOOLEAN]
  <2> DEFINE R == [request : Requests, garbled : BOOLEAN]
  <2> HIDE DEF R
  <2>1. sent \in Seq(R)
    BY <1>3 DEF R
  <2>2. Len(sent) \in Nat /\ \A j \in 1..Len(sent) : sent[j] \in R
    BY <2>1
  <2> QED
    BY <2>2 DEF R
<1>5. \A j \in 1..Len(sent) : sent[j].request \in Requests /\ sent[j].garbled \in BOOLEAN
  BY <1>4
<1> QED
  BY <1>1, <1>2, <1>4, <1>5 DEF Types, TypeOK

(* What the device sends joins the stream as one more message.              *)
LEMMA Sent ==
  ASSUME Types, Whole(Left), ~gone, NEW r \in Requests, NEW g \in BOOLEAN
  PROVE  LET e == Encode(r, checks, g)
             x == e \o Bytes(terminator)
         IN /\ x \in Seq(Units) /\ Whole(Left \o x)
            /\ Complete(Left \o x) = Append(Complete(Left), e)
            /\ e \in Seq(Units) /\ e # << >>
<1> DEFINE e == Encode(r, checks, g)
           x == e \o Bytes(terminator)
           s == Left
<1>1. /\ terminator \in LineEnds /\ checks \in BOOLEAN /\ gone = FALSE /\ s \in Seq(Units)
  BY TypeFacts
<1>2. e \in Seq(Units) /\ e # << >> /\ Clean(e)
  BY <1>1, EncodeClean DEF Clean
<1> HIDE DEF e, s
<1>3. /\ x \in Seq(Units) /\ x # << >> /\ Split(x) = [done |-> << e >>, open |-> << >>]
      /\ Last(x) = LastOf(terminator) /\ Paired(x, terminator) /\ x[1] # LF
  BY <1>1, <1>2, LineSplit
<1> HIDE DEF x
<1>4. Paired(s, terminator) /\ (s # << >> => Last(s) = LastOf(terminator))
  BY DEF Whole, s
<1>5. Paired(s \o x, terminator)
  BY <1>1, <1>3, <1>4, PairedConcat
<1>6. Last(s \o x) = LastOf(terminator)
  BY <1>1, <1>3, <1>5, PairedSuffix
<1>7. Complete(x) = << e >>
  BY <1>3 DEF Complete
<1>8. Complete(s) \in Seq(Seq(Units))
  BY <1>1, SplitType
<1>9. Complete(s \o x) = Complete(s) \o << e >>
  <2>1. Split(s).open = << >>
    BY <1>1, <1>4, NoneOpen
  <2> QED
    BY <1>1, <1>3, <1>7, <2>1, SplitConcat
<1>10. Complete(s \o x) = Append(Complete(s), e)
  <2> DEFINE c == Complete(s)
  <2> HIDE DEF c
  <2>1. c \in Seq(Seq(Units)) /\ e \in Seq(Units)
    BY <1>2, <1>8 DEF c
  <2>2. c \o << e >> = Append(c, e)
    BY <2>1
  <2> QED
    BY <1>9, <2>2 DEF c
<1> QED
  BY <1>2, <1>3, <1>5, <1>6, <1>10 DEF Whole, e, x, s

(* A message broken off is none, unless only its last character is missing. *)
LEMMA BrokenOff ==
  ASSUME Types, Whole(Left), ~gone, NEW r \in Requests,
         NEW k \in {1, Len(Encode(r, checks, FALSE) \o Bytes(terminator)) - 1}
  PROVE  LET e == Encode(r, checks, FALSE)
             x == e \o Bytes(terminator)
             y == SubSeq(x, 1, k)
         IN /\ y \in Seq(Units) /\ Paired(Left \o y, terminator)
            /\ \/ Complete(Left \o y) = Complete(Left)
               \/ /\ Complete(Left \o y) = Append(Complete(Left), e)
                  /\ k >= Len(x) - Len(Bytes(terminator))
            /\ e \in Seq(Units)
<1> DEFINE e == Encode(r, checks, FALSE)
           x == e \o Bytes(terminator)
           y == SubSeq(x, 1, k)
           s == Left
           b == Len(Bytes(terminator))
<1>1. /\ terminator \in LineEnds /\ checks \in BOOLEAN /\ gone = FALSE /\ s \in Seq(Units)
  BY TypeFacts
<1>2. e \in Seq(Units) /\ e # << >> /\ Clean(e)
  BY <1>1, EncodeClean DEF Clean
<1>3. k \in {1, Len(x) - 1}
  OBVIOUS
<1> HIDE DEF e, s
<1>4. /\ x \in Seq(Units) /\ x # << >> /\ Len(x) = Len(e) + b
      /\ Paired(x, terminator) /\ x[1] # LF
  BY <1>1, <1>2, LineSplit
<1>5. /\ Bytes(terminator) \in Seq(Units) /\ b \in {1, 2} /\ b \in Nat
      /\ b = 2 => Bytes(terminator) = << CR, LF >>
  <2>1. terminator = "CR" \/ terminator = "LF" \/ terminator = "CRLF"
    BY <1>1 DEF LineEnds
  <2>2. /\ Bytes(terminator) \in Seq(Units)
        /\ terminator = "CRLF" => Bytes(terminator) = << CR, LF >> /\ b = 2
        /\ terminator # "CRLF" => b = 1
    BY <1>1, <2>1, BytesFacts
  <2> HIDE DEF b
  <2> QED
    BY <2>2
<1>6. /\ \A i \in 1..Len(e) : x[i] = e[i]
      /\ \A i \in 1..b : x[Len(e) + i] = Bytes(terminator)[i]
  BY <1>2, <1>5, Concat
<1>7. Len(e) \in Nat /\ Len(e) >= 1 /\ DOMAIN e = 1..Len(e)
  BY <1>2
<1> HIDE DEF x, b
<1>8. k \in 1..Len(x) /\ k \in 0..Len(x) /\ k \in Nat /\ Len(x) \in Nat
  BY <1>3, <1>4, <1>5, <1>7
<1>9. /\ y \in Seq(Units) /\ Len(y) = k /\ DOMAIN y = 1..k /\ y # << >>
      /\ \A i \in 1..k : y[i] = x[i]
  BY <1>4, <1>8
<1>10. Paired(y, terminator)
  BY <1>4, <1>8, PairedPrefix
<1> HIDE DEF y
<1>11. y[1] # LF
  <2>1. 1 \in 1..k
    BY <1>8
  <2> QED
    BY <1>4, <1>9, <2>1
<1>12. Paired(s, terminator) /\ (s # << >> => Last(s) = LastOf(terminator))
  BY DEF Whole, s
<1>13. Paired(s \o y, terminator)
  BY <1>1, <1>9, <1>10, <1>11, <1>12, PairedConcat
<1>14. Complete(s \o y) = Complete(s) \o Complete(y)
  <2>1. Split(s).open = << >>
    BY <1>1, <1>12, NoneOpen
  <2> QED
    BY <1>1, <1>9, <2>1, SplitConcat
<1>15. Complete(s) \in Seq(Seq(Units))
  BY <1>1, SplitType
<1>16. CASE k <= Len(e)
  <2>1. Clean(y)
    <3>1. \A i \in 1..k : i \in 1..Len(e)
      BY <1>7, <1>8, <1>16
    <3>2. \A i \in 1..k : y[i] = e[i]
      BY <1>6, <1>9, <3>1
    <3> QED
      BY <1>2, <1>7, <1>9, <3>1, <3>2 DEF Clean
  <2>2. Complete(y) = << >>
    BY <1>9, <2>1, SplitClean DEF Clean, Complete
  <2>3. Complete(s \o y) = Complete(s)
    <3> DEFINE c == Complete(s)
    <3> HIDE DEF c
    <3>1. c \o << >> = c
      BY <1>15 DEF c
    <3> QED
      BY <1>14, <2>2, <3>1 DEF c
  <2> QED
    BY <1>2, <1>9, <1>13, <2>3 DEF s, e, x, y
<1>17. CASE k > Len(e)
  <2>1. k = Len(e) + 1 /\ b = 2 /\ k >= Len(x) - b
    BY <1>3, <1>4, <1>5, <1>7, <1>17
  <2>2. y = Append(e, CR)
    <3> DEFINE z == Append(e, CR)
    <3>1. CR \in Units
      BY ControlTypes
    <3>2. z \in Seq(Units) /\ Len(z) = k /\ z[k] = CR /\ \A i \in 1..Len(e) : z[i] = e[i]
      BY <1>2, <2>1, <3>1
    <3> HIDE DEF z
    <3>3. \A i \in 1..k : i \in 1..Len(e) \/ i = k
      BY <1>7, <2>1
    <3>4. x[k] = CR
      <4>1. 1 \in 1..b /\ Bytes(terminator)[1] = CR
        BY <1>5, <2>1
      <4> QED
        BY <1>6, <2>1, <4>1
    <3>5. \A i \in 1..k : y[i] = z[i]
      BY <1>6, <1>9, <3>2, <3>3, <3>4
    <3>6. y = z
      BY <1>9, <3>2, <3>5
    <3> QED
      BY <3>6 DEF z
  <2>3. Split(y) = Only(e) /\ Only(e).done = << e >>
    BY <1>2, <2>2, ControlTypes, LineRead DEF Only
  <2>4. Complete(y) = << e >>
    BY <2>3 DEF Complete
  <2>5. Complete(s \o y) = Append(Complete(s), e)
    <3> DEFINE c == Complete(s)
    <3> HIDE DEF c
    <3>1. c \in Seq(Seq(Units)) /\ e \in Seq(Units)
      BY <1>2, <1>15 DEF c
    <3>2. c \o << e >> = Append(c, e)
      BY <3>1
    <3> QED
      BY <1>14, <2>4, <3>2 DEF c
  <2> QED
    BY <1>2, <1>9, <1>13, <2>1, <2>5 DEF s, e, x, y, b
<1>18. k <= Len(e) \/ k > Len(e)
  BY <1>7, <1>8
<1> QED
  BY <1>16, <1>17, <1>18

(* What reading one unit makes of the stream: a stray line end, the end of  *)
(* a message or of nothing, or one more unit of what is being read.         *)
LEMMA UnitRead ==
  ASSUME Types, Whole(Left), ReadSoFar, pc = "reading", wire # << >>
  PROVE  LET u == Head(wire)
             us == Append(buf, u)
             w == Tail(wire)
         IN /\ w \in Seq(Units) /\ us \in Seq(Units) /\ Whole(w) /\ Left = us \o w
            /\ Stray(u) => Complete(w) = Complete(Left)
            /\ ~Stray(u) /\ EndsInDelimiter(us) =>
                 /\ Unframed(us) \in Seq(Units)
                 /\ Unframed(us) = << >> => Complete(w) = Complete(Left)
                 /\ Unframed(us) # << >> => Complete(Left) = << Unframed(us) >> \o Complete(w)
            /\ ~Stray(u) /\ ~EndsInDelimiter(us) => Read(us, delim)
<1> DEFINE u == Head(wire)
           us == Append(buf, u)
           w == Tail(wire)
           U == Unframed(us)
<1>1. terminator \in LineEnds /\ delim \in LineEnds
  BY TypeFacts
<1>2. buf \in Seq(Units) /\ wire \in Seq(Units) /\ Read(buf, delim)
  BY DEF Types, ReadSoFar
<1>3. u \in Units /\ w \in Seq(Units) /\ us \in Seq(Units) /\ Left = us \o w
  BY <1>2, Shift DEF Left
<1> HIDE DEF u, w
<1>4. us # << >>
  <2>1. Len(us) = Len(buf) + 1 /\ Len(buf) \in Nat
    BY <1>2, <1>3
  <2> HIDE DEF us
  <2> QED
    BY <2>1
<1>5. Paired(us \o w, terminator) /\ (~gone /\ us \o w # << >> => Last(us \o w) = LastOf(terminator))
  <2> HIDE DEF us
  <2> QED
    BY <1>3 DEF Whole
<1>6. Paired(us, terminator) /\ Whole(w)
  <2> HIDE DEF us
  <2>1. /\ Paired(w, terminator) /\ Paired(us, terminator)
        /\ w # << >> => us \o w # << >> /\ Last(w) = Last(us \o w)
    BY <1>3, <1>5, PairedSuffix
  <2> QED
    BY <1>5, <2>1 DEF Whole
<1>7. Complete(w) \in Seq(Seq(Units))
  BY <1>3, SplitType
<1>8. ASSUME Split(us).open = << >>
      PROVE  Complete(Left) = Complete(us) \o Complete(w)
  <2> HIDE DEF us
  <2> QED
    BY <1>3, <1>8, SplitConcat
<1>9. ASSUME Split(us).done = << >>, Split(us).open = << >>
      PROVE  Complete(w) = Complete(Left)
  <2> DEFINE c == Complete(w)
  <2>1. Complete(us) = << >>
    BY <1>9 DEF Complete
  <2>2. << >> \o c = c
    <3> HIDE DEF c
    <3>1. c \in Seq(Seq(Units))
      BY <1>7 DEF c
    <3> QED
      BY <3>1
  <2> QED
    BY <1>8, <1>9, <2>1, <2>2
<1>10. ASSUME Stray(u) PROVE Complete(w) = Complete(Left)
  <2>1. buf = << >> /\ u = LF
    BY <1>10 DEF Stray
  <2>2. Append(<< >>, LF) = us
    BY <2>1
  <2>3. << >> \in Seq(Units) /\ Clean(<< >>)
    BY DEF Clean
  <2>4. Split(us) = Only(<< >>)
    BY <2>2, <2>3, ControlTypes, LineRead
  <2>5. Split(us).done = << >> /\ Split(us).open = << >>
    BY <2>4 DEF Only
  <2> QED
    BY <1>9, <2>5
<1>11. ASSUME EndsInDelimiter(us)
       PROVE  /\ U \in Seq(Units)
              /\ U = << >> => Complete(w) = Complete(Left)
              /\ U # << >> => Complete(Left) = << U >> \o Complete(w)
  <2>1. Split(us) = Only(U) /\ U \in Seq(Units)
    BY <1>1, <1>2, <1>3, <1>6, <1>11, Taken
  <2> HIDE DEF U
  <2>2. Split(us).open = << >>
    BY <2>1 DEF Only
  <2>3. U = << >> => Split(us).done = << >>
    BY <2>1 DEF Only
  <2>4. U # << >> => Complete(us) = << U >>
    BY <2>1 DEF Only, Complete
  <2> QED
    BY <1>8, <1>9, <2>1, <2>2, <2>3, <2>4
<1>12. ASSUME ~Stray(u), ~EndsInDelimiter(us) PROVE Read(us, delim)
  BY <1>1, <1>2, <1>3, <1>12, ReadOn DEF Stray
<1> QED
  BY <1>3, <1>6, <1>10, <1>11, <1>12 DEF u, w

---------------------------------------------------------------------------
(* The invariant holds at first, and every action keeps it. *)

LEMMA InitInv == Init => IInv
<1> SUFFICES ASSUME Init PROVE IInv
  OBVIOUS
<1>1. /\ terminator \in Terminators /\ checks \in BOOLEAN /\ sent = << >> /\ gone = FALSE
      /\ wire = << >> /\ pc = "poll" /\ tenant \in Tenants /\ delim = "CR" /\ buf = << >>
      /\ raw = << >> /\ taken = 0 /\ msg = ParseError /\ reply = NoAnswer
  BY DEF Init
<1>2. Types
  <2>1. Len(sent) = 0 /\ MaxSent \in Nat /\ sent \in Seq([request : Requests, garbled : BOOLEAN])
    BY <1>1, FramingAssumption
  <2>2. << >> \in Seq(Units)
    OBVIOUS
  <2>3. taken \in 0..Len(sent) /\ Len(sent) <= MaxSent
    BY <1>1, <2>1
  <2>4. pc \notin {"reading", "closed", "handling", "replying", "erring"}
    BY <1>1
  <2>5. /\ (pc \notin {"reading", "closed"} => buf = << >>)
        /\ (pc \in {"handling", "replying"} => msg.ok /\ raw # << >>)
        /\ (reply # NoAnswer <=> pc \in {"replying", "erring"})
    BY <1>1, <2>4
  <2>6. TypeOK
    BY <1>1, <2>1, <2>3, <2>5 DEF TypeOK
  <2> QED
    BY <1>1, <2>2, <2>6 DEF Types
<1>3. Left = << >>
  BY <1>1 DEF Left
<1>4. Complete(Left) = << >>
  BY <1>3, SplitEmpty DEF Complete, NothingRead
<1>5. Whole(Left)
  <2>1. DOMAIN << >> = {}
    OBVIOUS
  <2> QED
    BY <1>3, <2>1 DEF Whole, Paired
<1>6. AsSent
  <2>1. Len(Complete(Left)) = 0 /\ Len(sent) = 0 /\ DOMAIN Complete(Left) = {}
    BY <1>1, <1>4
  <2> QED
    BY <1>1, <2>1 DEF AsSent
<1> QED
  BY <1>1, <1>2, <1>5, <1>6
  DEF IInv, ReadSoFar, RawSent, MsgParsed, ReplyBuilt, Processing

(* One more message of the device. *)
LEMMA SentLonger ==
  ASSUME Types, NEW r \in Requests, NEW g \in BOOLEAN,
         sent' = Append(sent, [request |-> r, garbled |-> g]), checks' = checks
  PROVE  /\ sent' \in Seq([request : Requests, garbled : BOOLEAN])
         /\ Len(sent') = Len(sent) + 1
         /\ \A j \in 1..Len(sent) : EncodedAs(sent', checks', j) = SentAs(j)
         /\ EncodedAs(sent', checks', Len(sent) + 1) = Encode(r, checks, g)
<1> DEFINE R == [request : Requests, garbled : BOOLEAN]
           q == [request |-> r, garbled |-> g]
<1>1. sent \in Seq(R)
  BY DEF Types, TypeOK
<1>2. q \in R /\ q.request = r /\ q.garbled = g
  OBVIOUS
<1> HIDE DEF R, q
<1>3. sent' = Append(sent, q)
  BY DEF q
<1>4. /\ sent' \in Seq(R) /\ Len(sent') = Len(sent) + 1 /\ sent'[Len(sent) + 1] = q
      /\ \A j \in 1..Len(sent) : sent'[j] = sent[j]
  BY <1>1, <1>2, <1>3
<1>5. \A j \in 1..Len(sent) : EncodedAs(sent', checks', j) = SentAs(j)
  BY <1>4 DEF SentAs, EncodedAs
<1>6. EncodedAs(sent', checks', Len(sent) + 1) = Encode(r, checks, g)
  BY <1>2, <1>4 DEF EncodedAs
<1> QED
  BY <1>4, <1>5, <1>6 DEF R

(* What is left of the stream is in the order sent, with that message or    *)
(* without it.                                                              *)
LEMMA Joins ==
  ASSUME Types, AsSent, ~gone, NEW r \in Requests, NEW g \in BOOLEAN,
         sent' = Append(sent, [request |-> r, garbled |-> g]), checks' = checks, taken' = taken,
         \/ Complete(Left') = Append(Complete(Left), Encode(r, checks, g))
         \/ Complete(Left') = Complete(Left) /\ gone'
  PROVE  AsSent'
<1> DEFINE c == Complete(Left)
           d == Complete(Left')
           e == Encode(r, checks, g)
<1>1. /\ Len(sent') = Len(sent) + 1
      /\ \A j \in 1..Len(sent) : EncodedAs(sent', checks', j) = SentAs(j)
      /\ EncodedAs(sent', checks', Len(sent) + 1) = e
  BY SentLonger
<1>2. /\ Left \in Seq(Units) /\ taken \in Nat /\ Len(sent) \in Nat /\ taken <= Len(sent)
      /\ checks \in BOOLEAN
  BY TypeFacts
<1>3. c \in Seq(Seq(Units)) /\ e \in Seq(Units)
  BY <1>2, SplitType, EncodeClean
<1>4. /\ Len(c) = Len(sent) - taken /\ Len(c) \in Nat /\ DOMAIN c = 1..Len(c)
      /\ \A j \in DOMAIN c : c[j] = SentAs(taken + j)
  <2>1. /\ Len(c) = Len(sent) - taken
        /\ \A j \in DOMAIN c : c[j] = SentAs(taken + j)
    BY DEF AsSent
  <2> HIDE DEF c
  <2> QED
    BY <1>3, <2>1
<1> HIDE DEF c, d, e
<1>5. \A j \in DOMAIN c : taken + j \in 1..Len(sent)
  BY <1>2, <1>4
<1>6. \A j \in DOMAIN c : c[j] = EncodedAs(sent', checks', taken + j)
  BY <1>1, <1>4, <1>5
<1>7. CASE d = Append(c, e)
  <2>1. /\ Len(d) = Len(c) + 1 /\ DOMAIN d = 1..(Len(c) + 1) /\ d[Len(c) + 1] = e
        /\ \A j \in 1..Len(c) : d[j] = c[j]
    BY <1>3, <1>7
  <2>2. \A j \in DOMAIN d : d[j] = EncodedAs(sent', checks', taken + j)
    <3>1. TAKE j \in DOMAIN d
    <3>2. CASE j \in 1..Len(c)
      BY <1>4, <1>6, <2>1, <3>2
    <3>3. CASE j = Len(c) + 1
      <4>1. taken + j = Len(sent) + 1
        BY <1>2, <1>4, <3>3
      <4> QED
        BY <1>1, <2>1, <3>3, <4>1
    <3> QED
      BY <1>4, <2>1, <3>2, <3>3
  <2>3. Len(d) = Len(sent') - taken'
    BY <1>1, <1>2, <1>4, <2>1
  <2>4. Len(d) <= Len(sent') - taken'
    BY <1>1, <1>2, <1>4, <2>1
  <2> QED
    BY <2>2, <2>3, <2>4 DEF AsSent, SentAs, d
<1>8. CASE d = c /\ gone'
  <2>1. Len(d) <= Len(sent') - taken'
    BY <1>1, <1>2, <1>4, <1>8
  <2>2. \A j \in DOMAIN d : d[j] = EncodedAs(sent', checks', taken + j)
    BY <1>6, <1>8
  <2> QED
    BY <1>8, <2>1, <2>2 DEF AsSent, SentAs, d
<1> QED
  BY <1>7, <1>8 DEF c, d, e

(* What is processed stays the same when the device sends one more.         *)
LEMMA RawStays ==
  ASSUME IInv, sent' = sent \/ \E r \in Requests, g \in BOOLEAN :
                                 sent' = Append(sent, [request |-> r, garbled |-> g]),
         UNCHANGED <<checks, pc, tenant, delim, buf, raw, taken, msg, reply>>
  PROVE  (ReadSoFar /\ RawSent /\ MsgParsed /\ ReplyBuilt)'
<1>1. Types /\ ReadSoFar /\ RawSent /\ MsgParsed /\ ReplyBuilt
  BY DEF IInv
<1>2. taken \in Nat /\ Len(sent) \in Nat /\ taken <= Len(sent)
  BY <1>1, TypeFacts
<1>3. \A j \in 1..Len(sent) : EncodedAs(sent', checks', j) = SentAs(j)
  <2>1. CASE sent' = sent
    BY <2>1 DEF SentAs
  <2>2. CASE \E r \in Requests, g \in BOOLEAN : sent' = Append(sent, [request |-> r, garbled |-> g])
    BY <1>1, <2>2, SentLonger
  <2> QED
    BY <2>1, <2>2
<1>4. taken >= 1 => SentAs(taken)' = SentAs(taken)
  <2>1. taken >= 1 => taken \in 1..Len(sent)
    BY <1>2
  <2>2. taken >= 1 => EncodedAs(sent', checks', taken) = SentAs(taken)
    BY <1>3, <2>1
  <2> QED
    BY <2>2 DEF SentAs
<1>5. RawSent'
  BY <1>1, <1>4 DEF RawSent
<1>6. ReadSoFar'
  BY <1>1 DEF ReadSoFar
<1>7. MsgParsed' /\ ReplyBuilt'
  BY <1>1 DEF MsgParsed, ReplyBuilt
<1> QED
  BY <1>5, <1>6, <1>7

LEMMA LeftLonger ==
  ASSUME Types, NEW x \in Seq(Units), wire' = wire \o x, buf' = buf
  PROVE  Left' = Left \o x /\ wire' \in Seq(Units)
<1>1. wire \in Seq(Units) /\ buf \in Seq(Units)
  BY DEF Types
<1>2. buf \o (wire \o x) = (buf \o wire) \o x
  BY <1>1, ConcatAssociative
<1> QED
  BY <1>1, <1>2 DEF Left

LEMMA DeviceSendsInv == IInv /\ DeviceSends => IInv'
<1> SUFFICES ASSUME IInv, DeviceSends PROVE IInv'
  OBVIOUS
<1>1. Types /\ Whole(Left) /\ AsSent
  BY DEF IInv
<1>2. PICK r \in Requests, g \in BOOLEAN :
        /\ ~gone /\ Len(sent) < MaxSent
        /\ sent' = Append(sent, [request |-> r, garbled |-> g])
        /\ wire' = wire \o Encode(r, checks, g) \o Bytes(terminator)
  BY DEF DeviceSends
<1>3. UNCHANGED <<terminator, checks, gone, pc, tenant, delim, buf, raw, taken, msg, reply>>
  BY DEF DeviceSends
<1> DEFINE e == Encode(r, checks, g)
           x == e \o Bytes(terminator)
<1>4. /\ x \in Seq(Units) /\ Whole(Left \o x) /\ Complete(Left \o x) = Append(Complete(Left), e)
      /\ e \in Seq(Units)
  BY <1>1, <1>2, Sent
<1>5. terminator \in LineEnds /\ Bytes(terminator) \in Seq(Units)
  BY <1>1, TypeFacts, BytesFacts
<1>6. wire' = wire \o x
  <2> DEFINE b == Bytes(terminator)
  <2>1. wire \in Seq(Units) /\ e \in Seq(Units) /\ b \in Seq(Units)
    BY <1>1, <1>4, <1>5 DEF Types
  <2>2. wire' = (wire \o e) \o b
    BY <1>2
  <2>3. x = e \o b
    OBVIOUS
  <2> HIDE DEF x, e, b
  <2>4. (wire \o e) \o b = wire \o (e \o b)
    BY <2>1, ConcatAssociative
  <2> QED
    BY <2>2, <2>3, <2>4
<1> HIDE DEF e, x
<1>7. Left' = Left \o x /\ wire' \in Seq(Units)
  BY <1>1, <1>3, <1>4, <1>6, LeftLonger
<1>8. Whole(Left)'
  BY <1>3, <1>4, <1>7 DEF Whole
<1>9. AsSent'
  BY <1>1, <1>2, <1>3, <1>4, <1>7, Joins DEF e
<1>10. Types'
  <2>1. /\ sent' \in Seq([request : Requests, garbled : BOOLEAN]) /\ Len(sent') = Len(sent) + 1
    BY <1>1, <1>2, <1>3, SentLonger
  <2>2. /\ Len(sent) \in Nat /\ taken \in Nat /\ taken <= Len(sent) /\ MaxSent \in Nat
    BY <1>1, TypeFacts, FramingAssumption
  <2>3. Len(sent') <= MaxSent /\ taken' \in 0..Len(sent')
    BY <1>2, <1>3, <2>1, <2>2
  <2>4. TypeOK'
    BY <1>1, <1>3, <2>1, <2>3 DEF Types, TypeOK
  <2> QED
    BY <1>1, <1>3, <1>7, <2>4 DEF Types
<1>11. (ReadSoFar /\ RawSent /\ MsgParsed /\ ReplyBuilt)'
  BY <1>2, <1>3, RawStays
<1> QED
  BY <1>8, <1>9, <1>10, <1>11 DEF IInv

LEMMA DeviceBreaksOffInv == IInv /\ DeviceBreaksOff => IInv'
<1> SUFFICES ASSUME IInv, DeviceBreaksOff PROVE IInv'
  OBVIOUS
<1>1. Types /\ Whole(Left) /\ AsSent
  BY DEF IInv
<1>2. PICK r \in Requests :
        LET text == Encode(r, checks, FALSE) \o Bytes(terminator)
        IN \E k \in {1, Len(text) - 1} :
             /\ ~gone /\ Len(sent) < MaxSent
             /\ wire' = wire \o SubSeq(text, 1, k)
             /\ sent' = IF k >= Len(text) - Len(Bytes(terminator))
                        THEN Append(sent, [request |-> r, garbled |-> FALSE]) ELSE sent
             /\ gone' = TRUE
             /\ UNCHANGED <<terminator, checks, pc, tenant, delim, buf, raw, taken, msg, reply>>
  BY DEF DeviceBreaksOff
<1> DEFINE e == Encode(r, checks, FALSE)
           x == e \o Bytes(terminator)
<1>3. PICK k \in {1, Len(x) - 1} :
        /\ ~gone /\ Len(sent) < MaxSent
        /\ wire' = wire \o SubSeq(x, 1, k)
        /\ sent' = IF k >= Len(x) - Len(Bytes(terminator))
                   THEN Append(sent, [request |-> r, garbled |-> FALSE]) ELSE sent
        /\ gone' = TRUE
        /\ UNCHANGED <<terminator, checks, pc, tenant, delim, buf, raw, taken, msg, reply>>
  BY <1>2
<1> DEFINE y == SubSeq(x, 1, k)
<1>4. /\ y \in Seq(Units) /\ Paired(Left \o y, terminator)
      /\ \/ Complete(Left \o y) = Complete(Left)
         \/ /\ Complete(Left \o y) = Append(Complete(Left), e)
            /\ k >= Len(x) - Len(Bytes(terminator))
  BY <1>1, <1>3, BrokenOff
<1> HIDE DEF y
<1>5. Left' = Left \o y /\ wire' \in Seq(Units)
  BY <1>1, <1>3, <1>4, LeftLonger DEF y
<1> DEFINE longer == sent' = Append(sent, [request |-> r, garbled |-> FALSE])
<1>6. longer \/ sent' = sent
  BY <1>3
<1>7. k >= Len(x) - Len(Bytes(terminator)) => longer
  BY <1>3
<1> HIDE DEF x
<1>8. Whole(Left)'
  BY <1>3, <1>4, <1>5 DEF Whole
<1>9. AsSent'
  <2>1. CASE longer
    <3>1. \/ Complete(Left') = Append(Complete(Left), Encode(r, checks, FALSE))
          \/ Complete(Left') = Complete(Left) /\ gone'
      BY <1>3, <1>4, <1>5
    <3> QED
      BY <1>1, <1>3, <2>1, <3>1, Joins
  <2>2. CASE ~longer
    <3>1. sent' = sent /\ Complete(Left') = Complete(Left)
      BY <1>4, <1>5, <1>6, <1>7, <2>2
    <3> QED
      BY <1>1, <1>3, <3>1 DEF AsSent, SentAs
  <2> QED
    BY <2>1, <2>2
<1>10. Types'
  <2>1. /\ sent' \in Seq([request : Requests, garbled : BOOLEAN])
        /\ Len(sent') = Len(sent) \/ Len(sent') = Len(sent) + 1
    <3>1. CASE longer
      BY <1>1, <1>3, <3>1, SentLonger
    <3>2. CASE sent' = sent
      BY <1>1, <3>2 DEF Types, TypeOK
    <3> QED
      BY <1>6, <3>1, <3>2
  <2>2. /\ Len(sent) \in Nat /\ taken \in Nat /\ taken <= Len(sent) /\ MaxSent \in Nat
    BY <1>1, TypeFacts, FramingAssumption
  <2>3. Len(sent') <= MaxSent /\ taken' \in 0..Len(sent')
    BY <1>3, <2>1, <2>2
  <2>4. TypeOK'
    BY <1>1, <1>3, <2>1, <2>3 DEF Types, TypeOK
  <2> QED
    BY <1>1, <1>3, <1>5, <2>4 DEF Types
<1>11. (ReadSoFar /\ RawSent /\ MsgParsed /\ ReplyBuilt)'
  BY <1>3, <1>6, RawStays
<1> QED
  BY <1>8, <1>9, <1>10, <1>11 DEF IInv

LEMMA DeviceLeavesInv == IInv /\ DeviceLeaves => IInv'
<1> SUFFICES ASSUME IInv, DeviceLeaves PROVE IInv'
  OBVIOUS
<1>1. Types /\ Whole(Left) /\ AsSent
  BY DEF IInv
<1>2. /\ gone' = TRUE
      /\ UNCHANGED <<terminator, checks, sent, wire, pc, tenant, delim, buf, raw, taken, msg, reply>>
  BY DEF DeviceLeaves
<1>3. Left' = Left
  BY <1>2 DEF Left
<1>4. Whole(Left)'
  BY <1>1, <1>2, <1>3 DEF Whole
<1>5. AsSent'
  BY <1>1, <1>2, <1>3 DEF AsSent, SentAs
<1>6. Types'
  BY <1>1, <1>2 DEF Types, TypeOK
<1>7. (ReadSoFar /\ RawSent /\ MsgParsed /\ ReplyBuilt)'
  BY <1>2, RawStays
<1> QED
  BY <1>4, <1>5, <1>6, <1>7 DEF IInv

(* The steps that read nothing leave the stream as it is.                   *)
LEMMA Quiet ==
  ASSUME IInv, UNCHANGED <<device, wire, buf, taken>>, raw' \in {raw, << >>},
         tenant' \in Tenants, delim' \in LineEnds,
         pc' \in {"poll", "reading", "parsing", "parsed", "handling", "replying", "erring", "closed"},
         pc \notin {"reading", "closed"} \/ pc' \in {"reading", "closed"},
         pc' \in {"handling", "replying"} => msg'.ok /\ raw' # << >>,
         reply' # NoAnswer <=> pc' \in {"replying", "erring"}
  PROVE  Types' /\ Whole(Left)' /\ AsSent'
<1>1. UNCHANGED <<terminator, checks, sent, gone, wire, buf, taken>>
  BY DEF device
<1>2. Types /\ Whole(Left) /\ AsSent
  BY DEF IInv
<1>3. Left' = Left
  BY <1>1 DEF Left
<1>4. Whole(Left)'
  BY <1>1, <1>2, <1>3 DEF Whole
<1>5. AsSent'
  BY <1>1, <1>2, <1>3 DEF AsSent, SentAs
<1>6. pc' \notin {"reading", "closed"} => buf' = << >>
  <2>1. pc \notin {"reading", "closed"} => buf = << >>
    BY <1>2 DEF Types, TypeOK
  <2> QED
    BY <1>1, <2>1
<1>7. TypeOK'
  BY <1>1, <1>2, <1>6 DEF Types, TypeOK, LineEnds
<1>8. raw' \in Seq(Units) /\ wire' \in Seq(Units) /\ buf' \in Seq(Units)
  <2>1. << >> \in Seq(Units)
    OBVIOUS
  <2> QED
    BY <1>1, <1>2, <2>1 DEF Types
<1> QED
  BY <1>4, <1>5, <1>7, <1>8 DEF Types

(* What was parsed is what the device sent.                                 *)
LEMMA Grasped ==
  ASSUME IInv, pc \in Processing \ {"parsing"}, msg.ok
  PROVE  LET r == sent[taken].request
             g == sent[taken].garbled
         IN /\ raw # << >> /\ r \in Requests /\ g \in BOOLEAN
            /\ raw = Encode(r, checks, g) /\ Understood(msg, r, g, raw)
<1> DEFINE r == sent[taken].request
           g == sent[taken].garbled
<1>1. Types /\ RawSent /\ MsgParsed
  BY DEF IInv
<1>2. PICK t \in Tenants : msg = Parse(raw, t)
  BY <1>1 DEF MsgParsed
<1>3. raw # << >>
  BY <1>2, NothingParsed
<1>4. taken >= 1 /\ raw = Encode(r, checks, g)
  BY <1>1, <1>3 DEF RawSent, SentAs, EncodedAs
<1>5. taken \in 1..Len(sent) /\ checks \in BOOLEAN
  BY <1>1, <1>4, TypeFacts
<1>6. r \in Requests /\ g \in BOOLEAN
  BY <1>1, <1>5, TypeFacts
<1> HIDE DEF r, g
<1>7. Understood(msg, r, g, raw)
  BY <1>2, <1>4, <1>5, <1>6, ParseReads
<1> QED
  BY <1>3, <1>4, <1>6, <1>7 DEF r, g

LEMMA StartsReadInv == IInv /\ StartsRead => IInv'
<1> SUFFICES ASSUME IInv, StartsRead PROVE IInv'
  OBVIOUS
<1>1. Types /\ RawSent /\ reply = NoAnswer /\ buf = << >>
  BY DEF IInv, StartsRead, Types, TypeOK
<1>2. /\ pc = "poll" /\ pc' = "reading" /\ delim' = Delimiter[tenant] /\ buf' = << >>
      /\ UNCHANGED <<device, wire, tenant, raw, taken, msg, reply>>
  BY DEF StartsRead
<1>3. delim' \in LineEnds /\ tenant' \in Tenants
  BY <1>1, <1>2, TypeFacts, FramingAssumption DEF LineEnds
<1>4. Types' /\ Whole(Left)' /\ AsSent'
  BY <1>1, <1>2, <1>3, Quiet
<1>5. ReadSoFar'
  <2>1. DOMAIN << >> = {} /\ Len(<< >>) = 0
    OBVIOUS
  <2> QED
    BY <1>2, <2>1 DEF ReadSoFar, Read, NoDelimiterIn
<1>6. raw' = << >>
  BY <1>1, <1>2 DEF RawSent, Processing
<1> QED
  BY <1>2, <1>4, <1>5, <1>6 DEF IInv, RawSent, MsgParsed, ReplyBuilt, Processing

LEMMA ClosesInv == IInv /\ (EndOfStream \/ ReadFails) => IInv'
<1> SUFFICES ASSUME IInv, EndOfStream \/ ReadFails PROVE IInv'
  OBVIOUS
<1>1. /\ pc = "reading" /\ pc' = "closed"
      /\ UNCHANGED <<device, wire, tenant, delim, buf, raw, taken, msg, reply>>
  BY DEF EndOfStream, ReadFails
<1>2. Types /\ RawSent /\ reply = NoAnswer
  BY <1>1 DEF IInv, Types, TypeOK
<1>3. Types' /\ Whole(Left)' /\ AsSent'
  BY <1>1, <1>2, TypeFacts, Quiet
<1>4. raw' = << >>
  BY <1>1, <1>2 DEF RawSent, Processing
<1> QED
  BY <1>1, <1>3, <1>4 DEF IInv, ReadSoFar, RawSent, MsgParsed, ReplyBuilt, Processing

LEMMA ParsesInv == IInv /\ Parses => IInv'
<1> SUFFICES ASSUME IInv, Parses PROVE IInv'
  OBVIOUS
<1>1. /\ pc = "parsing" /\ pc' = "parsed" /\ msg' = Parse(raw, tenant)
      /\ UNCHANGED <<device, wire, tenant, delim, buf, raw, taken, reply>>
  BY DEF Parses
<1>2. Types /\ RawSent /\ reply = NoAnswer
  BY <1>1 DEF IInv, Types, TypeOK
<1>3. Types' /\ Whole(Left)' /\ AsSent'
  BY <1>1, <1>2, TypeFacts, Quiet
<1>4. RawSent'
  BY <1>1, <1>2 DEF RawSent, Processing, SentAs, device
<1>5. MsgParsed'
  BY <1>1, <1>2, TypeFacts DEF MsgParsed
<1> QED
  BY <1>1, <1>3, <1>4, <1>5 DEF IInv, ReadSoFar, ReplyBuilt

(* The message is done with. *)
LEMMA ForgetInv ==
  ASSUME IInv, pc \in {"parsed", "replying", "erring"}, pc' \in {"poll", "closed"}, Forget,
         UNCHANGED <<device, wire, tenant, delim, buf, taken>>
  PROVE  IInv'
<1>1. raw' = << >> /\ reply' = NoAnswer
  BY DEF Forget
<1>2. Types
  BY DEF IInv
<1>3. Types' /\ Whole(Left)' /\ AsSent'
  BY <1>1, <1>2, TypeFacts, Quiet
<1> QED
  BY <1>1, <1>3 DEF IInv, ReadSoFar, RawSent, MsgParsed, ReplyBuilt, Processing

LEMMA DoneInv == IInv /\ (Drops \/ Sends \/ SendFails) => IInv'
  BY ForgetInv DEF Drops, Sends, SendFails

(* A message in hand moves on, with an answer or without one yet. *)
LEMMA MovesOn ==
  ASSUME IInv, pc \in {"parsed", "handling"}, pc' \in {"handling", "replying", "erring"}, msg.ok,
         UNCHANGED <<device, wire, delim, buf, raw, taken, msg>>, tenant' \in Tenants,
         reply' # NoAnswer <=> pc' # "handling",
         pc' # "erring" => msg.code \in Handled,
         pc' = "replying" => reply' = HandlerAnswer(msg, tenant),
         pc' = "erring" => reply' = ErrorAnswer(msg, tenant)
  PROVE  IInv'
<1>1. Types /\ RawSent /\ MsgParsed /\ raw # << >>
  BY Grasped DEF IInv, Processing
<1>2. Types' /\ Whole(Left)' /\ AsSent'
  BY <1>1, TypeFacts, Quiet
<1>3. RawSent'
  BY <1>1 DEF RawSent, Processing, SentAs, device
<1>4. MsgParsed'
  BY <1>1 DEF MsgParsed, Processing
<1>5. ReplyBuilt'
  BY <1>1, TypeFacts DEF ReplyBuilt
<1> QED
  BY <1>2, <1>3, <1>4, <1>5 DEF IInv, ReadSoFar

LEMMA HandlesInv == IInv /\ (Refuses \/ Accepts \/ HandlerFails \/ Handles) => IInv'
<1> SUFFICES ASSUME IInv, Refuses \/ Accepts \/ HandlerFails \/ Handles PROVE IInv'
  OBVIOUS
<1>1. Types /\ MsgParsed /\ tenant \in Tenants
  BY TypeFacts DEF IInv
<1>2. CASE Refuses
  BY <1>1, <1>2, MovesOn DEF Refuses
<1>3. CASE Accepts
  <2>1. reply' = NoAnswer
    BY <1>1, <1>3 DEF Accepts, Types, TypeOK
  <2> QED
    BY <1>1, <1>3, <2>1, MovesOn DEF Accepts, Accepted
<1>4. CASE HandlerFails
  <2>1. pc = "handling" /\ msg.ok /\ msg.code \in Handled
    BY <1>1, <1>4 DEF HandlerFails, MsgParsed
  <2>2. msg.code \in {"17", "23", "63"}
    <3>1. Needed(msg.code) # {}
      BY <1>4 DEF HandlerFails, LacksNeeded
    <3> QED
      BY <3>1 DEF Needed
  <2>3. ErrorAnswer(msg, tenant) # NoAnswer
    <3>1. msg.code \in DOMAIN ResponseOf
      BY <2>2 DEF ResponseOf
    <3> QED
      BY <3>1, ErrorAnswers
  <2> QED
    BY <1>1, <1>4, <2>1, <2>3, MovesOn DEF HandlerFails
<1>5. CASE Handles
  <2>1. pc = "handling" /\ msg.ok /\ msg.code \in Handled
    BY <1>1, <1>5 DEF Handles, MsgParsed
  <2>2. HandlerAnswer(msg, tenant) # NoAnswer
    BY <2>1, HandlerAnswers
  <2> QED
    BY <1>1, <1>5, <2>1, <2>2, MovesOn DEF Handles
<1> QED
  BY <1>2, <1>3, <1>4, <1>5

(* A message taken is the first of those left, and the next one sent.       *)
LEMMA FirstTaken ==
  ASSUME Types, AsSent, NEW U \in Seq(Units), NEW c \in Seq(Seq(Units)),
         Complete(Left) = << U >> \o c
  PROVE  /\ taken + 1 <= Len(sent) /\ U = SentAs(taken + 1)
         /\ Len(c) <= Len(sent) - (taken + 1)
         /\ ~gone => Len(c) = Len(sent) - (taken + 1)
         /\ \A j \in DOMAIN c : c[j] = SentAs((taken + 1) + j)
<1> DEFINE d == Complete(Left)
<1>1. taken \in Nat /\ Len(sent) \in Nat
  BY TypeFacts
<1>2. /\ Len(c) \in Nat /\ DOMAIN c = 1..Len(c) /\ Len(d) = Len(c) + 1 /\ DOMAIN d = 1..Len(d)
      /\ d[1] = U /\ \A j \in 1..Len(c) : d[j + 1] = c[j]
  <2> DEFINE z == << U >> \o c
  <2>1. /\ Len(c) \in Nat /\ DOMAIN c = 1..Len(c) /\ Len(z) = Len(c) + 1 /\ DOMAIN z = 1..Len(z)
        /\ z[1] = U /\ \A j \in 1..Len(c) : z[j + 1] = c[j]
    OBVIOUS
  <2>2. d = z
    OBVIOUS
  <2> HIDE DEF z, d
  <2> QED
    BY <2>1, <2>2
<1>3. /\ Len(d) <= Len(sent) - taken
      /\ ~gone => Len(d) = Len(sent) - taken
      /\ \A j \in DOMAIN d : d[j] = SentAs(taken + j)
  BY DEF AsSent
<1> HIDE DEF d
<1>4. U = SentAs(taken + 1)
  <2>1. 1 \in DOMAIN d
    BY <1>2
  <2> QED
    BY <1>2, <1>3, <2>1
<1>5. \A j \in DOMAIN c : c[j] = SentAs((taken + 1) + j)
  <2>1. TAKE j \in DOMAIN c
  <2>2. j \in 1..Len(c) /\ j + 1 \in DOMAIN d /\ d[j + 1] = c[j]
    BY <1>2
  <2>4. taken + (j + 1) = (taken + 1) + j
    BY <1>1, <1>2, <2>2
  <2>3. d[j + 1] = SentAs(taken + (j + 1))
    BY <1>3, <2>2
  <2> QED
    BY <2>2, <2>3, <2>4
<1> QED
  BY <1>1, <1>2, <1>3, <1>4, <1>5

LEMMA ReadsUnitInv == IInv /\ ReadsUnit => IInv'
<1> SUFFICES ASSUME IInv, ReadsUnit PROVE IInv'
  OBVIOUS
<1> DEFINE u == Head(wire)
           us == Append(buf, u)
           w == Tail(wire)
           U == Unframed(us)
<1>1. /\ pc = "reading" /\ wire # << >> /\ wire' = w
      /\ UNCHANGED <<terminator, checks, sent, gone, tenant, delim, msg, reply>>
  BY DEF ReadsUnit, device
<1>2. Types /\ Whole(Left) /\ AsSent /\ ReadSoFar /\ RawSent /\ reply = NoAnswer
  BY <1>1 DEF IInv, Types, TypeOK
<1>3. /\ w \in Seq(Units) /\ us \in Seq(Units) /\ Whole(w) /\ Left = us \o w
      /\ Stray(u) => Complete(w) = Complete(Left)
      /\ ~Stray(u) /\ EndsInDelimiter(us) =>
           /\ U \in Seq(Units)
           /\ U = << >> => Complete(w) = Complete(Left)
           /\ U # << >> => Complete(Left) = << U >> \o Complete(w)
      /\ ~Stray(u) /\ ~EndsInDelimiter(us) => Read(us, delim)
  BY <1>1, <1>2, UnitRead
<1>4. CASE Stray(u)
  <2>1. UNCHANGED <<pc, buf, raw, taken>> /\ buf = << >>
    BY <1>4 DEF ReadsUnit, Stray
  <2>2. Left' = w
    BY <1>1, <1>3, <2>1 DEF Left
  <2>3. Whole(Left)'
    BY <1>1, <1>3, <2>2 DEF Whole
  <2>4. AsSent'
    BY <1>1, <1>2, <1>3, <1>4, <2>1, <2>2 DEF AsSent, SentAs
  <2>5. Types'
    BY <1>1, <1>2, <1>3, <2>1 DEF Types, TypeOK
  <2>6. (ReadSoFar /\ RawSent)'
    BY <1>1, <1>2, <2>1 DEF ReadSoFar, RawSent, SentAs
  <2> QED
    BY <1>1, <2>1, <2>3, <2>4, <2>5, <2>6 DEF IInv, MsgParsed, ReplyBuilt, Processing
<1>5. CASE ~Stray(u) /\ EndsInDelimiter(us)
  <2>1. /\ raw' = U /\ buf' = << >> /\ pc' = "parsing"
        /\ taken' = IF U = << >> THEN taken ELSE taken + 1
    BY <1>5 DEF ReadsUnit
  <2>2. Left' = w
    BY <1>1, <1>3, <2>1 DEF Left
  <2>3. Whole(Left)'
    BY <1>1, <1>3, <2>2 DEF Whole
  <2>4. taken \in Nat /\ Len(sent) \in Nat /\ taken <= Len(sent)
    BY <1>2, TypeFacts
  <2> HIDE DEF u, us, w, U
  <2>5. ASSUME U = << >> PROVE AsSent' /\ RawSent' /\ taken' \in 0..Len(sent')
    <3>1. taken' = taken /\ Complete(w) = Complete(Left)
      BY <1>3, <1>5, <2>1, <2>5
    <3>2. AsSent'
      BY <1>1, <1>2, <2>2, <3>1 DEF AsSent, SentAs
    <3>3. taken' \in 0..Len(sent')
      BY <1>1, <2>4, <3>1
    <3>4. RawSent'
      BY <2>1, <2>5 DEF RawSent, Processing
    <3> QED
      BY <3>2, <3>3, <3>4
  <2>6. ASSUME U # << >> PROVE AsSent' /\ RawSent' /\ taken' \in 0..Len(sent')
    <3>1. taken' = taken + 1 /\ Complete(Left) = << U >> \o Complete(w) /\ U \in Seq(Units)
      BY <1>3, <1>5, <2>1, <2>6
    <3>2. Complete(w) \in Seq(Seq(Units))
      BY <1>3, SplitType
    <3> DEFINE c == Complete(w)
    <3>3. /\ taken + 1 <= Len(sent) /\ U = SentAs(taken + 1)
          /\ Len(c) <= Len(sent) - (taken + 1)
          /\ ~gone => Len(c) = Len(sent) - (taken + 1)
          /\ \A j \in DOMAIN c : c[j] = SentAs((taken + 1) + j)
      BY <1>2, <3>1, <3>2, FirstTaken
    <3> HIDE DEF c
    <3>4. AsSent'
      <4>1. Complete(Left)' = c
        BY <2>2 DEF c
      <4> QED
        BY <1>1, <3>1, <3>3, <4>1 DEF AsSent, SentAs
    <3>5. RawSent'
      <4>1. taken' >= 1
        BY <2>4, <3>1
      <4> QED
        BY <1>1, <2>1, <3>1, <3>3, <4>1 DEF RawSent, SentAs, Processing
    <3>6. taken' \in 0..Len(sent')
      BY <1>1, <2>4, <3>1, <3>3
    <3> QED
      BY <3>4, <3>5, <3>6
  <2>7. AsSent' /\ RawSent' /\ taken' \in 0..Len(sent')
    BY <2>5, <2>6
  <2>8. Types'
    <3>1. << >> \in Seq(Units)
      OBVIOUS
    <3> QED
      BY <1>1, <1>2, <1>3, <1>5, <2>1, <2>7, <3>1 DEF Types, TypeOK
  <2> QED
    BY <1>1, <1>2, <2>1, <2>3, <2>7, <2>8
    DEF IInv, ReadSoFar, MsgParsed, ReplyBuilt, Processing
<1>6. CASE ~Stray(u) /\ ~EndsInDelimiter(us)
  <2>1. /\ buf' = us /\ pc' \in {"closed", "reading"} /\ UNCHANGED <<raw, taken>>
    BY <1>6 DEF ReadsUnit
  <2> HIDE DEF u, us, w, U
  <2>2. Left' = Left
    BY <1>1, <1>3, <2>1 DEF Left
  <2>3. Whole(Left)'
    BY <1>1, <1>2, <2>2 DEF Whole
  <2>4. AsSent'
    BY <1>1, <1>2, <2>1, <2>2 DEF AsSent, SentAs
  <2>5. Types'
    BY <1>1, <1>2, <1>3, <2>1 DEF Types, TypeOK
  <2>6. raw' = << >>
    BY <1>1, <1>2, <2>1 DEF RawSent, Processing
  <2>7. ReadSoFar'
    BY <1>1, <1>3, <1>6, <2>1 DEF ReadSoFar
  <2> QED
    BY <1>1, <2>1, <2>3, <2>4, <2>5, <2>6, <2>7
    DEF IInv, RawSent, MsgParsed, ReplyBuilt, Processing
<1> QED
  BY <1>4, <1>5, <1>6

LEMMA NextInv == IInv /\ [Next]_vars => IInv'
<1> SUFFICES ASSUME IInv, [Next]_vars PROVE IInv'
  OBVIOUS
<1>1. CASE DeviceSends
  BY <1>1, DeviceSendsInv
<1>2. CASE DeviceBreaksOff
  BY <1>2, DeviceBreaksOffInv
<1>3. CASE DeviceLeaves
  BY <1>3, DeviceLeavesInv
<1>4. CASE StartsRead
  BY <1>4, StartsReadInv
<1>5. CASE ReadsUnit
  BY <1>5, ReadsUnitInv
<1>6. CASE EndOfStream \/ ReadFails
  BY <1>6, ClosesInv
<1>7. CASE Parses
  BY <1>7, ParsesInv
<1>8. CASE Drops \/ Sends \/ SendFails
  BY <1>8, DoneInv
<1>9. CASE Refuses \/ Accepts \/ HandlerFails \/ Handles
  BY <1>9, HandlesInv
<1>10. CASE UNCHANGED vars
  BY <1>10
  DEF vars, IInv, Types, TypeOK, Left, Whole, AsSent, ReadSoFar, RawSent, SentAs, MsgParsed, ReplyBuilt
<1> QED
  BY <1>1, <1>2, <1>3, <1>4, <1>5, <1>6, <1>7, <1>8, <1>9, <1>10 DEF Next, Gateway

(* Invariant: what is left of the stream are the device's messages in order, *)
(* and what is processed is one of them, parsed, with its own answer.        *)
THEOREM Invariant == Spec => []IInv
<1>1. Init => IInv
  BY InitInv
<1>2. IInv /\ [Next]_vars => IInv'
  BY NextInv
<1> QED
  BY <1>1, <1>2, PTL DEF Spec

(* TypeOK: the variables of a connection keep their types, nothing is       *)
(* collected outside of readMessage, and there is an answer exactly while   *)
(* one is to be written.                                                    *)
THEOREM TypeCorrect == Spec => []TypeOK
<1>1. IInv => TypeOK
  BY DEF IInv, Types
<1> QED
  BY <1>1, Invariant, PTL

(* HandlerSeesRequest: a message is parsed, with its sequence number, if    *)
(* and only if the tenant checks no checksums or it has a right one, unless *)
(* a field with the letters AZ hides it; and a handler works on the code    *)
(* and the fields that the device sent, and on its sequence number or none, *)
(* unless a field has the letters AY in it; whatever the line ends, the     *)
(* checksums and the tenants the connection has moved between.              *)
THEOREM HandlersSeeRequests == Spec => []HandlerSeesRequest
<1>1. ASSUME IInv PROVE HandledAsSent
  <2>1. SUFFICES ASSUME pc = "handling"
                 PROVE  LET s == sent[taken]
                            r == s.request
                        IN \/ CutOff(r)
                           \/ /\ msg.code = r.code
                              /\ msg.fields = [i \in DOMAIN r.fields |-> r.fields[i].ch]
                              /\ msg.fixed = {f[1] : f \in FixedFields(r.code)}
                              /\ (msg.seq # "" => ~s.garbled /\ msg.seq = r.seq)
    BY DEF HandledAsSent
  <2>2. msg.ok /\ pc \in Processing \ {"parsing"}
    BY <1>1, <2>1 DEF IInv, MsgParsed, Processing
  <2>3. Understood(msg, sent[taken].request, sent[taken].garbled, raw)
    BY <1>1, <2>2, Grasped
  <2> QED
    BY <2>3 DEF Understood, ReadsFields
<1>2. ASSUME IInv PROVE ParsedIfRight
  <2>1. SUFFICES ASSUME pc = "parsed", raw # << >>, ~Hides(sent[taken].request)
                 PROVE  LET s == sent[taken]
                        IN /\ msg.ok <=> (Detects[tenant] => checks /\ ~s.garbled)
                           /\ msg.ok /\ Detects[tenant] => msg.seq = s.request.seq
    BY DEF ParsedIfRight
  <2> DEFINE r == sent[taken].request
             g == sent[taken].garbled
  <2>2. Types /\ RawSent /\ msg = Parse(raw, tenant)
    BY <1>2, <2>1 DEF IInv, MsgParsed
  <2>3. taken >= 1 /\ raw = Encode(r, checks, g)
    BY <2>1, <2>2 DEF RawSent, SentAs, EncodedAs
  <2>4. r \in Requests /\ g \in BOOLEAN /\ checks \in BOOLEAN /\ tenant \in Tenants
    BY <2>2, <2>3, TypeFacts
  <2>5. ~Hides(r)
    BY <2>1
  <2> HIDE DEF r, g
  <2>6. /\ msg.ok <=> (Detects[tenant] => checks /\ ~g)
        /\ msg.ok /\ Detects[tenant] => msg.seq = r.seq
    BY <2>2, <2>3, <2>4, <2>5, ParseSucceeds
  <2> QED
    BY <2>6 DEF r, g
<1>3. IInv => HandlerSeesRequest
  BY <1>1, <1>2 DEF HandlerSeesRequest
<1> QED
  BY <1>3, Invariant, PTL

---------------------------------------------------------------------------
(* The connection keeps the promise of MessageStream, step by step. *)

Pending == Complete(Left)
Current == IF pc \in Processing THEN raw ELSE << >>
Open == pc # "closed"
View == <<Pending, Current, out, Open>>

(* How the steps of a message stream look from here. *)
LEMMA ViewIs ==
  /\ UNCHANGED View => UNCHANGED Stream!vars
  /\ /\ Len(Pending') = Len(Pending) + 1
     /\ SubSeq(Pending', 1, Len(Pending)) = Pending
     /\ Pending'[Len(Pending')] \in Encodings
     /\ UNCHANGED <<Current, out, Open>>
     => Stream!Ask
  /\ /\ Open = TRUE /\ Current = << >> /\ Pending # << >>
     /\ Current' = Head(Pending) /\ Pending' = Tail(Pending)
     /\ UNCHANGED <<out, Open>>
     => Stream!Take
  /\ /\ Open = TRUE /\ Current # << >> /\ Current' = << >>
     /\ Len(out') = Len(out) + 1 /\ SubSeq(out', 1, Len(out)) = out
     /\ Fits(Current, out'[Len(out')])
     /\ UNCHANGED <<Pending, Open>>
     => Stream!Reply
  /\ /\ Current # << >> /\ Current' = << >>
     /\ UNCHANGED <<Pending, out, Open>>
     => Stream!LetGo
  /\ /\ Open = TRUE /\ Open' = FALSE /\ Current' = << >>
     /\ UNCHANGED <<Pending, out>>
     => Stream!Close
  BY DEF View, Pending, Current, Open, Left, Processing, NoUnits, Stream!vars, Stream!Ask,
     Stream!Take, Stream!Reply, Stream!LetGo, Stream!Close

(* The answers written are a sequence. *)
Written == \E S : out \in Seq(S)

LEMMA AlwaysWritten == Spec => []Written
<1>1. Init => Written
  <2>1. << >> \in Seq({})
    OBVIOUS
  <2> QED
    BY <2>1 DEF Init, Written
<1>2. Written /\ [Next]_vars => Written'
  <2> SUFFICES ASSUME Written, [Next]_vars PROVE Written'
    OBVIOUS
  <2>1. PICK S : out \in Seq(S)
    BY DEF Written
  <2>2. out' = out \/ out' = Append(out, reply)
    BY DEF Next, Gateway, vars, device, DeviceSends, DeviceBreaksOff, DeviceLeaves, StartsRead,
       ReadsUnit, EndOfStream, ReadFails, Parses, Drops, Refuses, Accepts, HandlerFails, Handles,
       Sends, SendFails
  <2>3. CASE out' = out
    BY <2>1, <2>3 DEF Written
  <2>4. CASE out' = Append(out, reply)
    <3>1. out \in Seq(S \cup {reply})
      BY <2>1
    <3>2. Append(out, reply) \in Seq(S \cup {reply})
      BY <3>1
    <3> QED
      BY <2>4, <3>2 DEF Written
  <2> QED
    BY <2>2, <2>3, <2>4
<1> QED
  BY <1>1, <1>2, PTL DEF Spec

(* The answer to a message fits it. *)
LEMMA AnswerFits ==
  ASSUME IInv, pc \in {"replying", "erring"}
  PROVE  raw # << >> /\ Fits(raw, reply)
<1>1. Types /\ MsgParsed /\ ReplyBuilt /\ reply # NoAnswer /\ msg.ok
  BY DEF IInv, Types, TypeOK, MsgParsed
<1> DEFINE r == sent[taken].request
           g == sent[taken].garbled
<1>2. /\ raw # << >> /\ r \in Requests /\ g \in BOOLEAN /\ checks \in BOOLEAN
      /\ raw = Encode(r, checks, g) /\ Understood(msg, r, g, raw)
  BY <1>1, TypeFacts, Grasped DEF Processing
<1> HIDE DEF r, g
<1>3. raw[1].ch = r.code
  <2>1. raw[1] = CodeUnit(r.code)
    BY <1>2, EncodeClean
  <2> QED
    BY <2>1 DEF CodeUnit, Unit
<1>4. msg.code = r.code /\ Heeds(raw, msg.seq)
  BY <1>2 DEF Understood
<1>5. /\ reply.code = (IF msg.code = "96" THEN "96" ELSE ResponseOf[msg.code])
      /\ reply.seq \in {msg.seq, "", "0"}
  <2>1. CASE pc = "replying"
    <3>1. PICK t \in Tenants : reply = HandlerAnswer(msg, t)
      BY <1>1, <2>1 DEF ReplyBuilt
    <3>2. msg.code \in Handled
      BY <1>1, <2>1 DEF MsgParsed
    <3> QED
      BY <3>1, <3>2, HandlerAnswers
  <2>2. CASE pc = "erring"
    <3>1. PICK t \in Tenants : reply = ErrorAnswer(msg, t)
      BY <1>1, <2>2 DEF ReplyBuilt
    <3>2. msg.code # "96" /\ reply.code = ResponseOf[msg.code] /\ reply.seq = msg.seq
      BY <1>1, <3>1, ErrorAnswers
    <3> QED
      BY <3>2
  <2> QED
    BY <2>1, <2>2
<1>6. reply.code = (IF raw[1].ch = "96" THEN "96" ELSE ResponseOf[raw[1].ch])
  BY <1>3, <1>4, <1>5
<1>7. \/ reply.seq \in {"", "0"} \/ (\E u \in Range(raw) : u.mark = "seq" /\ u.ch = reply.seq)
      \/ Misleads(raw)
  <2>1. CASE reply.seq = msg.seq
    BY <1>4, <2>1 DEF Heeds
  <2>2. CASE reply.seq # msg.seq
    BY <1>5, <2>2
  <2> QED
    BY <2>1, <2>2
<1> QED
  BY <1>2, <1>6, <1>7 DEF Fits

(* The device adds a message to the stream, or none. *)
LEMMA Asks ==
  ASSUME Types, Whole(Left), checks \in BOOLEAN, NEW r \in Requests, NEW g \in BOOLEAN,
         Complete(Left') = Append(Complete(Left), Encode(r, checks, g)),
         UNCHANGED <<pc, raw, out>>
  PROVE  Stream!Ask
<1> DEFINE e == Encode(r, checks, g)
           c == Complete(Left)
<1>1. c \in Seq(Seq(Units)) /\ e \in Seq(Units)
  BY TypeFacts, SplitType, EncodeClean
<1>2. e \in Encodings
  BY DEF Encodings
<1>3. Pending = c /\ Pending' = Append(c, e)
  BY DEF Pending
<1>4. UNCHANGED <<Current, out, Open>>
  BY DEF Current, Open
<1> HIDE DEF e, c
<1> DEFINE d == Append(c, e)
<1>5. Len(d) = Len(c) + 1 /\ SubSeq(d, 1, Len(c)) = c /\ d[Len(d)] = e
  BY <1>1
<1> HIDE DEF d
<1>6. /\ Len(Pending') = Len(Pending) + 1 /\ SubSeq(Pending', 1, Len(Pending)) = Pending
      /\ Pending'[Len(Pending')] \in Encodings
  BY <1>2, <1>3, <1>5 DEF d
<1> QED
  BY <1>4, <1>6, ViewIs

LEMMA DeviceAsks ==
  ASSUME IInv, DeviceSends \/ DeviceBreaksOff \/ DeviceLeaves
  PROVE  Stream!Ask \/ UNCHANGED Stream!vars
<1>1. Types /\ Whole(Left) /\ checks \in BOOLEAN /\ terminator \in LineEnds
  BY TypeFacts DEF IInv
<1>2. CASE DeviceSends
  <2>1. PICK r \in Requests, g \in BOOLEAN :
          ~gone /\ wire' = wire \o Encode(r, checks, g) \o Bytes(terminator)
    BY <1>2 DEF DeviceSends
  <2>2. UNCHANGED <<pc, buf, raw, out>>
    BY <1>2 DEF DeviceSends
  <2> DEFINE e == Encode(r, checks, g)
             x == e \o Bytes(terminator)
  <2>3. x \in Seq(Units) /\ Complete(Left \o x) = Append(Complete(Left), e) /\ e \in Seq(Units)
    BY <1>1, <2>1, Sent
  <2>4. wire' = wire \o x
    <3>1. wire \in Seq(Units) /\ Bytes(terminator) \in Seq(Units)
      BY <1>1, BytesFacts DEF Types
    <3> HIDE DEF e
    <3> QED
      BY <2>1, <2>3, <3>1, ConcatAssociative DEF e
  <2> HIDE DEF x
  <2>5. Left' = Left \o x
    BY <1>1, <2>2, <2>3, <2>4, LeftLonger
  <2> QED
    BY <1>1, <2>2, <2>3, <2>5, Asks
<1>3. CASE DeviceBreaksOff
  <2>1. PICK r \in Requests :
          \E k \in {1, Len(Encode(r, checks, FALSE) \o Bytes(terminator)) - 1} :
            ~gone /\ wire' = wire \o SubSeq(Encode(r, checks, FALSE) \o Bytes(terminator), 1, k)
    BY <1>3 DEF DeviceBreaksOff
  <2>2. UNCHANGED <<pc, buf, raw, out>>
    BY <1>3 DEF DeviceBreaksOff
  <2> DEFINE e == Encode(r, checks, FALSE)
             x == e \o Bytes(terminator)
  <2>3. PICK k \in {1, Len(x) - 1} : ~gone /\ wire' = wire \o SubSeq(x, 1, k)
    BY <2>1
  <2> DEFINE y == SubSeq(x, 1, k)
  <2>4. /\ y \in Seq(Units)
        /\ Complete(Left \o y) = Complete(Left) \/ Complete(Left \o y) = Append(Complete(Left), e)
    BY <1>1, <2>3, BrokenOff
  <2> HIDE DEF y
  <2>5. Left' = Left \o y
    BY <1>1, <2>2, <2>3, <2>4, LeftLonger DEF y
  <2>6. CASE Complete(Left \o y) = Complete(Left)
    <3>1. UNCHANGED View
      BY <2>2, <2>5, <2>6 DEF View, Pending, Current, Open
    <3> QED
      BY <3>1, ViewIs
  <2>7. CASE Complete(Left \o y) = Append(Complete(Left), e)
    BY <1>1, <2>2, <2>5, <2>7, Asks
  <2> QED
    BY <2>4, <2>6, <2>7
<1>4. CASE DeviceLeaves
  <2>1. UNCHANGED View
    BY <1>4 DEF DeviceLeaves, View, Pending, Current, Open, Left
  <2> QED
    BY <2>1, ViewIs
<1> QED
  BY <1>2, <1>3, <1>4

LEMMA ReadsImplement ==
  ASSUME IInv, ReadsUnit
  PROVE  Stream!Take \/ Stream!Close \/ UNCHANGED Stream!vars
<1> DEFINE u == Head(wire)
           us == Append(buf, u)
           w == Tail(wire)
           U == Unframed(us)
<1>1. /\ pc = "reading" /\ wire # << >> /\ wire' = w /\ out' = out
  BY DEF ReadsUnit
<1>2. Types /\ Whole(Left) /\ ReadSoFar /\ RawSent
  BY DEF IInv
<1>3. /\ w \in Seq(Units) /\ us \in Seq(Units) /\ Left = us \o w
      /\ Stray(u) => Complete(w) = Complete(Left)
      /\ ~Stray(u) /\ EndsInDelimiter(us) =>
           /\ U \in Seq(Units)
           /\ U = << >> => Complete(w) = Complete(Left)
           /\ U # << >> => Complete(Left) = << U >> \o Complete(w)
  BY <1>1, <1>2, UnitRead
<1>4. Current = << >> /\ Open = TRUE
  BY <1>1 DEF Current, Open, Processing
<1>5. CASE Stray(u)
  <2>1. UNCHANGED <<pc, buf, raw, taken>> /\ buf = << >>
    BY <1>5 DEF ReadsUnit, Stray
  <2>2. Left' = w
    BY <1>1, <1>3, <2>1 DEF Left
  <2>3. UNCHANGED View
    BY <1>1, <1>3, <1>5, <2>1, <2>2 DEF View, Pending, Current, Open
  <2> QED
    BY <2>3, ViewIs
<1>6. CASE ~Stray(u) /\ EndsInDelimiter(us)
  <2>1. raw' = U /\ buf' = << >> /\ pc' = "parsing"
    BY <1>6 DEF ReadsUnit
  <2>2. Left' = w
    BY <1>1, <1>3, <2>1 DEF Left
  <2>3. Current' = U /\ Open' = TRUE
    BY <2>1 DEF Current, Open, Processing
  <2>4. Complete(w) \in Seq(Seq(Units))
    BY <1>3, SplitType
  <2>5. Pending' = Complete(w)
    BY <2>2 DEF Pending
  <2> HIDE DEF u, us, w, U
  <2>6. CASE U = << >>
    <3>1. UNCHANGED View
      BY <1>1, <1>3, <1>4, <1>6, <2>3, <2>5, <2>6 DEF View, Pending
    <3> QED
      BY <3>1, ViewIs
  <2>7. CASE U # << >>
    <3> DEFINE c == Complete(w)
    <3>1. Pending = << U >> \o c /\ U \in Seq(Units)
      BY <1>3, <1>6, <2>7 DEF Pending
    <3>2. << U >> \o c # << >> /\ Head(<< U >> \o c) = U /\ Tail(<< U >> \o c) = c
      <4> HIDE DEF c
      <4>1. c \in Seq(Seq(Units))
        BY <2>4 DEF c
      <4> QED
        BY <3>1, <4>1
    <3>3. Pending # << >> /\ Head(Pending) = U /\ Tail(Pending) = c
      BY <3>1, <3>2
    <3> QED
      BY <1>1, <1>4, <2>3, <2>5, <3>3, ViewIs
  <2> QED
    BY <2>6, <2>7
<1>7. CASE ~Stray(u) /\ ~EndsInDelimiter(us)
  <2>1. /\ buf' = us /\ pc' \in {"closed", "reading"} /\ raw' = raw
    BY <1>7 DEF ReadsUnit
  <2>2. Left' = Left
    BY <1>1, <1>3, <2>1 DEF Left
  <2>3. Pending' = Pending /\ Current' = << >>
    BY <2>1, <2>2 DEF Pending, Current, Processing
  <2>4. CASE pc' = "closed"
    <3>1. Open' = FALSE
      BY <2>4 DEF Open
    <3> QED
      BY <1>1, <1>4, <2>3, <3>1, ViewIs
  <2>5. CASE pc' = "reading"
    <3>1. Open' = TRUE
      BY <2>5 DEF Open
    <3>2. UNCHANGED View
      BY <1>1, <1>4, <2>3, <3>1 DEF View
    <3> QED
      BY <3>2, ViewIs
  <2> QED
    BY <2>1, <2>4, <2>5
<1> QED
  BY <1>5, <1>6, <1>7

LEMMA GatewayImplements ==
  ASSUME IInv, Written,
         \/ StartsRead \/ EndOfStream \/ ReadFails \/ Parses \/ Drops \/ Refuses \/ Accepts
         \/ HandlerFails \/ Handles \/ Sends \/ SendFails
  PROVE  Stream!Reply \/ Stream!LetGo \/ Stream!Close \/ UNCHANGED Stream!vars
<1>1. buf' = buf /\ wire' = wire
  <2>1. pc = "poll" => buf = << >>
    BY DEF IInv, Types, TypeOK
  <2> QED
    BY <2>1 DEF StartsRead, EndOfStream, ReadFails, Parses, Drops, Refuses, Accepts,
       HandlerFails, Handles, Sends, SendFails
<1>2. Pending' = Pending
  BY <1>1 DEF Pending, Left
<1>3. CASE StartsRead
  <2>1. UNCHANGED View
    BY <1>2, <1>3 DEF StartsRead, View, Current, Open, Processing
  <2> QED
    BY <2>1, ViewIs
<1>4. CASE EndOfStream \/ ReadFails
  <2>1. Open = TRUE /\ Open' = FALSE /\ Current' = << >> /\ out' = out
    BY <1>4 DEF EndOfStream, ReadFails, Open, Current, Processing
  <2> QED
    BY <1>2, <2>1, ViewIs
<1>5. CASE Parses \/ Refuses \/ Accepts \/ HandlerFails \/ Handles
  <2>1. /\ pc \in Processing /\ pc' \in Processing /\ pc # "closed" /\ pc' # "closed"
        /\ raw' = raw /\ out' = out
    BY <1>5 DEF Parses, Refuses, Accepts, HandlerFails, Handles, Processing
  <2>2. UNCHANGED View
    BY <1>2, <2>1 DEF View, Current, Open
  <2> QED
    BY <2>2, ViewIs
<1>6. CASE Drops
  <2>1. /\ pc = "parsed" /\ pc' = "poll" /\ raw' = << >> /\ out' = out
    BY <1>6 DEF Drops, Forget
  <2>2. Current = raw /\ Current' = << >> /\ UNCHANGED <<out, Open>>
    BY <2>1 DEF Current, Open, Processing
  <2>3. CASE raw = << >>
    <3>1. UNCHANGED View
      BY <1>2, <2>2, <2>3 DEF View
    <3> QED
      BY <3>1, ViewIs
  <2>4. CASE raw # << >>
    BY <1>2, <2>2, <2>4, ViewIs
  <2> QED
    BY <2>3, <2>4
<1>7. CASE Sends
  <2>1. /\ pc \in {"replying", "erring"} /\ pc' = "poll" /\ raw' = << >> /\ out' = Append(out, reply)
    BY <1>7 DEF Sends, Forget
  <2>2. raw # << >> /\ Fits(raw, reply)
    BY <2>1, AnswerFits
  <2>3. Current = raw /\ Current' = << >> /\ Open = TRUE /\ Open' = TRUE
    BY <2>1 DEF Current, Open, Processing
  <2>4. Len(out') = Len(out) + 1 /\ SubSeq(out', 1, Len(out)) = out /\ out'[Len(out')] = reply
    <3>1. PICK S : out \in Seq(S)
      BY DEF Written
    <3>2. out \in Seq(S \cup {reply})
      BY <3>1
    <3> DEFINE R == S \cup {reply}
    <3> HIDE DEF R
    <3>3. out \in Seq(R) /\ reply \in R
      BY <3>2 DEF R
    <3> QED
      BY <2>1, <3>3
  <2>5. Fits(Current, out'[Len(out')])
    BY <2>2, <2>3, <2>4
  <2> QED
    BY <1>2, <2>2, <2>3, <2>4, <2>5, ViewIs
<1>8. CASE SendFails
  <2>1. /\ pc \in {"replying", "erring"} /\ raw' = << >> /\ out' = out
        /\ pc' = IF pc = "replying" THEN "closed" ELSE "poll"
    BY <1>8 DEF SendFails, Forget
  <2>2. raw # << >>
    BY <2>1, AnswerFits
  <2>3. Current = raw /\ Current' = << >> /\ Open = TRUE
    BY <2>1 DEF Current, Open, Processing
  <2>4. CASE pc = "replying"
    <3>1. Open' = FALSE
      BY <2>1, <2>4 DEF Open
    <3> QED
      BY <1>2, <2>1, <2>3, <3>1, ViewIs
  <2>5. CASE pc = "erring"
    <3>1. Open' = TRUE
      BY <2>1, <2>5 DEF Open
    <3> QED
      BY <1>2, <2>1, <2>2, <2>3, <3>1, ViewIs
  <2> QED
    BY <2>1, <2>4, <2>5
<1> QED
  BY <1>3, <1>4, <1>5, <1>6, <1>7, <1>8

(* ImplementsMessageStream: a message is taken once and in order, never two *)
(* as one or a part of one, and answered at most once, with its own         *)
(* response code and sequence number.                                       *)
THEOREM KeepsTheStream == Spec => ImplementsMessageStream
<1>1. Init => Stream!Init
  <2> SUFFICES ASSUME Init PROVE Stream!Init
    OBVIOUS
  <2>1. buf = << >> /\ wire = << >> /\ pc = "poll" /\ out = << >>
    BY DEF Init
  <2>2. << >> \o << >> = << >>
    OBVIOUS
  <2>3. Complete(buf \o wire) = << >>
    BY <2>1, <2>2, SplitEmpty DEF Complete, NothingRead
  <2> QED
    BY <2>1, <2>3 DEF Stream!Init, NoUnits
<1>2. IInv /\ Written /\ [Next]_vars => [Stream!Next]_(Stream!vars)
  <2> SUFFICES ASSUME IInv, Written, [Next]_vars PROVE Stream!Next \/ UNCHANGED Stream!vars
    OBVIOUS
  <2>1. CASE DeviceSends \/ DeviceBreaksOff \/ DeviceLeaves
    BY <2>1, DeviceAsks DEF Stream!Next
  <2>2. CASE ReadsUnit
    BY <2>2, ReadsImplement DEF Stream!Next
  <2>3. CASE \/ StartsRead \/ EndOfStream \/ ReadFails \/ Parses \/ Drops \/ Refuses \/ Accepts
             \/ HandlerFails \/ Handles \/ Sends \/ SendFails
    BY <2>3, GatewayImplements DEF Stream!Next
  <2>4. CASE UNCHANGED vars
    <3>1. UNCHANGED View
      BY <2>4 DEF vars, View, Pending, Current, Open, Left
    <3> QED
      BY <3>1, ViewIs
  <2> QED
    BY <2>1, <2>2, <2>3, <2>4 DEF Next, Gateway
<1> QED
  BY <1>1, <1>2, Invariant, AlwaysWritten, PTL DEF Spec, ImplementsMessageStream, Stream!Spec
=============================================================================
