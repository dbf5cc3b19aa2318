--------------------------- MODULE Inquiry_proofs ---------------------------
(***************************************************************************)
(* What 23 and 63 tell of an account, and what the renewal on the way does  *)
(* to a user record, for any patrons, cards, settings, user records and     *)
(* accounts, and for any calendar that is long enough.                     *)
(***************************************************************************)
EXTENDS Inquiry, PatronContext_proofs

---------------------------------------------------------------------------
(* The calendar: the months follow one another. *)

LEMMA MonthLength == ASSUME NEW m PROVE Length(m) \in {28, 29, 30, 31}
BY DEF Length

(* f gives the first days of the months up to n. *)
IsCalendar(f, n) == f = [m \in 0..n |-> IF m = 0 THEN 0 ELSE f[m - 1] + Length(m - 1)]

LEMMA CalendarExists ==
  ASSUME NEW n \in Nat
  PROVE  \E f : IsCalendar(f, n)
<1> DEFINE D == {k \in 0..n : ~ \E f : IsCalendar(f, k)}
<1> SUFFICES ASSUME D # {} PROVE FALSE
  OBVIOUS
<1>1. PICK k \in D : \A i \in D : k <= i
  <2>1. D \subseteq Nat /\ IsFiniteSet(D)
    <3>1. IsFiniteSet(0..n)
      BY FS_Interval
    <3> QED
      BY <3>1, FS_Subset
  <2> HIDE DEF D
  <2> QED
    BY <2>1, LeastNumber
<1>2. k \in 0..n /\ ~ \E f : IsCalendar(f, k)
  OBVIOUS
<1>3. CASE k = 0
  <2>1. IsCalendar([m \in 0..0 |-> 0], 0)
    BY DEF IsCalendar
  <2> QED
    BY <1>2, <1>3, <2>1
<1>4. CASE k # 0
  <2>1. k - 1 \in 0..n /\ ~(k <= k - 1)
    BY <1>2, <1>4
  <2>2. k - 1 \notin D
    BY <1>1, <2>1
  <2>3. PICK f : IsCalendar(f, k - 1)
    BY <2>1, <2>2
  <2> DEFINE g == [m \in 0..k |-> IF m = k THEN f[k - 1] + Length(k - 1) ELSE f[m]]
  <2>4. ASSUME NEW m \in 0..k
        PROVE  g[m] = IF m = 0 THEN 0 ELSE g[m - 1] + Length(m - 1)
    <3>1. CASE m = k
      <4>1. m - 1 \in 0..k /\ m - 1 # k /\ m # 0
        BY <1>2, <1>4, <3>1
      <4> QED
        BY <3>1, <4>1
    <3>2. CASE m # k
      <4>1. m \in 0..(k - 1)
        BY <1>2, <3>2
      <4>2. f[m] = IF m = 0 THEN 0 ELSE f[m - 1] + Length(m - 1)
        BY <2>3, <4>1 DEF IsCalendar
      <4>3. m # 0 => m - 1 \in 0..k /\ m - 1 # k
        BY <1>2, <4>1
      <4> QED
        BY <3>2, <4>2, <4>3
    <3> QED
      BY <3>1, <3>2
  <2>5. g = [m \in 0..k |-> g[m]]
    OBVIOUS
  <2> HIDE DEF g
  <2>6. IsCalendar(g, k)
    BY <2>4, <2>5 DEF IsCalendar
  <2> QED
    BY <1>2, <2>6
<1> QED
  BY <1>3, <1>4

LEMMA Months ==
  ASSUME NEW m \in 0..LastMonth
  PROVE  FirstOf[m] = IF m = 0 THEN 0 ELSE FirstOf[m - 1] + Length(m - 1)
<1>1. LastMonth \in Nat
  BY CalendarAssumption
<1>2. FirstOf = CHOOSE f : IsCalendar(f, LastMonth)
  BY DEF FirstOf, IsCalendar
<1>3. IsCalendar(FirstOf, LastMonth)
  BY <1>1, <1>2, CalendarExists
<1> QED
  BY <1>3 DEF IsCalendar

LEMMA MonthsFollow ==
  ASSUME NEW m \in 0..LastMonth
  PROVE  /\ FirstOf[m] \in Nat
         /\ \A k \in 0..m : /\ FirstOf[k] \in Nat
                            /\ FirstOf[k] + 28 * (m - k) <= FirstOf[m]
                            /\ FirstOf[m] <= FirstOf[k] + 31 * (m - k)
<1> DEFINE Spans(k, j) == /\ FirstOf[k] \in Nat
                          /\ FirstOf[k] + 28 * (j - k) <= FirstOf[j]
                          /\ FirstOf[j] <= FirstOf[k] + 31 * (j - k)
           Good(j) == FirstOf[j] \in Nat /\ \A k \in 0..j : Spans(k, j)
           D == {j \in 0..LastMonth : ~Good(j)}
<1> SUFFICES ASSUME D # {} PROVE FALSE
  OBVIOUS
<1>0. LastMonth \in Nat
  BY CalendarAssumption
<1>1. PICK j \in D : \A i \in D : j <= i
  <2>1. D \subseteq Nat /\ IsFiniteSet(D)
    <3>1. IsFiniteSet(0..LastMonth)
      BY <1>0, FS_Interval
    <3> QED
      BY <1>0, <3>1, FS_Subset
  <2> HIDE DEF D
  <2> QED
    BY <2>1, LeastNumber
<1>2. j \in 0..LastMonth /\ ~Good(j)
  OBVIOUS
<1>3. CASE j = 0
  <2>1. FirstOf[0] = 0
    BY <1>2, <1>3, Months
  <2> QED
    BY <1>2, <1>3, <2>1
<1>4. CASE j # 0
  <2>1. j - 1 \in 0..LastMonth /\ ~(j <= j - 1)
    BY <1>0, <1>2, <1>4
  <2>2. Good(j - 1)
    BY <1>1, <2>1
  <2>3. FirstOf[j] = FirstOf[j - 1] + Length(j - 1) /\ Length(j - 1) \in {28, 29, 30, 31}
    BY <1>2, <1>4, Months, MonthLength
  <2>4. FirstOf[j] \in Nat /\ FirstOf[j - 1] + 28 <= FirstOf[j] /\ FirstOf[j] <= FirstOf[j - 1] + 31
    BY <2>2, <2>3
  <2>5. ASSUME NEW k \in 0..j PROVE Spans(k, j)
    <3>1. CASE k = j
      BY <1>0, <1>2, <2>4, <3>1
    <3>2. CASE k # j
      <4>1. k \in 0..(j - 1) /\ k \in Nat /\ j \in Nat
        BY <1>0, <1>2, <3>2
      <4>2. Spans(k, j - 1) /\ FirstOf[j - 1] \in Nat
        BY <2>2, <4>1
      <4>3. 28 * (j - k) = 28 * ((j - 1) - k) + 28 /\ 31 * (j - k) = 31 * ((j - 1) - k) + 31
        BY <4>1
      <4> QED
        BY <2>4, <4>1, <4>2, <4>3
    <3> QED
      BY <3>1, <3>2
  <2> QED
    BY <1>2, <2>4, <2>5
<1> QED
  BY <1>3, <1>4

(* Adding months leads to a day, the more months, the later, and as far as  *)
(* so many months are long.                                                 *)
LEMMA MonthsAdd ==
  ASSUME NEW d \in Nat, \E m \in 0..(LastMonth - 1) : FirstOf[m] <= d /\ d < FirstOf[m + 1],
         NEW n \in Nat, MonthOf(d) + n <= LastMonth
  PROVE  /\ AddMonths(d, n) \in Nat
         /\ d + 28 * n <= AddMonths(d, n) /\ AddMonths(d, n) <= d + 31 * n
         /\ \A k \in 0..n : AddMonths(d, k) <= AddMonths(d, n)
<1> DEFINE m == MonthOf(d)
<1>1. m \in 0..(LastMonth - 1) /\ FirstOf[m] <= d
  BY DEF MonthOf
<1> HIDE DEF m
<1>2. LastMonth \in Nat /\ m + n <= LastMonth
  BY CalendarAssumption DEF m
<1>3. m + n \in 0..LastMonth /\ m \in 0..(m + n) /\ (m + n) - m = n
  BY <1>1, <1>2
<1>4. /\ FirstOf[m + n] \in Nat /\ FirstOf[m] \in Nat
      /\ FirstOf[m] + 28 * n <= FirstOf[m + n] /\ FirstOf[m + n] <= FirstOf[m] + 31 * n
  BY <1>3, MonthsFollow
<1>5. AddMonths(d, n) = FirstOf[m + n] + (d - FirstOf[m])
  BY DEF AddMonths, m
<1>6. ASSUME NEW k \in 0..n PROVE AddMonths(d, k) <= AddMonths(d, n)
  <2>1. m + k \in 0..(m + n) /\ (m + n) - (m + k) = n - k /\ n - k \in Nat
    BY <1>1, <1>2
  <2>2. FirstOf[m + k] \in Nat /\ FirstOf[m + k] + 28 * (n - k) <= FirstOf[m + n]
    BY <1>3, <2>1, MonthsFollow
  <2>3. AddMonths(d, k) = FirstOf[m + k] + (d - FirstOf[m])
    BY DEF AddMonths, m
  <2> QED
    BY <1>1, <1>4, <1>5, <2>1, <2>2, <2>3
<1>7. AddMonths(d, n) \in Nat /\ d + 28 * n <= AddMonths(d, n) /\ AddMonths(d, n) <= d + 31 * n
  BY <1>1, <1>4, <1>5
<1> QED
  BY <1>6, <1>7

(* How far a duration reaches from a day, whatever its unit. *)
LEMMA DurationReaches ==
  ASSUME NEW dur \in Duration, NEW d \in Nat, InCalendar(d, dur)
  PROVE  /\ AddDuration(d, dur) \in Nat /\ AtLeast(dur) \in Nat /\ AtMost(dur) \in Nat
         /\ d + AtLeast(dur) <= AddDuration(d, dur) /\ AddDuration(d, dur) <= d + AtMost(dur)
         /\ InMonths(dur) \in Nat
         /\ dur.period # "D" => AddDuration(d, dur) = AddMonths(d, InMonths(dur))
<1>1. dur.value \in Nat /\ dur.period \in {"D", "M", "Y"}
  BY DEF Duration
<1>2. InMonths(dur) \in Nat
  BY <1>1 DEF InMonths
<1>3. CASE dur.period = "D"
  <2>1. AddDuration(d, dur) = d + dur.value
    BY <1>1, <1>3 DEF AddDuration, Shifted
  <2> QED
    BY <1>1, <1>2, <1>3, <2>1 DEF AtLeast, AtMost
<1>4. CASE dur.period # "D"
  <2> DEFINE n == InMonths(dur)
  <2>1. AddDuration(d, dur) = AddMonths(d, 1 * n)
    BY <1>4 DEF AddDuration, Shifted
  <2>2. AtLeast(dur) = 28 * n /\ AtMost(dur) = 31 * n
    BY <1>4 DEF AtLeast, AtMost
  <2>3. /\ \E m \in 0..(LastMonth - 1) : FirstOf[m] <= d /\ d < FirstOf[m + 1]
        /\ MonthOf(d) + n <= LastMonth
    BY <1>4 DEF InCalendar
  <2> HIDE DEF n
  <2>4. n \in Nat
    BY <1>2 DEF n
  <2>5. 1 * n = n
    BY <2>4
  <2>6. /\ AddMonths(d, n) \in Nat
        /\ d + 28 * n <= AddMonths(d, n) /\ AddMonths(d, n) <= d + 31 * n
    BY <2>3, <2>4, MonthsAdd
  <2>7. AddDuration(d, dur) = AddMonths(d, n)
    BY <2>1, <2>5
  <2> QED
    BY <1>2, <2>2, <2>4, <2>6, <2>7 DEF n
<1> QED
  BY <1>3, <1>4

(* An extension that is at least as long as the window reaches as far, in   *)
(* whatever units the two are given.                                        *)
LEMMA ExtensionCovers ==
  ASSUME NEW cfg \in RenewalConfig, NEW d \in Nat,
         InCalendar(d, cfg.extendFor), InCalendar(d, cfg.renewWithin)
  PROVE  /\ CalculateNewExpiration(d, cfg) \in Nat
         /\ ExtendsBeyondWindow(cfg) =>
              \A e \in Nat : IsWithinPeriod(e, d, cfg.renewWithin)
                               => e <= CalculateNewExpiration(d, cfg)
<1> DEFINE x == cfg.extendFor
           w == cfg.renewWithin
<1>1. x \in Duration /\ w \in Duration
  BY DEF RenewalConfig
<1>2. ExtendsBeyondWindow(cfg) =>
        \/ w.period # "D" /\ x.period # "D" /\ InMonths(w) <= InMonths(x)
        \/ AtMost(w) <= AtLeast(x)
  BY DEF ExtendsBeyondWindow
<1>3. CalculateNewExpiration(d, cfg) = AddDuration(d, x)
  BY DEF CalculateNewExpiration
<1>4. \A e : IsWithinPeriod(e, d, w) <=> e <= AddDuration(d, w)
  BY DEF IsWithinPeriod
<1>5. InCalendar(d, x) /\ InCalendar(d, w)
  OBVIOUS
<1> HIDE DEF x, w
<1>6. /\ AddDuration(d, x) \in Nat /\ AddDuration(d, w) \in Nat
      /\ AtLeast(x) \in Nat /\ AtMost(w) \in Nat
      /\ d + AtLeast(x) <= AddDuration(d, x) /\ AddDuration(d, w) <= d + AtMost(w)
      /\ InMonths(x) \in Nat /\ InMonths(w) \in Nat
      /\ x.period # "D" => AddDuration(d, x) = AddMonths(d, InMonths(x))
      /\ w.period # "D" => AddDuration(d, w) = AddMonths(d, InMonths(w))
  BY <1>1, <1>5, DurationReaches
<1>7. ASSUME ExtendsBeyondWindow(cfg) PROVE AddDuration(d, w) <= AddDuration(d, x)
  <2>1. CASE AtMost(w) <= AtLeast(x)
    BY <1>6, <2>1
  <2>2. CASE w.period # "D" /\ x.period # "D" /\ InMonths(w) <= InMonths(x)
    <3>1. InMonths(w) \in 0..InMonths(x)
      BY <1>6, <2>2
    <3>2. /\ \E m \in 0..(LastMonth - 1) : FirstOf[m] <= d /\ d < FirstOf[m + 1]
          /\ MonthOf(d) + InMonths(x) <= LastMonth
      BY <1>5, <2>2 DEF InCalendar
    <3>3. AddMonths(d, InMonths(w)) <= AddMonths(d, InMonths(x))
      BY <1>6, <3>1, <3>2, MonthsAdd
    <3> QED
      BY <1>6, <2>2, <3>3
  <2> QED
    BY <1>2, <1>7, <2>1, <2>2
<1>8. ASSUME ExtendsBeyondWindow(cfg), NEW e \in Nat, IsWithinPeriod(e, d, w)
      PROVE  e <= AddDuration(d, x)
  BY <1>4, <1>6, <1>7, <1>8
<1> QED
  BY <1>3, <1>6, <1>8 DEF w

---------------------------------------------------------------------------
(* The invariant. *)

Answer ==
  [valid : BOOLEAN, denied : SUBSET Privileges, failed : SUBSET Reads,
   counted : [Columns -> SUBSET Things], listed : [Columns -> SUBSET Things]]

Handler ==
  [pc : InFlight \cup {"idle"}, req : Requests \cup {NoRequest},
   patronID : Patrons \cup {NoPatron}, seen : UserRecord \cup {NoUser},
   fetched : UserRecord \cup {NoUser}, until : Nat \cup {NoDate}, answer : Answer]

(* The device is about to be told of a valid patron, or it will be.         *)
Valid(h) == h.pc = "answer" /\ h.answer.valid
Telling(h) == h.pc \in Reads \/ Valid(h)

(* What a message in progress relies on: s is the session, and w says that  *)
(* the account was active at some moment since the message came.            *)
Asking(h, s, w) ==
  /\ h.pc # "idle" => h.req \in Requests
  /\ h.pc \in {"get", "put", "refetch", "verify"} \/ Telling(h) =>
       h.patronID \in Patrons /\ h.patronID = GetUserByBarcode(s, h.req.aa)
  /\ h.pc \in {"get", "put"} =>
       /\ h.seen \in UserRecord /\ h.seen.expires \in Nat /\ h.until \in Nat
       /\ ExtendsBeyondWindow(s.settings.renewal) => h.seen.expires <= h.until
       /\ h.seen.active => w
       /\ s.settings.renewal.enabled
  /\ h.pc = "put" => h.fetched \in UserRecord
  /\ h.pc = "verify" \/ Telling(h) => w
  /\ Telling(h) => Verifies(s, h.patronID, h.req.aa, h.req.secret)
  /\ h.pc \in Reads => h.pc \in ReadsOf(h.req.code)

(* Nobody's account is active unnoticed while a message asks about it.      *)
Watched(h, s, u, w) ==
  LET p == GetUserByBarcode(s, h.req.aa) IN h.pc # "idle" /\ p \in Patrons /\ u[p].active => w

(* The calls that a message has behind it, and those that were answered.    *)
Place(code) ==
  IF code = "23" THEN [manual |-> 1, automated |-> 2, fees |-> 3, answer |-> 4]
  ELSE [holds |-> 1, loans |-> 2, items |-> 3, fees |-> 4, unavailable |-> 5,
        manual |-> 6, automated |-> 7, answer |-> 8]
Behind(h) ==
  {r \in ReadsOf(h.req.code) : Place(h.req.code)[r] < Place(h.req.code)[h.pc]}
Got(h) == Behind(h) \ h.answer.failed

(* The call after which a list is complete.                                 *)
ListedBy(col) == IF ReadFor[col] = "loans" THEN "items" ELSE ReadFor[col]

(* AnswerReportsAccount while it is being made: what is counted and listed  *)
(* so far is true of the account a, in which m says what has changed; and   *)
(* so are the denials.  What was counted on the shelf is there or has left. *)
CountTold(col, h, s, a, m) ==
  IF ReadFor[col] \in Got(h) THEN Counts(col, h, s, a, m) ELSE h.answer.counted[col] = {}
ListTold(col, h, s, a, m) ==
  IF ListedBy(col) \notin Behind(h) THEN h.answer.listed[col] = {}
  ELSE h.req.code = "63" /\ (ReadFor[col] = "loans" => "items" \notin h.answer.failed) =>
         Lists(col, h, s, a, m)
ShelfTold(h, a, m) ==
  /\ \A x \in h.answer.counted["holds"] : a[x].kind = "ready" \/ m[x] = "left"
  /\ \A x \in h.answer.counted["holds"] \cap h.answer.counted["unavailable"] : m[x] = "left"
Tells(h, s, a, m) ==
  /\ h.answer.valid /\ h.answer.failed \subseteq Behind(h)
  /\ \A col \in Columns : CountTold(col, h, s, a, m)
  /\ \A col \in Columns : ListTold(col, h, s, a, m)
  /\ h.answer.counted["overdue"] \subseteq h.answer.counted["charged"]
  /\ Denies(Got(h), h, a, m)
  /\ ShelfTold(h, a, m)

Changes == [Things -> {"same", "changed", "left"}]

Typed ==
  /\ user \in [Patrons -> UserRecord] /\ account \in [Patrons -> Accounts]
  /\ today \in FirstDay..LastDay /\ session \in [Conns -> Session]
  /\ handler \in [Conns -> Handler] /\ held \in [Conns -> BOOLEAN]
  /\ moved \in [Conns -> Changes]

InquiryInv ==
  /\ Typed
  /\ \A c \in Conns : Asking(handler[c], session[c], held[c])
  /\ \A c \in Conns : Watched(handler[c], session[c], user, held[c])
  /\ \A c \in Conns : Telling(handler[c]) =>
       Tells(handler[c], session[c], account[handler[c].patronID], moved[c])

---------------------------------------------------------------------------
(* The order of the calls. *)

Advances(h, g) ==
  /\ h.req.code \in {"23", "63"} /\ h.pc \in ReadsOf(h.req.code)
  /\ g.req = h.req /\ g.pc = After(h)

LEMMA CallsAdvance ==
  ASSUME NEW h, NEW g, Advances(h, g)
  PROVE  /\ g.pc \in ReadsOf(h.req.code) \cup {"answer"}
         /\ h.pc \notin Behind(h) /\ Behind(g) = Behind(h) \cup {h.pc}
<1>1. CASE h.req.code = "23"
  <2>1. h.pc \in {"manual", "automated", "fees"}
    BY <1>1 DEF Advances, ReadsOf
  <2> QED
    BY <1>1, <2>1 DEF Advances, ReadsOf, After, Order23, Behind, Place
<1>2. CASE h.req.code = "63"
  <2>1. h.pc \in {"holds", "loans", "items", "fees", "unavailable", "manual", "automated"}
    BY <1>2 DEF Advances, ReadsOf, Reads
  <2> QED
    BY <1>2, <2>1 DEF Advances, ReadsOf, Reads, After, Order63, Behind, Place
<1> QED
  BY <1>1, <1>2 DEF Advances

LEMMA CallsBegin ==
  ASSUME NEW h, NEW g, h.req.code \in {"23", "63"}, h.pc = "verify",
         g.req = h.req, g.pc = After(h)
  PROVE  g.pc \in ReadsOf(h.req.code) /\ Behind(g) = {}
<1>1. CASE h.req.code = "23"
  BY <1>1 DEF ReadsOf, After, Order23, Behind, Place
<1>2. CASE h.req.code = "63"
  BY <1>2 DEF ReadsOf, Reads, After, Order63, Behind, Place
<1> QED
  BY <1>1, <1>2

LEMMA CallsEnd ==
  ASSUME NEW h, h.req.code \in {"23", "63"}, h.pc = "answer"
  PROVE  Behind(h) = ReadsOf(h.req.code)
<1>1. CASE h.req.code = "23"
  BY <1>1 DEF ReadsOf, Behind, Place
<1>2. CASE h.req.code = "63"
  BY <1>2 DEF ReadsOf, Reads, Behind, Place
<1> QED
  BY <1>1, <1>2

(* The shelf is read before the holds that wait, the loans before their     *)
(* items.                                                                   *)
LEMMA CallsInOrder ==
  ASSUME NEW h, h.req.code \in {"23", "63"}
  PROVE  /\ h.pc = "holds" /\ h.pc \in ReadsOf(h.req.code) => "unavailable" \notin Behind(h)
         /\ h.pc = "loans" /\ h.pc \in ReadsOf(h.req.code) => "items" \notin Behind(h)
<1>1. CASE h.req.code = "23"
  BY <1>1 DEF ReadsOf, Behind
<1>2. CASE h.req.code = "63"
  BY <1>2 DEF ReadsOf, Reads, Behind, Place
<1> QED
  BY <1>1, <1>2

---------------------------------------------------------------------------
(* What has been told stays true when the account changes. *)
LEMMA TellsThroughChanges ==
  ASSUME NEW h \in Handler, NEW s, NEW a, NEW b, NEW m, NEW n, Tells(h, s, a, m),
         \A x \in Things : n[x] = Becomes(m[x], a[x], b[x])
  PROVE  Tells(h, s, b, n)
<1>1. ASSUME NEW x \in Things
      PROVE  /\ n[x] = "same" => m[x] = "same" /\ b[x] = a[x]
             /\ m[x] = "left" => n[x] = "left"
             /\ a[x].kind = "ready" => b[x].kind = "ready" \/ n[x] = "left"
  BY DEF Becomes
<1>2. \A col \in Columns : h.answer.counted[col] \subseteq Things
  BY DEF Handler, Answer
<1>3. ASSUME NEW col \in Columns, Counts(col, h, s, a, m)
      PROVE  Counts(col, h, s, b, n)
  <2>1. \A K : \A x \in Things : n[x] = "same" => (x \in Of(a, K) <=> x \in Of(b, K))
    BY <1>1 DEF Of
  <2> QED
    BY <1>1, <1>2, <1>3, <2>1 DEF Counts
<1>4. ASSUME NEW col \in Columns, Lists(col, h, s, a, m)
      PROVE  Lists(col, h, s, b, n)
  BY <1>1, <1>2, <1>4 DEF Lists
<1>5. \A col \in Columns : CountTold(col, h, s, b, n)
  BY <1>3 DEF Tells, CountTold
<1>6. \A col \in Columns : ListTold(col, h, s, b, n)
  BY <1>4 DEF Tells, ListTold
<1>7. Denies(Got(h), h, b, n)
  BY <1>1 DEF Tells, Denies
<1>8. ShelfTold(h, b, n)
  <2>1. "holds" \in Columns
    BY DEF Columns
  <2> QED
    BY <1>1, <1>2, <2>1 DEF Tells, ShelfTold
<1> QED
  BY <1>5, <1>6, <1>7, <1>8 DEF Tells

(* g is h after a call, answered or failed. *)
Follows(h, g) ==
  /\ h \in Handler /\ g \in Handler /\ Advances(h, g)
  /\ h.answer.valid /\ g.answer.valid
  /\ g.answer.failed \in {h.answer.failed, h.answer.failed \cup {h.pc}}

LEMMA CallMade ==
  ASSUME NEW h, NEW g, Follows(h, g), h.answer.failed \subseteq Behind(h)
  PROVE  /\ h.pc \notin Behind(h) /\ Behind(g) = Behind(h) \cup {h.pc}
         /\ g.answer.failed \subseteq Behind(g)
         /\ Got(g) = IF h.pc \in g.answer.failed THEN Got(h) ELSE Got(h) \cup {h.pc}
         /\ g.answer.failed = h.answer.failed => h.pc \in Got(g) /\ h.pc \notin g.answer.failed
<1>1. h.pc \notin Behind(h) /\ Behind(g) = Behind(h) \cup {h.pc}
  BY CallsAdvance DEF Follows
<1> QED
  BY <1>1 DEF Follows, Advances, Got

(* What a call does not concern stays told. *)
LEMMA CountStays ==
  ASSUME NEW h, NEW g, NEW s, NEW a, NEW m, Follows(h, g), Tells(h, s, a, m),
         NEW col \in Columns, ReadFor[col] # h.pc \/ h.pc \in g.answer.failed,
         g.answer.counted[col] = h.answer.counted[col],
         col = "overdue" => g.answer.counted["charged"] = h.answer.counted["charged"]
  PROVE  CountTold(col, g, s, a, m)
<1>1. ReadFor[col] \in Got(g) <=> ReadFor[col] \in Got(h)
  BY CallMade DEF Tells
<1>2. g.req = h.req
  BY DEF Follows, Advances
<1>3. Counts(col, h, s, a, m) => Counts(col, g, s, a, m)
  BY <1>2 DEF Counts
<1> QED
  BY <1>1, <1>3 DEF Tells, CountTold

LEMMA ListStays ==
  ASSUME NEW h, NEW g, NEW s, NEW a, NEW m, Follows(h, g), Tells(h, s, a, m),
         NEW col \in Columns, ListedBy(col) # h.pc,
         g.answer.listed[col] = h.answer.listed[col],
         g.answer.counted[col] = h.answer.counted[col] \/ ListedBy(col) \notin Behind(h)
  PROVE  ListTold(col, g, s, a, m)
<1>1. /\ ListedBy(col) \in Behind(g) <=> ListedBy(col) \in Behind(h)
      /\ ReadFor[col] = "loans" => ("items" \in g.answer.failed <=> "items" \in h.answer.failed)
  <2>1. ReadFor[col] = "loans" => h.pc # "items"
    BY DEF ListedBy
  <2> QED
    BY <2>1, CallMade DEF Tells, Follows, Advances
<1>2. g.req = h.req
  BY DEF Follows, Advances
<1>3. g.answer.counted[col] = h.answer.counted[col] =>
        (Lists(col, h, s, a, m) => Lists(col, g, s, a, m))
  BY <1>2 DEF Lists
<1> QED
  BY <1>1, <1>2, <1>3 DEF Tells, ListTold

LEMMA DenialsStay ==
  ASSUME NEW h, NEW g, NEW s, NEW a, NEW m, Follows(h, g), Tells(h, s, a, m),
         h.pc \notin {"manual", "automated"} \/ h.pc \in g.answer.failed,
         g.answer.denied = h.answer.denied
  PROVE  Denies(Got(g), g, a, m)
<1>1. {"manual", "automated"} \cap Got(g) = {"manual", "automated"} \cap Got(h)
  BY CallMade DEF Tells
<1> QED
  BY <1>1 DEF Tells, Denies

LEMMA ShelfStays ==
  ASSUME NEW h, NEW g, NEW s, NEW a, NEW m, Tells(h, s, a, m),
         g.answer.counted["holds"] = h.answer.counted["holds"],
         g.answer.counted["unavailable"] = h.answer.counted["unavailable"]
  PROVE  ShelfTold(g, a, m)
BY DEF Tells, ShelfTold

---------------------------------------------------------------------------
(* The calls, one by one. *)

(* A call that fails leaves its counts, lists and denials empty. *)
LEMMA FailureTells ==
  ASSUME NEW h, NEW g, NEW s, NEW a, NEW m, Follows(h, g), Tells(h, s, a, m), h.pc # "items",
         g.answer = [h.answer EXCEPT !.failed = @ \cup {h.pc}]
  PROVE  Tells(g, s, a, m)
<1>1. /\ g.answer.counted = h.answer.counted /\ g.answer.listed = h.answer.listed
      /\ g.answer.denied = h.answer.denied /\ h.pc \in g.answer.failed
  BY DEF Follows, Advances, Handler, Answer
<1>2. \A col \in Columns : CountTold(col, g, s, a, m)
  BY <1>1, CountStays
<1>3. ASSUME NEW col \in Columns PROVE ListTold(col, g, s, a, m)
  <2>1. CASE ListedBy(col) # h.pc
    BY <1>1, <2>1, ListStays
  <2>2. CASE ListedBy(col) = h.pc
    <3>1. ReadFor[col] = h.pc /\ h.pc \notin Behind(h)
      BY <2>2, CallMade DEF ListedBy, Tells
    <3>2. h.answer.counted[col] = {} /\ h.answer.listed[col] = {}
      BY <2>2, <3>1 DEF Tells, CountTold, ListTold, Got
    <3> QED
      BY <1>1, <3>2 DEF ListTold, Lists
  <2> QED
    BY <2>1, <2>2
<1>4. Denies(Got(g), g, a, m) /\ ShelfTold(g, a, m)
  BY <1>1, DenialsStay, ShelfStays
<1>5. g.answer.failed \subseteq Behind(g) /\ g.answer.valid
  BY CallMade DEF Tells, Follows, Advances
<1> QED
  BY <1>1, <1>2, <1>3, <1>4, <1>5 DEF Tells

(* Only these counts and these lists are new in g.                          *)
Tallies(h, g, counts, lists) ==
  /\ \A col \in Columns \ counts : g.answer.counted[col] = h.answer.counted[col]
  /\ \A col \in Columns \ lists : g.answer.listed[col] = h.answer.listed[col]

(* What a page of a set is. *)
LEMMA PagesOf ==
  ASSUME NEW s, NEW S, NEW got \in Pages(s, S)
  PROVE  got \subseteq S /\ (got = S \/ Cardinality(got) = s.settings.patronItemsLimit)
BY DEF Pages

(* The holds on the shelf, then those that wait. *)
LEMMA HoldsTell ==
  ASSUME NEW h, NEW g, NEW s, NEW a, NEW m, Follows(h, g), Tells(h, s, a, m),
         NEW col \in {"holds", "unavailable"}, h.pc = col,
         Tallies(h, g, {col}, {col}),
         g.answer.denied = h.answer.denied, g.answer.failed = h.answer.failed,
         g.answer.counted[col] \subseteq Of(a, KindsOf[col]),
         \/ g.answer.counted[col] = Of(a, KindsOf[col])
         \/ /\ col \in h.req.asks
            /\ Cardinality(g.answer.counted[col]) = s.settings.patronItemsLimit,
         g.answer.listed[col] =
           IF col \in h.req.asks /\ (col = "unavailable" => s.settings.listsUnavailable)
             THEN {x \in g.answer.counted[col] :
                     a[x].label = "barcode" \/ (col = "unavailable" /\ a[x].label = "instance")}
             ELSE {}
  PROVE  Tells(g, s, a, m)
<1>1. /\ col \in Columns /\ ReadFor[col] = col /\ ListedBy(col) = col
      /\ \A o \in Columns \ {col} : ReadFor[o] # col /\ ListedBy(o) # col
  BY DEF Columns, ReadFor, ListedBy
<1> DEFINE got == g.answer.counted[col]
<1>2. /\ \A o \in Columns \ {col} : /\ g.answer.counted[o] = h.answer.counted[o]
                                    /\ g.answer.listed[o] = h.answer.listed[o]
      /\ g.answer.failed = h.answer.failed /\ g.answer.denied = h.answer.denied
  BY DEF Tallies
<1>3. h.pc \in Got(g) /\ g.answer.failed \subseteq Behind(g) /\ g.answer.valid /\ g.req = h.req
  BY <1>2, CallMade DEF Tells, Follows, Advances
<1>4. ASSUME NEW o \in Columns PROVE CountTold(o, g, s, a, m)
  <2>1. CASE o = col
    <3>1. Counts(col, g, s, a, m)
      BY <1>2, <1>3 DEF Counts
    <3> QED
      BY <1>1, <1>3, <2>1, <3>1 DEF CountTold
  <2>2. CASE o # col
    <3>1. "charged" \in Columns \ {col}
      BY DEF Columns
    <3>2. ReadFor[o] # h.pc /\ g.answer.counted[o] = h.answer.counted[o]
          /\ g.answer.counted["charged"] = h.answer.counted["charged"]
      BY <1>1, <1>2, <2>2, <3>1
    <3> QED
      BY <3>2, CountStays
  <2> QED
    BY <2>1, <2>2
<1>5. ASSUME NEW o \in Columns PROVE ListTold(o, g, s, a, m)
  <2>1. CASE o = col
    <3>1. Lists(col, g, s, a, m)
      BY <1>2, <1>3 DEF Lists
    <3> QED
      BY <1>1, <1>3, <2>1, <3>1 DEF ListTold, Got
  <2>2. CASE o # col
    <3>1. ListedBy(o) # h.pc /\ g.answer.counted[o] = h.answer.counted[o]
          /\ g.answer.listed[o] = h.answer.listed[o]
      BY <1>1, <1>2, <2>2
    <3> QED
      BY <3>1, ListStays
  <2> QED
    BY <2>1, <2>2
<1>6. ShelfTold(g, a, m)
  <2>1. CASE col = "holds"
    <3>1. "unavailable" \notin Behind(h) /\ "unavailable" \in Columns \ {col}
      BY <2>1, CallsInOrder DEF Follows, Advances, Columns
    <3>2. g.answer.counted["unavailable"] = {}
      BY <1>2, <3>1 DEF Tells, CountTold, Got, ReadFor
    <3>3. \A x \in got : a[x].kind = "ready"
      BY <2>1 DEF Of, KindsOf
    <3> QED
      BY <1>2, <2>1, <3>2, <3>3 DEF ShelfTold
  <2>2. CASE col = "unavailable"
    <3>1. g.answer.counted["holds"] = h.answer.counted["holds"]
      BY <1>2, <2>2 DEF Columns
    <3>2. \A x \in got : a[x].kind = "waiting"
      BY <2>2 DEF Of, KindsOf
    <3> QED
      BY <1>2, <2>2, <3>1, <3>2 DEF Tells, ShelfTold
  <2> QED
    BY <2>1, <2>2
<1>7. Denies(Got(g), g, a, m)
  BY <1>2, DenialsStay
<1>8. g.answer.counted["overdue"] \subseteq g.answer.counted["charged"]
  BY <1>2 DEF Tells, Columns
<1> QED
  BY <1>3, <1>4, <1>5, <1>6, <1>7, <1>8 DEF Tells

(* The loans, and those that are due among them. *)
LEMMA LoansTell ==
  ASSUME NEW h, NEW g, NEW s, NEW a, NEW m, Follows(h, g), Tells(h, s, a, m), h.pc = "loans",
         Tallies(h, g, {"charged", "overdue"}, {}),
         g.answer.denied = h.answer.denied, g.answer.failed = h.answer.failed,
         g.answer.counted["charged"] \in Pages(s, Of(a, {"lent", "overdue"})),
         g.answer.counted["overdue"] = g.answer.counted["charged"] \cap Of(a, {"overdue"})
  PROVE  Tells(g, s, a, m)
<1>1. \A o \in Columns \ {"charged", "overdue"} : ReadFor[o] # "loans"
  BY DEF Columns, ReadFor
<1> DEFINE got == g.answer.counted["charged"]
<1>2. /\ \A o \in Columns \ {"charged", "overdue"} : g.answer.counted[o] = h.answer.counted[o]
      /\ \A o \in Columns : g.answer.listed[o] = h.answer.listed[o]
      /\ g.answer.failed = h.answer.failed /\ g.answer.denied = h.answer.denied
      /\ g.answer.counted["overdue"] = got \cap Of(a, {"overdue"})
  BY DEF Tallies
<1>3. h.pc \in Got(g) /\ g.answer.failed \subseteq Behind(g) /\ g.answer.valid
  BY <1>2, CallMade DEF Tells, Follows, Advances
<1>4. /\ got \subseteq Of(a, {"lent", "overdue"})
      /\ \/ got = Of(a, {"lent", "overdue"})
         \/ Cardinality(got) = s.settings.patronItemsLimit
  BY PagesOf
<1>5. ASSUME NEW o \in Columns PROVE CountTold(o, g, s, a, m)
  <2>1. CASE o = "charged"
    <3>1. Counts("charged", g, s, a, m)
      BY <1>2, <1>4 DEF Counts, KindsOf
    <3> QED
      BY <1>3, <2>1, <3>1 DEF CountTold, ReadFor
  <2>2. CASE o = "overdue"
    <3>1. Counts("overdue", g, s, a, m)
      BY <1>2, <1>4 DEF Counts, KindsOf, Of
    <3> QED
      BY <1>3, <2>2, <3>1 DEF CountTold, ReadFor
  <2>3. CASE o \in Columns \ {"charged", "overdue"}
    BY <1>1, <1>2, <2>3, CountStays
  <2> QED
    BY <2>1, <2>2, <2>3
<1>6. ASSUME NEW o \in Columns PROVE ListTold(o, g, s, a, m)
  <2>1. ListedBy(o) # "loans"
    BY DEF ListedBy
  <2>2. o \in {"charged", "overdue"} => ListedBy(o) \notin Behind(h)
    BY CallsInOrder DEF ListedBy, ReadFor, Follows, Advances
  <2> QED
    BY <1>2, <2>1, <2>2, ListStays
<1>7. ShelfTold(g, a, m)
  BY <1>2, ShelfStays DEF Columns
<1>8. Denies(Got(g), g, a, m)
  BY <1>2, DenialsStay
<1> QED
  BY <1>2, <1>3, <1>5, <1>6, <1>7, <1>8 DEF Tells

(* The items of the loans to list. *)
LEMMA ItemsTell ==
  ASSUME NEW h, NEW g, NEW s, NEW a, NEW m, Follows(h, g), Tells(h, s, a, m), h.pc = "items",
         Tallies(h, g, {}, {"charged", "overdue"}),
         g.answer.denied = h.answer.denied,
         "items" \notin g.answer.failed =>
           \A col \in {"charged", "overdue"} :
             g.answer.listed[col] =
               IF col \in h.req.asks THEN {x \in h.answer.counted[col] : a[x].label = "barcode"} ELSE {}
  PROVE  Tells(g, s, a, m)
<1>1. /\ \A o \in Columns \ {"charged", "overdue"} : g.answer.listed[o] = h.answer.listed[o]
      /\ \A o \in Columns : g.answer.counted[o] = h.answer.counted[o]
      /\ g.answer.denied = h.answer.denied
  BY DEF Tallies
<1>2. /\ g.answer.failed \subseteq Behind(g) /\ g.answer.valid /\ g.req = h.req
      /\ "items" \in Behind(g)
  <2>1. g.answer.failed \subseteq Behind(g) /\ Behind(g) = Behind(h) \cup {h.pc}
    BY CallMade DEF Tells
  <2>2. g.answer.valid /\ g.req = h.req
    BY DEF Follows, Advances
  <2> QED
    BY <2>1, <2>2
<1>3. g.answer.counted["overdue"] = h.answer.counted["overdue"]
      /\ g.answer.counted["charged"] = h.answer.counted["charged"]
      /\ g.answer.counted["holds"] = h.answer.counted["holds"]
      /\ g.answer.counted["unavailable"] = h.answer.counted["unavailable"]
  BY <1>1 DEF Columns
<1>4. \A o \in Columns : CountTold(o, g, s, a, m)
  <2>1. \A o \in Columns : ReadFor[o] # "items"
    BY DEF Columns, ReadFor
  <2> QED
    BY <1>1, <1>3, <2>1, CountStays
<1>5. h.answer.counted["overdue"] \subseteq h.answer.counted["charged"]
  BY DEF Tells
<1>6. ASSUME NEW o \in Columns PROVE ListTold(o, g, s, a, m)
  <2>1. CASE o = "charged"
    <3>1. "items" \notin g.answer.failed => Lists("charged", g, s, a, m)
      BY <1>2, <1>3 DEF Lists
    <3> QED
      BY <1>2, <2>1, <3>1 DEF ListTold, ListedBy, ReadFor
  <2>2. CASE o = "overdue"
    <3>1. "items" \notin g.answer.failed => Lists("overdue", g, s, a, m)
      BY <1>2, <1>3 DEF Lists
    <3> QED
      BY <1>2, <2>2, <3>1 DEF ListTold, ListedBy, ReadFor
  <2>3. CASE o \in Columns \ {"charged", "overdue"}
    <3>1. ListedBy(o) # "items"
      BY <2>3 DEF Columns, ListedBy, ReadFor
    <3> QED
      BY <1>1, <2>3, <3>1, ListStays
  <2> QED
    BY <2>1, <2>2, <2>3
<1>7. ShelfTold(g, a, m)
  BY <1>3, ShelfStays
<1>8. Denies(Got(g), g, a, m)
  BY <1>1, DenialsStay
<1> QED
  BY <1>1, <1>2, <1>4, <1>3, <1>5, <1>6, <1>7, <1>8 DEF Tells

LEMMA FeesTell ==
  ASSUME NEW h, NEW g, NEW s, NEW a, NEW m, Follows(h, g), Tells(h, s, a, m), h.pc = "fees",
         Tallies(h, g, {"fines"}, {"fines"}),
         g.answer.denied = h.answer.denied, g.answer.failed = h.answer.failed,
         g.answer.counted["fines"] = Of(a, {"owed"}),
         g.answer.listed["fines"] = IF "fines" \in h.req.asks THEN g.answer.counted["fines"] ELSE {}
  PROVE  Tells(g, s, a, m)
<1>1. /\ "fines" \in Columns /\ ReadFor["fines"] = "fees" /\ ListedBy("fines") = "fees"
      /\ \A o \in Columns \ {"fines"} : ReadFor[o] # "fees" /\ ListedBy(o) # "fees"
  BY DEF Columns, ReadFor, ListedBy
<1>2. /\ \A o \in Columns \ {"fines"} : /\ g.answer.counted[o] = h.answer.counted[o]
                                        /\ g.answer.listed[o] = h.answer.listed[o]
      /\ g.answer.failed = h.answer.failed /\ g.answer.denied = h.answer.denied
  BY DEF Tallies
<1>3. h.pc \in Got(g) /\ g.answer.failed \subseteq Behind(g) /\ g.answer.valid /\ g.req = h.req
  BY <1>2, CallMade DEF Tells, Follows, Advances
<1>4. ASSUME NEW o \in Columns PROVE CountTold(o, g, s, a, m)
  <2>1. CASE o = "fines"
    <3>1. Counts("fines", g, s, a, m)
      BY <1>2, <1>3 DEF Counts, KindsOf
    <3> QED
      BY <1>1, <1>3, <2>1, <3>1 DEF CountTold
  <2>2. CASE o # "fines"
    <3>1. "charged" \in Columns \ {"fines"}
      BY DEF Columns
    <3>2. ReadFor[o] # h.pc /\ g.answer.counted[o] = h.answer.counted[o]
          /\ g.answer.counted["charged"] = h.answer.counted["charged"]
      BY <1>1, <1>2, <2>2, <3>1
    <3> QED
      BY <3>2, CountStays
  <2> QED
    BY <2>1, <2>2
<1>5. ASSUME NEW o \in Columns PROVE ListTold(o, g, s, a, m)
  <2>1. CASE o = "fines"
    <3>1. Lists("fines", g, s, a, m)
      BY <1>2, <1>3 DEF Lists
    <3> QED
      BY <1>1, <1>3, <2>1, <3>1 DEF ListTold, Got
  <2>2. CASE o # "fines"
    <3>1. ListedBy(o) # h.pc /\ g.answer.counted[o] = h.answer.counted[o]
          /\ g.answer.listed[o] = h.answer.listed[o]
      BY <1>1, <1>2, <2>2
    <3> QED
      BY <3>1, ListStays
  <2> QED
    BY <2>1, <2>2
<1>6. ShelfTold(g, a, m)
  BY <1>2, ShelfStays DEF Columns
<1>7. Denies(Got(g), g, a, m)
  BY <1>2, DenialsStay
<1>8. g.answer.counted["overdue"] \subseteq g.answer.counted["charged"]
  BY <1>2 DEF Tells, Columns
<1> QED
  BY <1>3, <1>4, <1>5, <1>6, <1>7, <1>8 DEF Tells

(* The blocks of one kind deny what they deny. *)
LEMMA BlocksTell ==
  ASSUME NEW h, NEW g, NEW s, NEW a, NEW m, Follows(h, g), Tells(h, s, a, m),
         h.pc \in {"manual", "automated"},
         g.answer = [h.answer EXCEPT !.denied = @ \cup UNION {a[x].denies : x \in Of(a, {h.pc})}]
  PROVE  Tells(g, s, a, m)
<1>1. /\ g.answer.counted = h.answer.counted /\ g.answer.listed = h.answer.listed
      /\ g.answer.failed = h.answer.failed
      /\ g.answer.denied = h.answer.denied \cup UNION {a[x].denies : x \in Of(a, {h.pc})}
  BY DEF Follows, Advances, Handler, Answer
<1>2. /\ Got(g) = Got(h) \cup {h.pc} /\ g.answer.failed \subseteq Behind(g) /\ g.answer.valid
  BY <1>1, CallMade DEF Tells, Follows, Got
<1>3. \A o \in Columns : ReadFor[o] # h.pc /\ ListedBy(o) # h.pc
  BY DEF Columns, ReadFor, ListedBy
<1>4. \A o \in Columns : CountTold(o, g, s, a, m) /\ ListTold(o, g, s, a, m)
  BY <1>1, <1>3, CountStays, ListStays
<1>5. ShelfTold(g, a, m)
  BY <1>1, ShelfStays
<1>6. Denies(Got(g), g, a, m)
  <2> DEFINE Read(got) == {x \in Things : m[x] = "same" /\ a[x].kind \in {"manual", "automated"} \cap got}
  <2>1. ASSUME NEW x \in Read(Got(g)) PROVE a[x].denies \subseteq g.answer.denied
    <3>1. x \in Read(Got(h)) \/ x \in Of(a, {h.pc})
      BY <1>2, <2>1 DEF Of
    <3> QED
      BY <1>1, <3>1 DEF Tells, Denies
  <2>2. ASSUME NEW p \in g.answer.denied
        PROVE  (\E x \in Read(Got(g)) : p \in a[x].denies) \/ (\E x \in Things : m[x] # "same")
    <3>1. CASE p \in h.answer.denied
      <4>1. Read(Got(h)) \subseteq Read(Got(g))
        BY <1>2
      <4> QED
        BY <3>1, <4>1 DEF Tells, Denies
    <3>2. CASE p \notin h.answer.denied
      <4>1. PICK x \in Of(a, {h.pc}) : p \in a[x].denies
        BY <1>1, <3>2
      <4>2. x \in Things /\ (m[x] = "same" => x \in Read(Got(g)))
        BY <1>2, <4>1 DEF Of
      <4> QED
        BY <4>1, <4>2
    <3> QED
      BY <3>1, <3>2
  <2> QED
    BY <2>1, <2>2 DEF Denies
<1> QED
  BY <1>1, <1>2, <1>4, <1>5, <1>6 DEF Tells

(* Nothing is told before the first call, and that is true. *)
LEMMA VerifyingTells ==
  ASSUME NEW h, NEW s, NEW a, NEW m, Behind(h) = {}, h.answer = Verifying
  PROVE  Tells(h, s, a, m)
<1>1. /\ h.answer.valid /\ h.answer.failed = {} /\ h.answer.denied = {}
      /\ h.answer.counted = NoThings /\ h.answer.listed = NoThings
  BY DEF Verifying, Nothing
<1>2. \A col \in Columns : NoThings[col] = {}
  BY DEF NoThings
<1>3. \A col \in Columns : CountTold(col, h, s, a, m) /\ ListTold(col, h, s, a, m)
  BY <1>1, <1>2 DEF CountTold, ListTold, Got
<1>4. Denies(Got(h), h, a, m)
  BY <1>1 DEF Denies, Got
<1>5. h.answer.counted["holds"] = {} /\ h.answer.counted["overdue"] = {}
  BY <1>1, <1>2 DEF Columns
<1> QED
  BY <1>1, <1>3, <1>4, <1>5 DEF Tells, ShelfTold

---------------------------------------------------------------------------
(* Handlers. *)

LEMMA NothingIsAnswer == Nothing \in Answer /\ ~Nothing.valid
<1>1. NoThings \in [Columns -> SUBSET Things]
  BY DEF NoThings
<1> QED
  BY <1>1 DEF Nothing, Answer

LEMMA IdleIsHandler == Idle \in Handler /\ Idle.pc = "idle" /\ Idle.answer = Nothing
BY NothingIsAnswer DEF Idle, Handler

(* A handler that refuses tells of no valid patron. *)
LEMMA InvalidAsks ==
  ASSUME NEW h \in Handler, h.req \in Requests, NEW s, NEW w
  PROVE  /\ Invalid(h) \in Handler /\ Invalid(h).req = h.req /\ Invalid(h).pc = "answer"
         /\ ~Telling(Invalid(h)) /\ Asking(Invalid(h), s, w)
<1>1. /\ Invalid(h) \in Handler /\ Invalid(h).req = h.req /\ Invalid(h).pc = "answer"
      /\ Invalid(h).answer = Nothing
  BY IdleIsHandler DEF Invalid, Handler, Idle, InFlight
<1> HIDE DEF Invalid
<1>2. ~Telling(Invalid(h))
  BY <1>1, NothingIsAnswer DEF Telling, Valid, Reads
<1> QED
  BY <1>1, <1>2 DEF Asking, Reads

(* What follows the renewal verifies active accounts only. *)
LEMMA AfterRenewalAsks ==
  ASSUME NEW h \in Handler, NEW s, NEW w \in BOOLEAN, h.req \in Requests,
         h.patronID \in Patrons, h.patronID = GetUserByBarcode(s, h.req.aa),
         h.seen \in UserRecord, h.seen.active => w
  PROVE  /\ AfterRenewal(h, s) \in Handler /\ AfterRenewal(h, s).req = h.req
         /\ AfterRenewal(h, s).pc \in {"verify", "refetch", "answer"}
         /\ ~Telling(AfterRenewal(h, s)) /\ Asking(AfterRenewal(h, s), s, w)
<1> DEFINE g == AfterRenewal(h, s)
           To(pc) == [Renewed(h) EXCEPT !.pc = pc]
<1>1. ASSUME NEW pc \in {"verify", "refetch"}
      PROVE  /\ To(pc) \in Handler /\ To(pc).pc = pc /\ To(pc).req = h.req
             /\ To(pc).patronID = h.patronID
  BY DEF Renewed, Handler, InFlight
<1> HIDE DEF To
<1>2. CASE h.seen.active
  <2>1. g = To("verify") /\ w
    BY <1>2 DEF AfterRenewal, To
  <2> HIDE DEF g
  <2> QED
    BY <1>1, <2>1 DEF Asking, Telling, Valid, Reads, g
<1>3. CASE ~h.seen.active /\ ExtendsExpired(s)
  <2>1. g = To("refetch")
    BY <1>3 DEF AfterRenewal, To
  <2> HIDE DEF g
  <2> QED
    BY <1>1, <2>1 DEF Asking, Telling, Valid, Reads, g
<1>4. CASE ~h.seen.active /\ ~ExtendsExpired(s)
  <2>1. g = Invalid(h)
    BY <1>4 DEF AfterRenewal
  <2> QED
    BY <2>1, InvalidAsks
<1> QED
  BY <1>2, <1>3, <1>4

---------------------------------------------------------------------------
(* Steps. *)

(* A handler goes on with its message. *)
LEMMA HandlerGoesOn ==
  ASSUME InquiryInv, NEW c \in Conns, NEW h \in Handler,
         handler[c].pc # "idle", h.req = handler[c].req,
         handler' = [handler EXCEPT ![c] = h], UNCHANGED <<user, account, today, session, held, moved>>,
         Asking(h, session[c], held[c]),
         Telling(h) => Tells(h, session[c], account[h.patronID], moved[c])
  PROVE  InquiryInv'
<1>1. Typed'
  BY DEF InquiryInv, Typed
<1>2. ASSUME NEW d \in Conns
      PROVE  handler'[d] = IF d = c THEN h ELSE handler[d]
  BY DEF InquiryInv, Typed
<1>3. \A d \in Conns : Asking(handler'[d], session'[d], held'[d])
  BY <1>2 DEF InquiryInv
<1>4. \A d \in Conns : Watched(handler'[d], session'[d], user', held'[d])
  BY <1>2 DEF InquiryInv, Watched
<1>5. \A d \in Conns : Telling(handler'[d]) =>
        Tells(handler'[d], session'[d], account'[handler'[d].patronID], moved'[d])
  BY <1>2 DEF InquiryInv
<1> QED
  BY <1>1, <1>3, <1>4, <1>5 DEF InquiryInv

(* A user record changes, and everybody who asks about it notices. *)
LEMMA RecordChanges ==
  ASSUME InquiryInv, NEW p \in Patrons, NEW r \in UserRecord,
         user' = [user EXCEPT ![p] = r], Witnesses(p, r)
  PROVE  /\ user' \in [Patrons -> UserRecord] /\ held' \in [Conns -> BOOLEAN]
         /\ \A c \in Conns : held[c] => held'[c]
         /\ \A c \in Conns : Watched(handler[c], session[c], user', held'[c])
<1>1. user' \in [Patrons -> UserRecord] /\ held' \in [Conns -> BOOLEAN]
      /\ \A c \in Conns : held[c] => held'[c]
  <2>1. \A c \in Conns : held[c] \in BOOLEAN
    BY DEF InquiryInv, Typed
  <2> QED
    BY <2>1 DEF InquiryInv, Typed, Witnesses, UserRecord
<1>2. ASSUME NEW c \in Conns PROVE Watched(handler[c], session[c], user', held'[c])
  <2> DEFINE q == GetUserByBarcode(session[c], handler[c].req.aa)
  <2> SUFFICES ASSUME handler[c].pc # "idle", q \in Patrons, user'[q].active PROVE held'[c]
    BY DEF Watched
  <2> HIDE DEF q
  <2>1. CASE q = p
    <3>1. r.active
      BY <2>1 DEF InquiryInv, Typed
    <3> QED
      BY <2>1, <3>1 DEF Witnesses, At, q
  <2>2. CASE q # p
    <3>1. user[q].active
      BY <2>2 DEF InquiryInv, Typed
    <3>2. held[c]
      BY <3>1 DEF InquiryInv, Watched, q
    <3> QED
      BY <3>2, <1>1
  <2> QED
    BY <2>1, <2>2
<1> QED
  BY <1>1, <1>2

(* Knowing that the account was active at one more moment does no harm. *)
LEMMA MoreIsHeld ==
  ASSUME NEW h, NEW s, NEW v \in BOOLEAN, NEW w \in BOOLEAN, Asking(h, s, v), v => w
  PROVE  Asking(h, s, w)
BY DEF Asking

LEMMA StartsInquiry == Init => InquiryInv
<1> SUFFICES ASSUME Init PROVE InquiryInv
  OBVIOUS
<1>1. Typed
  <2>0. moved \in [Conns -> Changes]
    BY DEF Init, Changes
  <2>1. user \in [Patrons -> UserRecord] /\ today \in FirstDay..LastDay
    BY InquiryAssumption DEF Init
  <2>2. session \in [Conns -> Session]
    BY DEF Init, NewSessions
  <2> QED
    BY <2>0, <2>1, <2>2, IdleIsHandler DEF Init, Typed
<1>2. \A c \in Conns : handler[c].pc = "idle"
  BY IdleIsHandler DEF Init
<1>3. \A c \in Conns : Asking(handler[c], session[c], held[c])
  BY <1>2 DEF Asking, Telling, Valid, Reads
<1>4. \A c \in Conns : Watched(handler[c], session[c], user, held[c])
  BY <1>2 DEF Watched
<1>5. \A c \in Conns : ~Telling(handler[c])
  BY <1>2 DEF Telling, Valid, Reads
<1> QED
  BY <1>1, <1>3, <1>4, <1>5 DEF InquiryInv

LEMMA ReceiveKeeps == ASSUME InquiryInv, NEW c \in Conns, Receive(c) PROVE InquiryInv'
<1>1. PICK r \in Requests :
        LET p == GetUserByBarcode(session[c], r.aa) IN
        /\ handler' = [handler EXCEPT ![c] = [Idle EXCEPT !.pc = "lookup", !.req = r]]
        /\ held' = [held EXCEPT ![c] = p # NoPatron /\ user[p].active]
        /\ UNCHANGED <<user, account, today, session, moved>>
  BY DEF Receive
<1> DEFINE h == [Idle EXCEPT !.pc = "lookup", !.req = r]
           p == GetUserByBarcode(session[c], r.aa)
           w == p # NoPatron /\ user[p].active
<1>2. h \in Handler /\ h.pc = "lookup" /\ h.req = r
  BY IdleIsHandler DEF Handler, Idle, InFlight
<1>3. r \in Request /\ p \in Patrons \cup {NoPatron}
  BY InquiryAssumption, CardAssumption DEF Request, InquiryInv, Typed, Session, GetUserByBarcode
<1>4. w \in BOOLEAN
  BY <1>3 DEF InquiryInv, Typed, UserRecord
<1> HIDE DEF h, w
<1>5. Typed'
  BY <1>1, <1>2, <1>4 DEF InquiryInv, Typed, h, w
<1>6. ASSUME NEW d \in Conns
      PROVE  /\ handler'[d] = IF d = c THEN h ELSE handler[d]
             /\ held'[d] = IF d = c THEN w ELSE held[d]
             /\ session'[d] = session[d] /\ user' = user /\ account' = account
             /\ moved'[d] = moved[d]
  BY <1>1 DEF InquiryInv, Typed, h, w
<1>7. Asking(h, session[c], w) /\ ~Telling(h)
  BY <1>2 DEF Asking, Telling, Valid, Reads
<1>8. Watched(h, session[c], user, w)
  BY <1>2, CardAssumption DEF Watched, w
<1>9. \A d \in Conns : Asking(handler'[d], session'[d], held'[d])
  BY <1>6, <1>7 DEF InquiryInv
<1>10. \A d \in Conns : Watched(handler'[d], session'[d], user', held'[d])
  BY <1>6, <1>8 DEF InquiryInv
<1>11. \A d \in Conns : Telling(handler'[d]) =>
         Tells(handler'[d], session'[d], account'[handler'[d].patronID], moved'[d])
  BY <1>6, <1>7 DEF InquiryInv
<1> QED
  BY <1>5, <1>9, <1>10, <1>11 DEF InquiryInv

---------------------------------------------------------------------------
(* The steps of a message. *)

(* What Asking says of the message of c. *)
LEMMA MessageOf ==
  ASSUME InquiryInv, NEW c \in Conns, handler[c].pc # "idle"
  PROVE  /\ handler[c] \in Handler /\ handler[c].req \in Requests
         /\ handler[c].req \in Request /\ handler[c].req.aa \in Barcodes
         /\ session[c] \in Session /\ held[c] \in BOOLEAN
         /\ GetUserByBarcode(session[c], handler[c].req.aa) \in Patrons \cup {NoPatron}
         /\ session[c].settings \in Settings
         /\ session[c].settings.renewal \in RenewalConfig
         /\ handler[c].req.code \in {"23", "63"}
         /\ DOMAIN handler = Conns
<1>1. handler[c] \in Handler /\ handler[c].req \in Requests /\ session[c] \in Session
      /\ held[c] \in BOOLEAN /\ DOMAIN handler = Conns
  BY DEF InquiryInv, Typed, Asking
<1>2. handler[c].req \in Request /\ handler[c].req.aa \in Barcodes
  BY <1>1, InquiryAssumption DEF Request
<1>3. session[c].settings \in Settings /\ session[c].tenant \in Tenants
  BY <1>1 DEF Session
<1>4. GetUserByBarcode(session[c], handler[c].req.aa) \in Patrons \cup {NoPatron}
  BY <1>2, <1>3, CardAssumption DEF GetUserByBarcode
<1> QED
  BY <1>1, <1>2, <1>3, <1>4, InquiryAssumption DEF Request

LEMMA LookupKeeps == ASSUME InquiryInv, NEW c \in Conns, Lookup(c) PROVE InquiryInv'
<1> DEFINE h == handler[c]
           s == session[c]
           p == GetUserByBarcode(s, h.req.aa)
           cfg == s.settings.renewal
           found == [h EXCEPT !.patronID = p, !.seen = user[p]]
           getting == [found EXCEPT !.pc = "get", !.until = CalculateNewExpiration(today, cfg)]
<1>1. h.pc = "lookup" /\ UNCHANGED <<user, account, today, session, held, moved>>
  BY DEF Lookup, At
<1>2. /\ h \in Handler /\ h.req \in Requests /\ p \in Patrons \cup {NoPatron}
      /\ s \in Session /\ held[c] \in BOOLEAN
      /\ cfg \in RenewalConfig /\ s.settings \in Settings
  BY <1>1, MessageOf
<1>3. CASE handler' = [handler EXCEPT ![c] = Invalid(h)]
  BY <1>1, <1>2, <1>3, InvalidAsks, HandlerGoesOn
<1>4. CASE /\ p # NoPatron
           /\ handler' = [handler EXCEPT ![c] =
                IF ShouldRenew(user[p], cfg, today) /\ ~cfg.dryRun THEN getting
                ELSE AfterRenewal(found, s)]
  <2>1. p \in Patrons /\ user[p] \in UserRecord /\ (user[p].active => held[c])
    BY <1>1, <1>2, <1>4 DEF InquiryInv, Typed, Watched
  <2>2. /\ found \in Handler /\ found.req = h.req /\ found.patronID = p
        /\ found.seen = user[p] /\ found.pc = "lookup"
    BY <1>1, <1>2, <2>1 DEF Handler
  <2>3. CASE ~(ShouldRenew(user[p], cfg, today) /\ ~cfg.dryRun)
    <3>1. handler' = [handler EXCEPT ![c] = AfterRenewal(found, s)]
      BY <1>4, <2>3
    <3>2. /\ AfterRenewal(found, s) \in Handler /\ AfterRenewal(found, s).req = h.req
          /\ ~Telling(AfterRenewal(found, s)) /\ Asking(AfterRenewal(found, s), s, held[c])
      <4> HIDE DEF found, h, s
      <4> QED
        BY <1>2, <2>1, <2>2, AfterRenewalAsks
    <3> HIDE DEF found
    <3> QED
      BY <1>1, <3>1, <3>2, HandlerGoesOn
  <2>4. CASE ShouldRenew(user[p], cfg, today)
    <3>1. /\ user[p].expires \in Nat /\ cfg.enabled
          /\ IsWithinPeriod(user[p].expires, today, cfg.renewWithin)
      BY <2>1, <2>4 DEF ShouldRenew, UserRecord
    <3>2. /\ today \in Nat
          /\ InCalendar(today, cfg.extendFor) /\ InCalendar(today, cfg.renewWithin)
      BY <1>2, InquiryAssumption DEF InquiryInv, Typed
    <3> DEFINE date == CalculateNewExpiration(today, cfg)
    <3>3. date \in Nat /\ (ExtendsBeyondWindow(cfg) => user[p].expires <= date)
      BY <1>2, <3>1, <3>2, ExtensionCovers
    <3> HIDE DEF date
    <3>4. /\ getting \in Handler /\ getting.req = h.req /\ getting.patronID = p
          /\ getting.seen = user[p] /\ getting.pc = "get" /\ getting.until = date
      BY <2>2, <3>3 DEF Handler, InFlight, date
    <3> HIDE DEF getting
    <3>5. Asking(getting, s, held[c]) /\ ~Telling(getting)
      BY <1>2, <2>1, <3>1, <3>3, <3>4 DEF Asking, Telling, Valid, Reads
    <3>6. CASE ~cfg.dryRun
      <4>1. handler' = [handler EXCEPT ![c] = getting]
        BY <1>4, <2>4, <3>6
      <4> QED
        BY <1>1, <3>4, <3>5, <4>1, HandlerGoesOn
    <3> QED
      BY <2>3, <3>6
  <2> QED
    BY <2>3, <2>4
<1> QED
  BY <1>3, <1>4 DEF Lookup

LEMMA GetsUserKeeps == ASSUME InquiryInv, NEW c \in Conns, GetsUser(c) PROVE InquiryInv'
<1> DEFINE h == handler[c]
           s == session[c]
           got == [h EXCEPT !.pc = "put", !.fetched = user[h.patronID]]
<1>1. h.pc = "get" /\ UNCHANGED <<user, account, today, session, held, moved>>
  BY DEF GetsUser, At
<1>2. h \in Handler /\ h.req \in Requests /\ held[c] \in BOOLEAN /\ DOMAIN handler = Conns
  BY <1>1, MessageOf
<1>3. Asking(h, s, held[c])
  BY DEF InquiryInv
<1>4. /\ h.patronID \in Patrons /\ h.patronID = GetUserByBarcode(s, h.req.aa)
      /\ h.seen \in UserRecord /\ (h.seen.active => held[c])
      /\ user[h.patronID] \in UserRecord
  BY <1>1, <1>3 DEF Asking, InquiryInv, Typed
<1>5. CASE handler' = [handler EXCEPT ![c] = AfterRenewal(h, s)]
  <2>1. /\ AfterRenewal(h, s) \in Handler /\ AfterRenewal(h, s).req = h.req
        /\ ~Telling(AfterRenewal(h, s)) /\ Asking(AfterRenewal(h, s), s, held[c])
    BY <1>2, <1>4, AfterRenewalAsks
  <2> QED
    BY <1>1, <1>5, <2>1, HandlerGoesOn
<1>6. CASE handler' = [handler EXCEPT ![c].pc = "put", ![c].fetched = user[h.patronID]]
  <2>1. handler' = [handler EXCEPT ![c] = got]
    BY <1>2, <1>6 DEF InquiryInv, Typed
  <2>2. /\ got \in Handler /\ got.pc = "put" /\ got.fetched = user[h.patronID]
        /\ got.req = h.req /\ got.patronID = h.patronID /\ got.seen = h.seen
        /\ got.until = h.until
    BY <1>2, <1>4 DEF Handler, InFlight
  <2> HIDE DEF got
  <2>3. Asking(got, s, held[c]) /\ ~Telling(got)
    BY <1>1, <1>2, <1>3, <1>4, <2>2 DEF Asking, Telling, Valid, Reads
  <2> QED
    BY <1>1, <2>1, <2>2, <2>3, HandlerGoesOn
<1> QED
  BY <1>5, <1>6 DEF GetsUser

LEMMA RefetchKeeps == ASSUME InquiryInv, NEW c \in Conns, Refetch(c) PROVE InquiryInv'
<1> DEFINE h == handler[c]
           s == session[c]
           again == [h EXCEPT !.pc = "verify", !.seen = user[h.patronID]]
<1>1. h.pc = "refetch" /\ UNCHANGED <<user, account, today, session, held, moved>>
  BY DEF Refetch, At
<1>2. h \in Handler /\ h.req \in Requests /\ DOMAIN handler = Conns
  BY <1>1, MessageOf
<1>3. Asking(h, s, held[c])
  BY DEF InquiryInv
<1>4. /\ h.patronID \in Patrons /\ h.patronID = GetUserByBarcode(s, h.req.aa)
      /\ user[h.patronID] \in UserRecord
  BY <1>1, <1>3 DEF Asking, InquiryInv, Typed
<1>5. CASE handler' = [handler EXCEPT ![c] = Invalid(h)]
  BY <1>1, <1>2, <1>5, InvalidAsks, HandlerGoesOn
<1>6. CASE /\ user[h.patronID].active
           /\ handler' = [handler EXCEPT ![c].pc = "verify", ![c].seen = user[h.patronID]]
  <2>1. handler' = [handler EXCEPT ![c] = again]
    BY <1>2, <1>6 DEF InquiryInv, Typed
  <2>2. /\ again \in Handler /\ again.pc = "verify" /\ again.req = h.req
        /\ again.patronID = h.patronID
    BY <1>2, <1>4 DEF Handler, InFlight
  <2>3. held[c]
    BY <1>1, <1>4, <1>6 DEF InquiryInv, Watched
  <2> HIDE DEF again
  <2>4. Asking(again, s, held[c]) /\ ~Telling(again)
    BY <1>2, <1>4, <2>2, <2>3 DEF Asking, Telling, Valid, Reads
  <2> QED
    BY <1>1, <2>1, <2>2, <2>4, HandlerGoesOn
<1> QED
  BY <1>5, <1>6 DEF Refetch

(* A verification that comes out verified has verified the patron looked up, *)
(* and nothing is told as yet.                                              *)
LEMMA VerifiesPatronKeeps ==
  ASSUME InquiryInv, NEW c \in Conns, VerifiesPatron(c) PROVE InquiryInv'
<1> DEFINE h == handler[c]
           s == session[c]
           reads == [h EXCEPT !.pc = After(h), !.seen = NoUser, !.answer = Verifying]
<1>1. h.pc = "verify" /\ UNCHANGED <<user, account, today, session, held, moved>>
  BY DEF VerifiesPatron, At
<1>2. h \in Handler /\ h.req \in Requests /\ h.req.code \in {"23", "63"} /\ DOMAIN handler = Conns
  BY <1>1, MessageOf
<1>3. Asking(h, s, held[c])
  BY DEF InquiryInv
<1>4. PICK verified \in Verified(s, h.patronID, h.req.aa, h.req.secret) :
        handler' = [handler EXCEPT ![c] = IF verified THEN reads ELSE Invalid(h)]
  BY DEF VerifiesPatron
<1>5. verified \in BOOLEAN
  BY <1>4 DEF Verified, Verifies
<1>6. CASE verified
  <2>1. Verifies(s, h.patronID, h.req.aa, h.req.secret)
    BY <1>4, <1>5, <1>6, VerifiedVerifies
  <2>2. /\ reads.pc = After(h) /\ reads.req = h.req /\ reads.patronID = h.patronID
        /\ reads.answer = Verifying
    BY <1>2 DEF Handler
  <2>3. handler' = [handler EXCEPT ![c] = reads]
    BY <1>4, <1>6
  <2>4. Verifying \in Answer
    BY NothingIsAnswer DEF Verifying, Answer
  <2>5. reads.pc \in ReadsOf(h.req.code) /\ Behind(reads) = {}
    <3> HIDE DEF reads
    <3> QED
      BY <1>1, <1>2, <2>2, CallsBegin
  <2>6. reads.pc \in Reads
    BY <1>2, <2>5 DEF ReadsOf, Reads
  <2>7. reads \in Handler
    BY <1>2, <2>2, <2>4, <2>6 DEF Handler, InFlight
  <2> HIDE DEF reads
  <2>8. Asking(reads, s, held[c])
    BY <1>1, <1>2, <1>3, <2>1, <2>2, <2>5, <2>6 DEF Asking, Telling, Valid, Reads
  <2>9. Tells(reads, s, account[h.patronID], moved[c])
    BY <2>2, <2>5, VerifyingTells
  <2> QED
    BY <1>1, <2>2, <2>3, <2>7, <2>8, <2>9, HandlerGoesOn
<1>7. CASE ~verified
  <2>1. handler' = [handler EXCEPT ![c] = Invalid(h)]
    BY <1>4, <1>7
  <2> QED
    BY <1>1, <1>2, <2>1, InvalidAsks, HandlerGoesOn
<1> QED
  BY <1>5, <1>6, <1>7

(* A call makes g of the answer, which tells what the account is. *)
LEMMA GetsKeeps ==
  ASSUME InquiryInv, NEW c \in Conns, handler[c].pc \in Reads, NEW answer \in Answer, Gets(c, answer),
         answer.valid,
         answer.failed \in {handler[c].answer.failed, handler[c].answer.failed \cup {handler[c].pc}},
         NEW g, g = [handler[c] EXCEPT !.pc = After(handler[c]), !.answer = answer],
         Follows(handler[c], g) =>
           Tells(g, session[c], account[handler[c].patronID], moved[c])
  PROVE  InquiryInv'
<1> DEFINE h == handler[c]
<1>1. h.pc \in Reads /\ h.pc # "idle" /\ Telling(h)
  BY DEF Reads, Telling
<1>2. h \in Handler /\ h.req \in Requests /\ h.req.code \in {"23", "63"} /\ DOMAIN handler = Conns
  BY <1>1, MessageOf
<1>3. Asking(h, session[c], held[c]) /\ Tells(h, session[c], account[h.patronID], moved[c])
  BY <1>1 DEF InquiryInv
<1>4. handler' = [handler EXCEPT ![c] = g]
      /\ UNCHANGED <<user, account, today, session, held, moved>>
  BY <1>2 DEF Gets, InquiryInv, Typed
<1>5. g.pc = After(h) /\ g.req = h.req /\ g.patronID = h.patronID /\ g.answer = answer
  BY <1>2 DEF Handler
<1>6. h.pc \in ReadsOf(h.req.code)
  BY <1>1, <1>3 DEF Asking
<1>7. g.pc \in ReadsOf(h.req.code) \cup {"answer"}
  <2>1. Advances(h, g)
    BY <1>2, <1>5, <1>6 DEF Advances
  <2> HIDE DEF h
  <2> QED
    BY <2>1, CallsAdvance
<1>8. g.pc \in Reads \cup {"answer"}
  BY <1>7 DEF ReadsOf, Reads
<1>9. g \in Handler
  BY <1>2, <1>5, <1>8 DEF Handler, InFlight
<1>10. Follows(h, g)
  BY <1>2, <1>3, <1>5, <1>6, <1>9 DEF Follows, Advances, Tells
<1>11. Asking(g, session[c], held[c])
  <2>1. g.pc \in Reads => g.pc \in ReadsOf(g.req.code)
    BY <1>5, <1>7 DEF Reads
  <2> QED
    BY <1>1, <1>2, <1>3, <1>5, <1>8, <2>1 DEF Asking, Telling, Valid, Reads
<1> HIDE DEF h
<1>12. g.req = handler[c].req /\ handler[c].pc # "idle"
       /\ Tells(g, session[c], account[g.patronID], moved[c])
  BY <1>1, <1>5, <1>10 DEF h
<1> QED
  BY <1>4, <1>9, <1>11, <1>12, HandlerGoesOn

(* What a call finds: the answer so far, which is true of the account.      *)
LEMMA CallAtHand ==
  ASSUME InquiryInv, NEW c \in Conns, handler[c].pc \in Reads
  PROVE  /\ handler[c] \in Handler /\ handler[c].answer \in Answer /\ handler[c].answer.valid
         /\ handler[c].pc \in ReadsOf(handler[c].req.code)
         /\ Tells(handler[c], session[c], account[handler[c].patronID], moved[c])
<1>1. Telling(handler[c])
  BY DEF Telling
<1>2. Tells(handler[c], session[c], account[handler[c].patronID], moved[c])
      /\ handler[c] \in Handler /\ Asking(handler[c], session[c], held[c])
  BY <1>1 DEF InquiryInv, Typed
<1> QED
  BY <1>2 DEF Tells, Handler, Asking

LEMMA ReadFailsKeeps == ASSUME InquiryInv, NEW c \in Conns, ReadFails(c) PROVE InquiryInv'
<1> DEFINE h == handler[c]
           answer == [h.answer EXCEPT !.failed = @ \cup {h.pc}]
           g == [h EXCEPT !.pc = After(h), !.answer = answer]
<1>1. /\ h.pc \in {"holds", "loans", "fees", "unavailable", "manual", "automated"}
      /\ h.pc \in Reads /\ Gets(c, answer)
  BY DEF ReadFails, Reads
<1>2. h \in Handler /\ h.answer \in Answer /\ h.answer.valid
      /\ Tells(h, session[c], account[h.patronID], moved[c])
  BY <1>1, CallAtHand
<1>3. answer \in Answer /\ answer.valid /\ answer.failed = h.answer.failed \cup {h.pc}
  BY <1>1, <1>2 DEF Answer
<1>4. g.answer = answer
  BY <1>2 DEF Handler
<1>5. Follows(h, g) => Tells(g, session[c], account[h.patronID], moved[c])
  <2> HIDE DEF g, h
  <2> QED
    BY <1>1, <1>2, <1>4, FailureTells
<1> HIDE DEF answer
<1> QED
  BY <1>1, <1>3, <1>5, GetsKeeps

LEMMA GetsHoldsKeeps ==
  ASSUME InquiryInv, NEW c \in Conns, NEW col \in {"holds", "unavailable"}, NEW kind, NEW labels,
         KindsOf[col] = {kind}, GetsHolds(c, col, kind, labels),
         labels = IF col = "holds" THEN {"barcode"}
                  ELSE IF session[c].settings.listsUnavailable THEN {"barcode", "instance"} ELSE {}
  PROVE  InquiryInv'
<1> DEFINE h == handler[c]
           a == account[h.patronID]
           holds == Of(a, {kind})
<1>1. h.pc = col /\ h.pc \in Reads
  BY DEF GetsHolds, At, Reads
<1>2. h \in Handler /\ h.answer \in Answer /\ h.answer.valid
      /\ Tells(h, session[c], a, moved[c])
  BY <1>1, CallAtHand
<1>3. PICK got \in IF col \in h.req.asks THEN Pages(session[c], holds) ELSE {holds} :
        Gets(c, [h.answer EXCEPT
                   !.counted[col] = got,
                   !.listed[col] = IF col \in h.req.asks THEN {x \in got : a[x].label \in labels} ELSE {}])
  BY DEF GetsHolds
<1> DEFINE list == IF col \in h.req.asks THEN {x \in got : a[x].label \in labels} ELSE {}
           answer == [h.answer EXCEPT !.counted[col] = got, !.listed[col] = list]
           g == [h EXCEPT !.pc = After(h), !.answer = answer]
<1>4. /\ got \subseteq Of(a, KindsOf[col])
      /\ \/ got = Of(a, KindsOf[col])
         \/ col \in h.req.asks /\ Cardinality(got) = session[c].settings.patronItemsLimit
  <2> HIDE DEF holds
  <2> QED
    BY <1>3, PagesOf DEF holds
<1>5. list = IF col \in h.req.asks /\ (col = "unavailable" => session[c].settings.listsUnavailable)
               THEN {x \in got : \/ a[x].label = "barcode"
                                 \/ col = "unavailable" /\ a[x].label = "instance"}
               ELSE {}
  OBVIOUS
<1>6. got \subseteq Things /\ list \subseteq got /\ col \in Columns
  BY <1>4 DEF Of, Columns
<1> HIDE DEF list
<1>7. answer \in Answer /\ answer.valid /\ answer.failed = h.answer.failed
  BY <1>2, <1>6 DEF Answer
<1>8. /\ g.answer.counted[col] = got /\ g.answer.listed[col] = list
      /\ g.answer.failed = h.answer.failed /\ g.answer.denied = h.answer.denied
      /\ Tallies(h, g, {col}, {col})
  BY <1>2, <1>6 DEF Handler, Answer, Tallies
<1>9. Gets(c, answer)
  BY <1>3 DEF list
<1>10. Follows(h, g) => Tells(g, session[c], a, moved[c])
  <2> HIDE DEF g, h, a
  <2>1. g.answer.listed[col] =
          IF col \in h.req.asks /\ (col = "unavailable" => session[c].settings.listsUnavailable)
            THEN {x \in g.answer.counted[col] :
                    a[x].label = "barcode" \/ (col = "unavailable" /\ a[x].label = "instance")}
            ELSE {}
    BY <1>5, <1>8
  <2>2. /\ g.answer.counted[col] \subseteq Of(a, KindsOf[col])
        /\ \/ g.answer.counted[col] = Of(a, KindsOf[col])
           \/ /\ col \in h.req.asks
              /\ Cardinality(g.answer.counted[col]) = session[c].settings.patronItemsLimit
    BY <1>4, <1>8
  <2> QED
    BY <1>1, <1>2, <1>8, <2>1, <2>2, HoldsTell
<1> HIDE DEF answer
<1> QED
  BY <1>1, <1>7, <1>9, <1>10, GetsKeeps

LEMMA GetsLoansKeeps == ASSUME InquiryInv, NEW c \in Conns, GetsLoans(c) PROVE InquiryInv'
<1> DEFINE h == handler[c]
           a == account[h.patronID]
<1>1. h.pc = "loans" /\ h.pc \in Reads
  BY DEF GetsLoans, At, Reads
<1>2. h \in Handler /\ h.answer \in Answer /\ h.answer.valid
      /\ Tells(h, session[c], a, moved[c])
  BY <1>1, CallAtHand
<1>3. PICK got \in Pages(session[c], Of(a, {"lent", "overdue"})) :
        Gets(c, [h.answer EXCEPT !.counted["charged"] = got,
                                 !.counted["overdue"] = got \cap Of(a, {"overdue"})])
  BY DEF GetsLoans
<1> DEFINE answer == [h.answer EXCEPT !.counted["charged"] = got,
                                      !.counted["overdue"] = got \cap Of(a, {"overdue"})]
           g == [h EXCEPT !.pc = After(h), !.answer = answer]
<1>4. got \subseteq Things
  BY PagesOf DEF Of
<1>5. answer \in Answer /\ answer.valid /\ answer.failed = h.answer.failed
  BY <1>2, <1>4 DEF Answer, Columns
<1>6. /\ g.answer.counted["charged"] = got
      /\ g.answer.counted["overdue"] = got \cap Of(a, {"overdue"})
      /\ g.answer.failed = h.answer.failed /\ g.answer.denied = h.answer.denied
      /\ Tallies(h, g, {"charged", "overdue"}, {})
  BY <1>2 DEF Handler, Answer, Tallies, Columns
<1>7. Follows(h, g) => Tells(g, session[c], a, moved[c])
  <2> HIDE DEF g, h, a
  <2> QED
    BY <1>1, <1>2, <1>6, LoansTell
<1> HIDE DEF answer
<1>8. Gets(c, answer)
  BY <1>3 DEF answer
<1> QED
  BY <1>1, <1>5, <1>7, <1>8, GetsKeeps

LEMMA GetsItemsKeeps == ASSUME InquiryInv, NEW c \in Conns, GetsItems(c) PROVE InquiryInv'
<1> DEFINE h == handler[c]
           a == account[h.patronID]
           Missing(found) == IF found = Attached(h) THEN {} ELSE {"items"}
           List(col, found) ==
             IF col \in h.req.asks
               THEN h.answer.counted[col] \cap {x \in found : a[x].label = "barcode"} ELSE {}
<1>1. h.pc = "items" /\ h.pc \in Reads
  BY DEF GetsItems, At, Reads
<1>2. h \in Handler /\ h.answer \in Answer /\ h.answer.valid
      /\ Tells(h, session[c], a, moved[c])
  BY <1>1, CallAtHand
<1>3. PICK found \in SUBSET Attached(h) :
        Gets(c, [h.answer EXCEPT !.failed = @ \cup Missing(found),
                                 !.listed["overdue"] = List("overdue", found),
                                 !.listed["charged"] = List("charged", found)])
  BY DEF GetsItems
<1> DEFINE missing == Missing(found)
           due == List("overdue", found)
           lent == List("charged", found)
           answer == [h.answer EXCEPT !.failed = @ \cup missing,
                                      !.listed["overdue"] = due, !.listed["charged"] = lent]
           g == [h EXCEPT !.pc = After(h), !.answer = answer]
<1>4. h.answer.counted["overdue"] \subseteq Things /\ h.answer.counted["charged"] \subseteq Things
  BY <1>2 DEF Answer, Columns
<1>5. due \subseteq Things /\ lent \subseteq Things
  BY <1>4
<1>6. missing = {} \/ missing = {h.pc}
  BY <1>1
<1>7. missing = {} => found = Attached(h)
  OBVIOUS
<1>8. /\ due = IF "overdue" \in h.req.asks
                  THEN h.answer.counted["overdue"] \cap {x \in found : a[x].label = "barcode"} ELSE {}
      /\ lent = IF "charged" \in h.req.asks
                   THEN h.answer.counted["charged"] \cap {x \in found : a[x].label = "barcode"} ELSE {}
  OBVIOUS
<1> HIDE DEF missing, due, lent
<1>9. /\ answer \in Answer /\ answer.valid
      /\ answer.failed \in {h.answer.failed, h.answer.failed \cup {h.pc}}
  BY <1>1, <1>2, <1>5, <1>6 DEF Answer, Columns
<1>10. /\ g.answer.listed["overdue"] = due /\ g.answer.listed["charged"] = lent
       /\ g.answer.failed = h.answer.failed \cup missing /\ g.answer.denied = h.answer.denied
       /\ Tallies(h, g, {}, {"charged", "overdue"})
  <2>1. h.answer.listed \in [Columns -> SUBSET Things] /\ g.answer = answer
    BY <1>2 DEF Handler, Answer
  <2>2. /\ answer.listed["overdue"] = due /\ answer.listed["charged"] = lent
        /\ \A o \in Columns \ {"charged", "overdue"} : answer.listed[o] = h.answer.listed[o]
    BY <1>2, <2>1 DEF Answer, Columns
  <2>3. answer.counted = h.answer.counted
    BY <1>2 DEF Answer
  <2>4. answer.denied = h.answer.denied
    BY <1>2 DEF Answer
  <2>5. answer.failed = h.answer.failed \cup missing
    BY <1>2 DEF Answer
  <2> HIDE DEF g, answer
  <2> QED
    BY <2>1, <2>2, <2>3, <2>4, <2>5 DEF Tallies, Columns
<1>11. Follows(h, g) => Tells(g, session[c], a, moved[c])
  <2>1. h.answer.counted["overdue"] \subseteq h.answer.counted["charged"]
    BY <1>2 DEF Tells
  <2>2. ASSUME "items" \notin g.answer.failed
        PROVE  /\ "overdue" \in h.req.asks => due = {x \in h.answer.counted["overdue"] : a[x].label = "barcode"}
               /\ "charged" \in h.req.asks => lent = {x \in h.answer.counted["charged"] : a[x].label = "barcode"}
    <3>1. found = Attached(h)
      BY <1>1, <1>6, <1>7, <1>10, <2>2
    <3> HIDE DEF g, h, a
    <3> QED
      BY <1>8, <2>1, <3>1 DEF Attached
  <2> HIDE DEF g, h, a
  <2>3. "items" \notin g.answer.failed =>
          \A col \in {"charged", "overdue"} :
            g.answer.listed[col] =
              IF col \in h.req.asks THEN {x \in h.answer.counted[col] : a[x].label = "barcode"} ELSE {}
    BY <1>8, <1>10, <2>2
  <2> QED
    BY <1>1, <1>2, <1>10, <2>3, ItemsTell
<1>12. Gets(c, answer)
  BY <1>3 DEF missing, due, lent
<1> HIDE DEF answer
<1> QED
  BY <1>1, <1>9, <1>11, <1>12, GetsKeeps

LEMMA GetsFeesKeeps == ASSUME InquiryInv, NEW c \in Conns, GetsFees(c) PROVE InquiryInv'
<1> DEFINE h == handler[c]
           a == account[h.patronID]
           owed == Of(a, {"owed"})
           list == IF "fines" \in h.req.asks THEN owed ELSE {}
           answer == [h.answer EXCEPT !.counted["fines"] = owed, !.listed["fines"] = list]
           g == [h EXCEPT !.pc = After(h), !.answer = answer]
<1>1. h.pc = "fees" /\ h.pc \in Reads /\ Gets(c, answer)
  BY DEF GetsFees, At, Reads
<1>2. h \in Handler /\ h.answer \in Answer /\ h.answer.valid
      /\ Tells(h, session[c], a, moved[c])
  BY <1>1, CallAtHand
<1>3. owed \subseteq Things /\ list \subseteq Things /\ owed = Of(a, {"owed"})
      /\ list = IF "fines" \in h.req.asks THEN owed ELSE {}
  BY DEF Of
<1> HIDE DEF owed, list
<1>4. answer \in Answer /\ answer.valid /\ answer.failed = h.answer.failed
  BY <1>2, <1>3 DEF Answer, Columns
<1>5. /\ g.answer.counted["fines"] = owed /\ g.answer.listed["fines"] = list
      /\ g.answer.failed = h.answer.failed /\ g.answer.denied = h.answer.denied
      /\ Tallies(h, g, {"fines"}, {"fines"})
  BY <1>2 DEF Handler, Answer, Tallies, Columns
<1>6. Follows(h, g) => Tells(g, session[c], a, moved[c])
  <2> HIDE DEF g, h, a
  <2> QED
    BY <1>1, <1>2, <1>3, <1>5, FeesTell
<1> HIDE DEF answer
<1> QED
  BY <1>1, <1>4, <1>6, GetsKeeps

LEMMA GetsBlocksKeeps == ASSUME InquiryInv, NEW c \in Conns, GetsBlocks(c) PROVE InquiryInv'
<1> DEFINE h == handler[c]
           a == account[h.patronID]
           blocked == UNION {a[x].denies : x \in Of(a, {h.pc})}
           answer == [h.answer EXCEPT !.denied = @ \cup blocked]
           g == [h EXCEPT !.pc = After(h), !.answer = answer]
<1>1. h.pc \in {"manual", "automated"} /\ h.pc \in Reads /\ Gets(c, answer)
  BY DEF GetsBlocks, Reads
<1>2. h \in Handler /\ h.answer \in Answer /\ h.answer.valid
      /\ Tells(h, session[c], a, moved[c])
  BY <1>1, CallAtHand
<1>3. a \in [Things -> Entry]
  <2>1. h.patronID \in Patrons
    BY <1>1 DEF InquiryInv, Asking, Telling
  <2> QED
    BY <2>1, InquiryAssumption DEF InquiryInv, Typed
<1>4. blocked \subseteq Privileges
  BY <1>3 DEF Of, Entry
<1>5. answer \in Answer /\ answer.valid /\ answer.failed = h.answer.failed
  <2> HIDE DEF blocked
  <2> QED
    BY <1>2, <1>4 DEF Answer
<1>6. g.answer = answer
  BY <1>2 DEF Handler
<1>7. Follows(h, g) => Tells(g, session[c], a, moved[c])
  <2> HIDE DEF g, h, a
  <2> QED
    BY <1>1, <1>2, <1>6, BlocksTell
<1> HIDE DEF answer
<1> QED
  BY <1>1, <1>5, <1>7, GetsKeeps

LEMMA GetsAccountKeeps == ASSUME InquiryInv, NEW c \in Conns, GetsAccount(c) PROVE InquiryInv'
<1>1. CASE GetsAvailable(c)
  <2>1. KindsOf["holds"] = {"ready"}
    BY DEF KindsOf
  <2> QED
    BY <1>1, <2>1, GetsHoldsKeeps DEF GetsAvailable
<1>2. CASE GetsUnavailable(c)
  <2>1. KindsOf["unavailable"] = {"waiting"}
    BY DEF KindsOf
  <2> QED
    BY <1>2, <2>1, GetsHoldsKeeps DEF GetsUnavailable
<1> QED
  BY <1>1, <1>2, GetsLoansKeeps, GetsItemsKeeps, GetsFeesKeeps, GetsBlocksKeeps, ReadFailsKeeps
     DEF GetsAccount

(* What is written to a user record. *)
LEMMA UpdatedRecord ==
  ASSUME NEW h \in Handler, NEW s, s.settings.renewal \in RenewalConfig,
         h.fetched \in UserRecord, h.until \in Nat
  PROVE  /\ Updated(h, s) \in UserRecord /\ Updated(h, s).expires = h.until
         /\ Updated(h, s).note = h.fetched.note /\ Updated(h, s).group = h.fetched.group
         /\ Updated(h, s).active = (h.fetched.active \/ s.settings.renewal.extendExpired)
BY DEF Updated, UserRecord, RenewalConfig

LEMMA PutsUserKeeps == ASSUME InquiryInv, NEW c \in Conns, PutsUser(c) PROVE InquiryInv'
<1> DEFINE h == handler[c]
           s == session[c]
           r == Updated(h, s)
           g == AfterRenewal(h, s)
<1>1. /\ h.pc = "put" /\ handler' = [handler EXCEPT ![c] = g]
      /\ UNCHANGED <<account, today, session, moved>>
      /\ \/ user' = [user EXCEPT ![h.patronID] = r] /\ Witnesses(h.patronID, r)
         \/ UNCHANGED <<user, held>>
  BY DEF PutsUser, At
<1>2. /\ h \in Handler /\ h.req \in Requests /\ held[c] \in BOOLEAN /\ DOMAIN handler = Conns
      /\ s.settings.renewal \in RenewalConfig
  BY <1>1, MessageOf
<1>3. Asking(h, s, held[c])
  BY DEF InquiryInv
<1>4. /\ h.patronID \in Patrons /\ h.patronID = GetUserByBarcode(s, h.req.aa)
      /\ h.seen \in UserRecord /\ (h.seen.active => held[c])
      /\ h.fetched \in UserRecord /\ h.until \in Nat
  BY <1>1, <1>3 DEF Asking
<1>5. g \in Handler /\ g.req = h.req /\ ~Telling(g) /\ Asking(g, s, held[c])
  BY <1>2, <1>4, AfterRenewalAsks
<1> HIDE DEF g
<1>6. CASE UNCHANGED <<user, held>>
  BY <1>1, <1>5, <1>6, HandlerGoesOn
<1>7. CASE user' = [user EXCEPT ![h.patronID] = r] /\ Witnesses(h.patronID, r)
  <2>1. r \in UserRecord
    BY <1>2, <1>4, UpdatedRecord
  <2> HIDE DEF r
  <2>2. /\ user' \in [Patrons -> UserRecord] /\ held' \in [Conns -> BOOLEAN]
        /\ \A d \in Conns : held[d] => held'[d]
        /\ \A d \in Conns : Watched(handler[d], session[d], user', held'[d])
    <3> HIDE DEF h
    <3> QED
      BY <1>4, <1>7, <2>1, RecordChanges
  <2>3. Typed'
    BY <1>1, <1>5, <2>2 DEF InquiryInv, Typed
  <2>4. ASSUME NEW d \in Conns
        PROVE  /\ handler'[d] = IF d = c THEN g ELSE handler[d]
               /\ session'[d] = session[d] /\ account' = account /\ moved'[d] = moved[d]
               /\ held[d] \in BOOLEAN /\ held'[d] \in BOOLEAN /\ (held[d] => held'[d])
    BY <1>1, <2>2 DEF InquiryInv, Typed
  <2>5. \A d \in Conns : Asking(handler'[d], session'[d], held'[d])
    <3>1. \A d \in Conns : Asking(handler'[d], session'[d], held[d])
      BY <1>5, <2>4 DEF InquiryInv
    <3> QED
      BY <3>1, <2>4, MoreIsHeld
  <2>6. \A d \in Conns : Watched(handler'[d], session'[d], user', held'[d])
    <3>1. g.pc # "idle" /\ Watched(h, s, user', held'[c]) => Watched(g, s, user', held'[c])
      BY <1>1, <1>5 DEF Watched
    <3> QED
      BY <1>1, <1>5, <2>2, <2>4, <3>1 DEF Watched
  <2>7. \A d \in Conns : Telling(handler'[d]) =>
          Tells(handler'[d], session'[d], account'[handler'[d].patronID], moved'[d])
    BY <1>5, <2>4 DEF InquiryInv
  <2> QED
    BY <2>3, <2>5, <2>6, <2>7 DEF InquiryInv
<1> QED
  BY <1>1, <1>6, <1>7

LEMMA AnswersKeep == ASSUME InquiryInv, NEW c \in Conns, Answers(c) PROVE InquiryInv'
<1> DEFINE h == handler[c]
           s == RemembersPatron(session[c], h)
<1>1. /\ h.pc = "answer"
      /\ session' = [session EXCEPT ![c] = s]
      /\ handler' = [handler EXCEPT ![c] = Idle] /\ held' = [held EXCEPT ![c] = FALSE]
      /\ moved' = [moved EXCEPT ![c] = [x \in Things |-> "same"]]
      /\ UNCHANGED <<user, account, today>>
  BY DEF Answers, At
<1>2. s \in Session
  <2>1. session[c] \in Session /\ h.req.aa \in Barcodes
    BY <1>1, MessageOf
  <2>2. Valid(h) => h.patronID \in Patrons
    BY DEF InquiryInv, Asking, Telling
  <2> QED
    BY <1>1, <2>1, <2>2 DEF RemembersPatron, Remember, Session, Valid
<1> HIDE DEF s
<1>3. Typed'
  BY <1>1, <1>2, IdleIsHandler DEF InquiryInv, Typed, Changes
<1>4. ASSUME NEW d \in Conns
      PROVE  \/ handler'[d].pc = "idle"
             \/ /\ handler'[d] = handler[d] /\ session'[d] = session[d] /\ held'[d] = held[d]
                /\ user' = user /\ account' = account /\ moved'[d] = moved[d]
  BY <1>1, IdleIsHandler DEF InquiryInv, Typed
<1>5. \A d \in Conns : Asking(handler'[d], session'[d], held'[d])
  BY <1>4 DEF InquiryInv, Asking, Telling, Valid, Reads
<1>6. \A d \in Conns : Watched(handler'[d], session'[d], user', held'[d])
  BY <1>4 DEF InquiryInv, Watched
<1>7. \A d \in Conns : Telling(handler'[d]) =>
        Tells(handler'[d], session'[d], account'[handler'[d].patronID], moved'[d])
  BY <1>4 DEF InquiryInv, Telling, Valid, Reads
<1> QED
  BY <1>3, <1>5, <1>6, <1>7 DEF InquiryInv

(* Between messages the session may change, and no message notices. *)
LEMMA SessionChanges ==
  ASSUME InquiryInv, NEW c \in Conns, NEW s \in Session, handler[c].pc = "idle",
         session' = [session EXCEPT ![c] = s], UNCHANGED <<user, account, today, handler, held, moved>>
  PROVE  InquiryInv'
<1>1. Typed'
  BY DEF InquiryInv, Typed
<1>2. ASSUME NEW d \in Conns
      PROVE  \/ handler'[d].pc = "idle"
             \/ /\ handler'[d] = handler[d] /\ session'[d] = session[d] /\ held'[d] = held[d]
                /\ user' = user /\ account' = account /\ moved'[d] = moved[d]
  BY DEF InquiryInv, Typed
<1>3. \A d \in Conns : Asking(handler'[d], session'[d], held'[d])
  BY <1>2 DEF InquiryInv, Asking, Telling, Valid, Reads
<1>4. \A d \in Conns : Watched(handler'[d], session'[d], user', held'[d])
  BY <1>2 DEF InquiryInv, Watched
<1>5. \A d \in Conns : Telling(handler'[d]) =>
        Tells(handler'[d], session'[d], account'[handler'[d].patronID], moved'[d])
  BY <1>2 DEF InquiryInv, Telling, Valid, Reads
<1> QED
  BY <1>1, <1>3, <1>4, <1>5 DEF InquiryInv

LEMMA LogsInKeeps == ASSUME InquiryInv, NEW c \in Conns, LogsIn(c) PROVE InquiryInv'
<1>1. PICK t \in Tenants, z \in Settings : session' = [session EXCEPT ![c] = MovedTo(session[c], t, z)]
  BY DEF LogsIn
<1>2. MovedTo(session[c], t, z) \in Session
  BY DEF InquiryInv, Typed, MovedTo, Session
<1> QED
  BY <1>1, <1>2, SessionChanges DEF LogsIn, At

LEMMA EndsSessionKeeps == ASSUME InquiryInv, NEW c \in Conns, EndsSession(c) PROVE InquiryInv'
<1>1. ClearPatron(session[c]) \in Session
  BY DEF InquiryInv, Typed, ClearPatron, Remember, Session
<1> QED
  BY <1>1, SessionChanges DEF EndsSession, At

LEMMA CirculatesKeeps == ASSUME InquiryInv, NEW c \in Conns, Circulates(c) PROVE InquiryInv'
<1>1. PICK b \in Barcodes : \E found \in Identified(session[c], b) :
        session' = [session EXCEPT ![c] = found.session]
  BY DEF Circulates
<1>2. PICK found \in Identified(session[c], b) : session' = [session EXCEPT ![c] = found.session]
  BY <1>1
<1>3. /\ handler[c].pc = "idle" /\ UNCHANGED <<user, account, today, handler, held, moved>>
      /\ session[c] \in Session
  BY DEF Circulates, At, InquiryInv, Typed
<1>4. found.session \in Session
  <2>1. CASE found.session = session[c]
    BY <1>3, <2>1
  <2>2. CASE found.session # session[c]
    <3>1. PICK p \in {GetUserByBarcode(session[c], b)} \ {NoPatron} :
            found = [patronID |-> p, session |-> Remember(session[c], p, b)]
      BY <2>2 DEF Identified
    <3>2. p \in Patrons /\ found.session = Remember(session[c], p, b)
      BY <1>3, <3>1, CardAssumption DEF GetUserByBarcode, Session
    <3> QED
      BY <1>3, <3>2 DEF Remember, Session
  <2> QED
    BY <2>1, <2>2
<1> QED
  BY <1>2, <1>3, <1>4, SessionChanges

LEMMA StaffEditsKeep == ASSUME InquiryInv, StaffEdits PROVE InquiryInv'
<1>1. PICK p \in Patrons, r \in UserRecords :
        /\ user' = [user EXCEPT ![p] = r] /\ Witnesses(p, r)
        /\ UNCHANGED <<account, today, session, handler, moved>>
  BY DEF StaffEdits
<1>2. r \in UserRecord
  BY InquiryAssumption
<1>3. /\ user' \in [Patrons -> UserRecord] /\ held' \in [Conns -> BOOLEAN]
      /\ \A d \in Conns : held[d] => held'[d]
      /\ \A d \in Conns : Watched(handler[d], session[d], user', held'[d])
  BY <1>1, <1>2, RecordChanges
<1>4. Typed'
  BY <1>1, <1>3 DEF InquiryInv, Typed
<1>5. ASSUME NEW d \in Conns PROVE held[d] \in BOOLEAN /\ held'[d] \in BOOLEAN
  BY <1>3 DEF InquiryInv, Typed
<1>6. \A d \in Conns : Asking(handler'[d], session'[d], held'[d])
  BY <1>1, <1>3, <1>5, MoreIsHeld DEF InquiryInv
<1>7. \A d \in Conns : Telling(handler'[d]) =>
        Tells(handler'[d], session'[d], account'[handler'[d].patronID], moved'[d])
  BY <1>1 DEF InquiryInv
<1> QED
  BY <1>1, <1>3, <1>4, <1>6, <1>7 DEF InquiryInv

(* The account of p changes, and the messages that ask about p know what of. *)
LEMMA AccountChangesKeep == ASSUME InquiryInv, AccountChanges PROVE InquiryInv'
<1>1. PICK p \in Patrons, a \in Accounts :
        /\ account' = [account EXCEPT ![p] = a]
        /\ moved' = [c \in Conns |->
             IF ~At(c, "idle") /\ GetUserByBarcode(session[c], handler[c].req.aa) = p
               THEN [x \in Things |-> Becomes(moved[c][x], account[p][x], a[x])]
               ELSE moved[c]]
  BY DEF AccountChanges
<1>2. UNCHANGED <<user, today, session, handler, held>>
  BY DEF AccountChanges
<1>3. Typed'
  <2>1. ASSUME NEW c \in Conns PROVE moved'[c] \in Changes
    <3>1. moved[c] \in Changes
      BY DEF InquiryInv, Typed
    <3>2. \A x \in Things : Becomes(moved[c][x], account[p][x], a[x]) \in {"same", "changed", "left"}
      BY <3>1 DEF Becomes, Changes
    <3> QED
      BY <1>1, <3>1, <3>2 DEF Changes
  <2>2. moved' \in [Conns -> Changes]
    BY <1>1, <2>1
  <2> QED
    BY <1>1, <1>2, <2>2 DEF InquiryInv, Typed
<1>4. ASSUME NEW c \in Conns, Telling(handler[c])
      PROVE  Tells(handler[c], session[c], account'[handler[c].patronID], moved'[c])
  <2> DEFINE h == handler[c]
  <2>1. /\ h \in Handler /\ Tells(h, session[c], account[h.patronID], moved[c])
        /\ h.patronID \in Patrons /\ h.patronID = GetUserByBarcode(session[c], h.req.aa)
    BY <1>4 DEF InquiryInv, Typed, Asking
  <2>2. h.pc # "idle"
    BY <1>4 DEF Telling, Valid, Reads
  <2>3. CASE h.patronID = p
    <3>1. account'[h.patronID] = a
      BY <1>1, <2>3 DEF InquiryInv, Typed
    <3>2. \A x \in Things : moved'[c][x] = Becomes(moved[c][x], account[h.patronID][x], a[x])
      BY <1>1, <2>1, <2>2, <2>3 DEF At
    <3> HIDE DEF h
    <3>3. Tells(h, session[c], a, moved'[c])
      BY <2>1, <3>2, TellsThroughChanges
    <3> QED
      BY <3>1, <3>3 DEF h
  <2>4. CASE h.patronID # p
    <3>1. account'[h.patronID] = account[h.patronID] /\ moved'[c] = moved[c]
      BY <1>1, <2>1, <2>4 DEF InquiryInv, Typed
    <3> QED
      BY <2>1, <3>1
  <2> QED
    BY <2>3, <2>4
<1> QED
  BY <1>2, <1>3, <1>4 DEF InquiryInv

LEMMA NextDayKeeps == ASSUME InquiryInv, NextDay PROVE InquiryInv'
<1>1. today' \in FirstDay..LastDay /\ UNCHANGED <<user, account, session, handler, held, moved>>
  BY InquiryAssumption DEF NextDay, InquiryInv, Typed
<1> QED
  BY <1>1 DEF InquiryInv, Typed

LEMMA StepInquiry == InquiryInv /\ [Next]_vars => InquiryInv'
<1> SUFFICES ASSUME InquiryInv, [Next]_vars PROVE InquiryInv'
  OBVIOUS
<1>1. ASSUME NEW c \in Conns, Step(c) PROVE InquiryInv'
  BY <1>1, ReceiveKeeps, LookupKeeps, GetsUserKeeps, PutsUserKeeps, RefetchKeeps,
     VerifiesPatronKeeps, GetsAccountKeeps, AnswersKeep, LogsInKeeps, EndsSessionKeeps,
     CirculatesKeeps DEF Step
<1>2. CASE UNCHANGED vars
  BY <1>2 DEF vars, InquiryInv, Typed
<1> QED
  BY <1>1, <1>2, StaffEditsKeep, AccountChangesKeep, NextDayKeeps DEF Next

---------------------------------------------------------------------------
(* The theorems. *)

(* The inductive invariant: what a message in progress knows of the patron  *)
(* it asks about, and of the record it is about to write                    *)
(* (patron_status.go:70-135 and its twin in 63).                            *)
THEOREM InquiryInvariant == Spec => []InquiryInv
BY StartsInquiry, StepInquiry, PTL DEF Spec

(* Every reachable state is type correct (the handlers of 23 and 63). *)
THEOREM InquiryTypes == Spec => []TypeOK
<1>1. InquiryInv => TypeOK
  BY DEF InquiryInv, Typed, Asking, Telling, Valid, Handler, TypeOK, InFlight, Changes, Reads
<1> QED
  BY <1>1, InquiryInvariant, PTL

(* A device is told BLY only of an account that was active at some moment   *)
(* of the message, and with the PIN or password that the tenant asks for    *)
(* (patron_status.go:79-117).                                               *)
THEOREM ValidAreEntitled == Spec => []ValidMeansEntitled
<1>1. InquiryInv => ValidMeansEntitled
  BY DEF InquiryInv, Asking, Telling, Valid, ValidMeansEntitled, At
<1> QED
  BY <1>1, InquiryInvariant, PTL

(* What a valid patron is told is true of what did not change while it was  *)
(* read, call after call; and a hold that is counted on the shelf and as    *)
(* waiting has left the shelf: for any account and any limit, whichever     *)
(* calls fail, whatever is not listed for want of a barcode                 *)
(* (patron_information.go:200-355, patron_status.go:146-180).               *)
THEOREM AnswersReportAccounts == Spec => []AnswerReportsAccount
<1>1. ASSUME InquiryInv, NEW c \in Conns, At(c, "answer"), handler[c].answer.valid
      PROVE  /\ Tells(handler[c], session[c], account[handler[c].patronID], moved[c])
             /\ Behind(handler[c]) = ReadsOf(handler[c].req.code)
             /\ handler[c].req.code \in {"23", "63"}
  <2>1. Telling(handler[c]) /\ handler[c].pc = "answer"
    BY <1>1 DEF At, Telling, Valid
  <2>2. handler[c].req.code \in {"23", "63"}
    BY <1>1, <2>1, MessageOf
  <2> QED
    BY <1>1, <2>1, <2>2, CallsEnd DEF InquiryInv
<1>2. ASSUME InquiryInv, NEW c \in Conns, At(c, "answer"), handler[c].answer.valid,
             NEW col \in Columns, handler[c].req.code = "63"
      PROVE  ListedBy(col) \in ReadsOf(handler[c].req.code)
  BY <1>2 DEF Columns, ListedBy, ReadFor, ReadsOf, Reads
<1>3. InquiryInv => AnswerReportsAccount
  <2> SUFFICES ASSUME InquiryInv, NEW c \in Conns, At(c, "answer"), handler[c].answer.valid
               PROVE  LET h == handler[c]
                          a == account[h.patronID]
                          got == ReadsOf(h.req.code) \ h.answer.failed
                      IN /\ \A col \in Columns :
                              IF ReadFor[col] \in got THEN Counts(col, h, session[c], a, moved[c])
                              ELSE h.answer.counted[col] = {}
                         /\ \A col \in Columns :
                              h.req.code = "63" /\ (ReadFor[col] = "loans" => "items" \in got) =>
                                Lists(col, h, session[c], a, moved[c])
                         /\ Denies(got, h, a, moved[c])
                         /\ \A x \in h.answer.counted["holds"] \cap h.answer.counted["unavailable"] :
                              moved[c][x] = "left"
    BY DEF AnswerReportsAccount
  <2> DEFINE h == handler[c]
             a == account[h.patronID]
             got == ReadsOf(h.req.code) \ h.answer.failed
  <2>1. /\ Tells(h, session[c], a, moved[c]) /\ Got(h) = got
        /\ Behind(h) = ReadsOf(h.req.code)
    BY <1>1 DEF Got
  <2>2. \A col \in Columns : h.req.code = "63" => ListedBy(col) \in Behind(h)
    BY <1>2, <2>1
  <2>3. h.req.code = "63" => "items" \in Behind(h)
    BY <2>1 DEF ReadsOf, Reads
  <2> HIDE DEF h, a
  <2>4. "items" \in Behind(h) => ("items" \in got <=> "items" \notin h.answer.failed)
    BY <2>1
  <2> HIDE DEF got
  <2>5. \A col \in Columns :
          IF ReadFor[col] \in got THEN Counts(col, h, session[c], a, moved[c])
          ELSE h.answer.counted[col] = {}
    BY <2>1 DEF Tells, CountTold
  <2>6. \A col \in Columns :
          h.req.code = "63" /\ (ReadFor[col] = "loans" => "items" \in got) =>
            Lists(col, h, session[c], a, moved[c])
    BY <2>1, <2>2, <2>3, <2>4 DEF Tells, ListTold
  <2>7. Denies(got, h, a, moved[c])
    BY <2>1 DEF Tells
  <2>8. \A x \in h.answer.counted["holds"] \cap h.answer.counted["unavailable"] : moved[c][x] = "left"
    BY <2>1 DEF Tells, ShelfTold
  <2> QED
    BY <2>5, <2>6, <2>7, <2>8 DEF h, a, got
<1> QED
  BY <1>3, InquiryInvariant, PTL

(* Only PutsUser writes a user record and moves a message. *)
LEMMA Writers ==
  ASSUME InquiryInv, [Next]_vars, NEW p \in Patrons, Puts(p)
  PROVE  \E c \in Conns :
           /\ Writer(c, p) /\ user'[p] = Updated(handler[c], session[c])
           /\ Asking(handler[c], session[c], held[c]) /\ handler[c] \in Handler
           /\ session[c].settings.renewal \in RenewalConfig
<1>1. handler' # handler /\ user' # user
  BY DEF Puts
<1>2. PICK c \in Conns : PutsUser(c)
  <2>1. ASSUME NEW c \in Conns, GetsAccount(c) PROVE user' = user
    <3>1. \A answer : Gets(c, answer) => user' = user
      BY DEF Gets
    <3>2. \A col, kind, labels : GetsHolds(c, col, kind, labels) => user' = user
      BY <3>1 DEF GetsHolds
    <3>3. GetsLoans(c) \/ GetsItems(c) \/ GetsFees(c) \/ GetsBlocks(c) \/ ReadFails(c) => user' = user
      BY <3>1 DEF GetsLoans, GetsItems, GetsFees, GetsBlocks, ReadFails
    <3> QED
      BY <2>1, <3>2, <3>3 DEF GetsAccount, GetsAvailable, GetsUnavailable
  <2>2. ASSUME NEW c \in Conns, Step(c), user' # user PROVE PutsUser(c)
    BY <2>1, <2>2 DEF Step, Receive, Lookup, GetsUser, Refetch, VerifiesPatron, Answers, LogsIn,
                      EndsSession, Circulates
  <2>3. ~StaffEdits /\ ~AccountChanges /\ ~NextDay /\ ~UNCHANGED vars
    BY <1>1 DEF StaffEdits, AccountChanges, NextDay, vars
  <2> QED
    BY <1>1, <2>2, <2>3 DEF Next
<1>3. /\ At(c, "put") /\ handler' = [handler EXCEPT ![c] = AfterRenewal(handler[c], session[c])]
      /\ user' = [user EXCEPT ![handler[c].patronID] = Updated(handler[c], session[c])]
  BY <1>1, <1>2 DEF PutsUser
<1>4. handler[c].patronID = p /\ user'[p] = Updated(handler[c], session[c])
  BY <1>3 DEF Puts, InquiryInv, Typed
<1>5. handler'[c] # handler[c]
  BY <1>1, <1>3 DEF InquiryInv, Typed
<1>6. Asking(handler[c], session[c], held[c])
  BY DEF InquiryInv
<1> QED
  BY <1>3, <1>4, <1>5, <1>6, MessageOf DEF Writer, At

(* Where the extension is at least as long as the window, no expiration     *)
(* date is brought forward, in any calendar and with any lengths of either, *)
(* unless it was changed since the lookup (renewal/service.go:27-138,       *)
(* dateutil.go:11-109).                                                     *)
THEOREM DatesAreNotShortened == Spec => RenewalNeverShortens
<1>1. ASSUME InquiryInv, [Next]_vars, NEW p \in Patrons, Puts(p)
      PROVE  \E c \in Conns :
               /\ Writer(c, p)
               /\ ExtendsBeyondWindow(session[c].settings.renewal) =>
                    \/ handler[c].seen.expires # user[p].expires
                    \/ user'[p].expires >= user[p].expires
  <2>1. PICK c \in Conns :
           /\ Writer(c, p) /\ user'[p] = Updated(handler[c], session[c])
           /\ Asking(handler[c], session[c], held[c]) /\ handler[c] \in Handler
           /\ session[c].settings.renewal \in RenewalConfig
    BY <1>1, Writers
  <2>2. handler[c].pc = "put"
    BY <2>1 DEF Writer, At
  <2>3. user'[p].expires = handler[c].until
    BY <2>1, <2>2, UpdatedRecord DEF Asking
  <2> QED
    BY <2>1, <2>2, <2>3 DEF Asking
<1>2. InquiryInv /\ [Next]_vars =>
        [\A p \in Patrons : Puts(p) =>
           \E c \in Conns :
             /\ Writer(c, p)
             /\ ExtendsBeyondWindow(session[c].settings.renewal) =>
                  \/ handler[c].seen.expires # user[p].expires
                  \/ user'[p].expires >= user[p].expires]_vars
  BY <1>1
<1> QED
  BY <1>2, InquiryInvariant, PTL DEF Spec, RenewalNeverShortens

(* The renewal undoes nothing that was written before it read the record,   *)
(* and activates an account only where expired ones are extended            *)
(* (folio/patron.go:182-220).                                               *)
THEOREM EditsSurvive == Spec => EditsSurviveRenewal
<1>1. ASSUME InquiryInv, [Next]_vars, NEW p \in Patrons, Puts(p)
      PROVE  \E c \in Conns :
               /\ Writer(c, p)
               /\ \/ handler[c].fetched # user[p]
                  \/ /\ user'[p].note = user[p].note /\ user'[p].group = user[p].group
                     /\ user'[p].active # user[p].active => ExtendsExpired(session[c])
  <2>1. PICK c \in Conns :
           /\ Writer(c, p) /\ user'[p] = Updated(handler[c], session[c])
           /\ Asking(handler[c], session[c], held[c]) /\ handler[c] \in Handler
           /\ session[c].settings.renewal \in RenewalConfig
    BY <1>1, Writers
  <2>2. handler[c].pc = "put"
    BY <2>1 DEF Writer, At
  <2>3. /\ user'[p].note = handler[c].fetched.note /\ user'[p].group = handler[c].fetched.group
        /\ user'[p].active =
             (handler[c].fetched.active \/ session[c].settings.renewal.extendExpired)
    BY <2>1, <2>2, UpdatedRecord DEF Asking
  <2>4. user[p].active \in BOOLEAN
    BY <1>1 DEF InquiryInv, Typed, UserRecord
  <2>5. session[c].settings.renewal.enabled
    BY <2>1, <2>2 DEF Asking
  <2>6. \/ handler[c].fetched # user[p]
        \/ /\ user'[p].note = user[p].note /\ user'[p].group = user[p].group
           /\ user'[p].active # user[p].active => ExtendsExpired(session[c])
    BY <2>3, <2>4, <2>5 DEF ExtendsExpired
  <2> QED
    BY <2>1, <2>6
<1>2. InquiryInv /\ [Next]_vars =>
        [\A p \in Patrons : Puts(p) =>
           \E c \in Conns :
             /\ Writer(c, p)
             /\ \/ handler[c].fetched # user[p]
                \/ /\ user'[p].note = user[p].note /\ user'[p].group = user[p].group
                   /\ user'[p].active # user[p].active => ExtendsExpired(session[c])]_vars
  BY <1>1
<1> QED
  BY <1>2, InquiryInvariant, PTL DEF Spec, EditsSurviveRenewal
===========================================================================
