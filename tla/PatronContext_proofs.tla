------------------------ MODULE PatronContext_proofs ------------------------
(***************************************************************************)
(* What the proofs of Circulation, FeePayment and Inquiry share: lemmas    *)
(* about the patron that a session remembers, and what adding up a finite  *)
(* number of amounts gives.  SumFunctionOnSet is defined by recursion over *)
(* subsets, so that its recursion has to be shown to have one solution     *)
(* before anything can be said of its value.  Induction over finite sets   *)
(* is done with least counterexamples.                                     *)
(***************************************************************************)
EXTENDS PatronContext, Functions, FiniteSetTheorems, WellFoundedInduction, TLAPS

(* What a session remembers was once looked up: some tenant, not always the *)
(* one the device is logged in to now, gave that card to that patron.       *)
Known(s) ==
  s.patronID # NoPatron =>
    /\ s.patronBarcode \in Barcodes
    /\ \E t \in Tenants : Card[t][s.patronBarcode] = s.patronID

(* A new session remembers nobody. *)
LEMMA NewIsKnown ==
  ASSUME NEW s \in NewSessions
  PROVE  s \in Session /\ Known(s)
BY DEF NewSessions, Known

(* 35 forgets the patron. *)
LEMMA ClearedIsKnown ==
  ASSUME NEW s \in Session
  PROVE  ClearPatron(s) \in Session /\ Known(ClearPatron(s))
BY DEF Session, ClearPatron, Remember, Known

(* 93 takes what the session remembers to another tenant. *)
LEMMA MovedIsKnown ==
  ASSUME NEW s \in Session, Known(s), NEW t \in Tenants, NEW z \in Settings
  PROVE  MovedTo(s, t, z) \in Session /\ Known(MovedTo(s, t, z))
BY DEF Session, MovedTo, Known

(* Whoever is identified is remembered by the card presented, and the tenant *)
(* of the device does not change.                                           *)
LEMMA IdentifiedIsKnown ==
  ASSUME NEW s \in Session, Known(s), NEW b \in Barcodes, NEW found \in Identified(s, b)
  PROVE  /\ found.session \in Session /\ Known(found.session)
         /\ found.patronID \in Patrons \cup {NoPatron}
         /\ found.patronID # NoPatron =>
              found.session.patronID = found.patronID /\ found.session.patronBarcode = b
<1>1. CASE Cached(s, b)
  BY <1>1 DEF Identified, Cached, Session
<1>2. CASE ~Cached(s, b)
  <2>1. CASE found = [patronID |-> NoPatron, session |-> s]
    BY <2>1
  <2>2. ASSUME NEW p \in {GetUserByBarcode(s, b)} \ {NoPatron},
               found = [patronID |-> p, session |-> Remember(s, p, b)]
        PROVE  /\ found.session \in Session /\ Known(found.session)
               /\ found.patronID \in Patrons
               /\ found.session.patronID = found.patronID /\ found.session.patronBarcode = b
    <3>1. s.tenant \in Tenants /\ p = Card[s.tenant][b] /\ p \in Patrons
      BY <2>2, CardAssumption DEF Session, GetUserByBarcode
    <3>2. /\ Remember(s, p, b) \in Session
          /\ Remember(s, p, b).patronID = p /\ Remember(s, p, b).patronBarcode = b
      BY <3>1 DEF Session, Remember
    <3> QED
      BY <2>2, <3>1, <3>2 DEF Known
  <2> QED
    BY <1>2, <2>1, <2>2 DEF Identified
<1> QED
  BY <1>1, <1>2

(* A verification that comes out verified has verified. *)
LEMMA VerifiedVerifies ==
  ASSUME NEW s, NEW p, NEW b, NEW secret, TRUE \in Verified(s, p, b, secret)
  PROVE  Verifies(s, p, b, secret)
BY DEF Verified, Verifies

(* A remembered patron who belongs to the device's tenant holds the card    *)
(* there, too: ids are unique and a card of another tenant names another    *)
(* patron.                                                                  *)
LEMMA HomePatronHoldsCard ==
  ASSUME NEW s \in Session, Known(s), s.patronID # NoPatron, Home[s.patronID] = s.tenant
  PROVE  Card[s.tenant][s.patronBarcode] = s.patronID
BY CardAssumption DEF Known, Session

(* Whoever holds the card in the device's tenant belongs to that tenant.    *)
LEMMA HolderIsAtHome ==
  ASSUME NEW s \in Session, NEW b \in Barcodes, GetUserByBarcode(s, b) # NoPatron
  PROVE  /\ GetUserByBarcode(s, b) \in Patrons
         /\ Home[GetUserByBarcode(s, b)] = s.tenant
BY CardAssumption DEF GetUserByBarcode, Session

(* What was verified is the secret of the holder of the card, if anything   *)
(* is verified: a PIN proves a patron of this tenant, who is then the       *)
(* holder; a password is checked against the card itself.                   *)
LEMMA VerifiedIsHolder ==
  ASSUME NEW s \in Session, Known(s), s.patronID # NoPatron, NEW secret,
         Verifies(s, s.patronID, s.patronBarcode, secret)
  PROVE  s.settings.verify = "none" \/ secret = Card[s.tenant][s.patronBarcode]
BY HomePatronHoldsCard DEF Verifies
---------------------------------------------------------------------------
(* Sums. *)

Pick(s) == CHOOSE x \in s : TRUE

(* g is the function that the recursion of SumFunctionOnSet(f, S) chooses.  *)
IsSum(g, f, S) ==
  g = [s \in SUBSET S |-> IF s = {} THEN 0 ELSE f[Pick(s)] + g[s \ {Pick(s)}]]

(* A set of finite sets has a minimal one, if it has any. *)
LEMMA Least ==
  ASSUME NEW S, NEW D, D \subseteq FiniteSubsetsOf(S), D # {}
  PROVE  \E s \in D : \A t \in D : ~(t \subseteq s /\ t # s)
<1>1. \E s \in D : \A t \in D : ~(<<t, s>> \in StrictSubsetOrdering(S))
  BY FS_StrictSubsetOrderingWellFounded, WFMin
<1> QED
  BY <1>1 DEF FiniteSubsetsOf, StrictSubsetOrdering

(* A finite set of numbers has a least one, if it has any. *)
LEMMA LeastNumber ==
  ASSUME NEW S, S # {}, S \subseteq Nat, IsFiniteSet(S)
  PROVE  \E m \in S : \A i \in S : m <= i
<1> DEFINE upto(i) == {j \in S : j <= i}
           D == {upto(i) : i \in S}
<1>1. D \subseteq FiniteSubsetsOf(S) /\ D # {}
  <2>1. ASSUME NEW i \in S PROVE IsFiniteSet(upto(i)) /\ upto(i) \in SUBSET S
    BY FS_Subset
  <2> QED
    BY <2>1 DEF FiniteSubsetsOf
<1>2. PICK s \in D : \A t \in D : ~(t \subseteq s /\ t # s)
  <2> HIDE DEF D
  <2> QED
    BY <1>1, Least
<1>3. PICK m \in S : s = upto(m)
  OBVIOUS
<1>4. ASSUME NEW i \in S PROVE m <= i
  <2>1. SUFFICES ASSUME i < m PROVE FALSE
    OBVIOUS
  <2>2. i \in Nat /\ m \in Nat /\ \A j \in S : j \in Nat
    OBVIOUS
  <2>3. ASSUME NEW j \in S, j <= i PROVE j <= m
    BY <2>1, <2>2, <2>3
  <2>4. m \in upto(m) /\ m \notin upto(i)
    BY <2>1, <2>2
  <2>5. upto(i) \subseteq upto(m)
    BY <2>3
  <2> QED
    BY <1>2, <1>3, <2>4, <2>5
<1> QED
  BY <1>4

(* The definition of the library, with its recursion named. *)
LEMMA Unfolds ==
  ASSUME NEW f, NEW S
  PROVE  SumFunctionOnSet(f, S) = (CHOOSE g : IsSum(g, f, S))[S]
BY DEF SumFunctionOnSet, FoldFunctionOnSet, MapThenFoldSet, IsSum, Pick

(* Two recursions agree wherever both are defined. *)
LEMMA Unique ==
  ASSUME NEW f, NEW S, NEW T, NEW g, NEW h, IsSum(g, f, S), IsSum(h, f, T),
         NEW s, s \subseteq S, s \subseteq T, IsFiniteSet(s)
  PROVE  g[s] = h[s]
<1> DEFINE D == {t \in FiniteSubsetsOf(S) : t \subseteq T /\ g[t] # h[t]}
<1> SUFFICES ASSUME D # {} PROVE FALSE
  BY DEF FiniteSubsetsOf
<1>1. PICK t \in D : \A u \in D : ~(u \subseteq t /\ u # t)
  <2>1. D \subseteq FiniteSubsetsOf(S)
    OBVIOUS
  <2> HIDE DEF D
  <2> QED
    BY <2>1, Least
<1>2. t \in SUBSET S /\ t \in SUBSET T /\ IsFiniteSet(t)
  BY DEF FiniteSubsetsOf
<1>3. /\ g[t] = IF t = {} THEN 0 ELSE f[Pick(t)] + g[t \ {Pick(t)}]
      /\ h[t] = IF t = {} THEN 0 ELSE f[Pick(t)] + h[t \ {Pick(t)}]
  BY <1>2 DEF IsSum
<1>4. ASSUME t # {} PROVE g[t \ {Pick(t)}] = h[t \ {Pick(t)}]
  <2>1. Pick(t) \in t
    BY <1>4 DEF Pick
  <2>2. t \ {Pick(t)} \in FiniteSubsetsOf(S) /\ t \ {Pick(t)} \subseteq T
    BY <1>2, FS_RemoveElement DEF FiniteSubsetsOf
  <2> QED
    BY <1>1, <2>1, <2>2
<1> QED
  BY <1>3, <1>4

(* A finite set can be summed over: a smallest one that cannot would have   *)
(* its recursion pieced together from those of its subsets.                *)
LEMMA Exists ==
  ASSUME NEW f, NEW S, IsFiniteSet(S)
  PROVE  \E g : IsSum(g, f, S)
<1> DEFINE D == {t \in FiniteSubsetsOf(S) : ~ \E g : IsSum(g, f, t)}
<1> SUFFICES ASSUME D # {} PROVE FALSE
  BY DEF FiniteSubsetsOf
<1>1. PICK t \in D : \A u \in D : ~(u \subseteq t /\ u # t)
  <2>1. D \subseteq FiniteSubsetsOf(S)
    OBVIOUS
  <2> HIDE DEF D
  <2> QED
    BY <2>1, Least
<1>2. /\ t \in SUBSET S /\ IsFiniteSet(t)
      /\ ~ \E g : IsSum(g, f, t)
  BY DEF FiniteSubsetsOf
<1>3. ASSUME NEW u \in SUBSET t, u # t
      PROVE  IsFiniteSet(u) /\ \E g : IsSum(g, f, u)
  <2>1. IsFiniteSet(u) /\ u \in FiniteSubsetsOf(S)
    BY <1>2, FS_Subset DEF FiniteSubsetsOf
  <2> QED
    BY <1>1, <1>3, <2>1
<1> DEFINE G(u) == CHOOSE g : IsSum(g, f, u)
           total == [u \in SUBSET t |-> G(u)[u]]
           g == [u \in SUBSET t |->
                   IF u = {} THEN 0 ELSE f[Pick(u)] + total[u \ {Pick(u)}]]
<1>4. ASSUME NEW u \in SUBSET t, u # t
      PROVE  IsSum(G(u), f, u)
  BY <1>3, <1>4
<1>5. ASSUME NEW u \in SUBSET t, u # t
      PROVE  total[u] = IF u = {} THEN 0 ELSE f[Pick(u)] + total[u \ {Pick(u)}]
  <2>1. IsSum(G(u), f, u)
    BY <1>4, <1>5
  <2> HIDE DEF G
  <2>2. G(u)[u] = IF u = {} THEN 0 ELSE f[Pick(u)] + G(u)[u \ {Pick(u)}]
    BY <2>1 DEF IsSum
  <2>3. ASSUME u # {} PROVE G(u)[u \ {Pick(u)}] = total[u \ {Pick(u)}]
    <3> DEFINE v == u \ {Pick(u)}
    <3>1. Pick(u) \in u
      BY <2>3 DEF Pick
    <3>2. v \in SUBSET t /\ v # t /\ v \subseteq u
      BY <3>1, <1>5
    <3>3. IsSum(G(v), f, v) /\ IsFiniteSet(v)
      BY <3>2, <1>4, <1>3
    <3> HIDE DEF v
    <3>4. G(u)[v] = G(v)[v]
      BY <3>2, <3>3, <2>1, Unique
    <3> QED
      BY <3>2, <3>4 DEF v
  <2> QED
    BY <2>2, <2>3
<1>6. ASSUME NEW u \in SUBSET t, u # t
      PROVE  g[u] = total[u]
  BY <1>5, <1>6
<1>7. \A u \in SUBSET t : u # {} => u \ {Pick(u)} \in SUBSET t /\ u \ {Pick(u)} # t
  BY DEF Pick
<1>8. IsSum(g, f, t)
  <2>1. ASSUME NEW u \in SUBSET t
        PROVE  g[u] = IF u = {} THEN 0 ELSE f[Pick(u)] + g[u \ {Pick(u)}]
    <3>1. g[u] = IF u = {} THEN 0 ELSE f[Pick(u)] + total[u \ {Pick(u)}]
      OBVIOUS
    <3> HIDE DEF g, total
    <3> QED
      BY <3>1, <1>6, <1>7
  <2>2. DOMAIN g = SUBSET t /\ g = [u \in DOMAIN g |-> g[u]]
    OBVIOUS
  <2> HIDE DEF g
  <2> QED
    BY <2>1, <2>2 DEF IsSum
<1> QED
  BY <1>8, <1>2

(* What SumFunctionOnSet computes. *)
LEMMA SumUnfolds ==
  ASSUME NEW f, NEW S, IsFiniteSet(S), NEW T \in SUBSET S
  PROVE  SumFunctionOnSet(f, T) =
           IF T = {} THEN 0 ELSE f[Pick(T)] + SumFunctionOnSet(f, T \ {Pick(T)})
<1> DEFINE G(u) == CHOOSE g : IsSum(g, f, u)
           u == T \ {Pick(T)}
<1>1. IsFiniteSet(T) /\ IsFiniteSet(u)
  BY FS_Subset, FS_RemoveElement
<1>2. IsSum(G(T), f, T) /\ IsSum(G(u), f, u)
  BY <1>1, Exists
<1>3. SumFunctionOnSet(f, T) = G(T)[T] /\ SumFunctionOnSet(f, u) = G(u)[u]
  BY Unfolds
<1> HIDE DEF G
<1>4. G(T)[T] = IF T = {} THEN 0 ELSE f[Pick(T)] + G(T)[u]
  BY <1>2 DEF IsSum
<1>5. G(T)[u] = G(u)[u]
  <2> HIDE DEF u
  <2> QED
    BY <1>1, <1>2, Unique DEF u
<1> QED
  BY <1>3, <1>4, <1>5

(* Amounts add up to an amount, no smaller than any of them. *)
LEMMA SumBounds ==
  ASSUME NEW S, IsFiniteSet(S), NEW f \in [S -> Nat]
  PROVE  /\ SumFunctionOnSet(f, S) \in Nat
         /\ \A x \in S : f[x] <= SumFunctionOnSet(f, S)
<1> DEFINE Good(t) == /\ SumFunctionOnSet(f, t) \in Nat
                      /\ \A x \in t : f[x] <= SumFunctionOnSet(f, t)
           D == {t \in FiniteSubsetsOf(S) : ~Good(t)}
<1> SUFFICES ASSUME D # {} PROVE FALSE
  BY DEF FiniteSubsetsOf
<1>1. PICK t \in D : \A u \in D : ~(u \subseteq t /\ u # t)
  <2>1. D \subseteq FiniteSubsetsOf(S)
    OBVIOUS
  <2> HIDE DEF D
  <2> QED
    BY <2>1, Least
<1>2. t \in SUBSET S /\ IsFiniteSet(t) /\ ~Good(t)
  BY DEF FiniteSubsetsOf
<1> DEFINE u == t \ {Pick(t)}
<1>3. SumFunctionOnSet(f, t) = IF t = {} THEN 0 ELSE f[Pick(t)] + SumFunctionOnSet(f, u)
  BY <1>2, SumUnfolds
<1>4. t # {}
  BY <1>2, <1>3
<1>5. Pick(t) \in t /\ f[Pick(t)] \in Nat
  BY <1>2, <1>4 DEF Pick
<1>6. Good(u)
  <2>1. u \in FiniteSubsetsOf(S) /\ u \subseteq t /\ u # t
    BY <1>2, <1>5, FS_RemoveElement DEF FiniteSubsetsOf
  <2> HIDE DEF u, Good
  <2> QED
    BY <1>1, <2>1
<1>7. \A x \in t : x # Pick(t) => x \in u
  OBVIOUS
<1>8. \A x \in t : f[x] \in Nat
  BY <1>2
<1> HIDE DEF u
<1> QED
  BY <1>2, <1>3, <1>4, <1>5, <1>6, <1>7, <1>8

(* The same amount for every member of L, and nothing for the others. *)
LEMMA SumOfEqualShares ==
  ASSUME NEW S, IsFiniteSet(S), NEW L \in SUBSET S, NEW k \in Nat, NEW f,
         \A x \in S : f[x] = IF x \in L THEN k ELSE 0
  PROVE  SumFunctionOnSet(f, S) = Cardinality(L) * k
<1> DEFINE Good(t) == SumFunctionOnSet(f, t) = Cardinality(L \cap t) * k
           D == {t \in FiniteSubsetsOf(S) : ~Good(t)}
<1> SUFFICES ASSUME D # {} PROVE FALSE
  <2>1. L \cap S = L
    OBVIOUS
  <2> QED
    BY <2>1 DEF FiniteSubsetsOf
<1>1. PICK t \in D : \A u \in D : ~(u \subseteq t /\ u # t)
  <2>1. D \subseteq FiniteSubsetsOf(S)
    OBVIOUS
  <2> HIDE DEF D
  <2> QED
    BY <2>1, Least
<1>2. t \in SUBSET S /\ IsFiniteSet(t) /\ ~Good(t)
  BY DEF FiniteSubsetsOf
<1> DEFINE p == Pick(t)
           u == t \ {p}
<1>3. SumFunctionOnSet(f, t) = IF t = {} THEN 0 ELSE f[p] + SumFunctionOnSet(f, u)
  BY <1>2, SumUnfolds
<1>4. t # {}
  <2>1. SUFFICES ASSUME t = {} PROVE FALSE
    OBVIOUS
  <2>2. L \cap t = {} /\ Cardinality(L \cap t) = 0
    BY <2>1, FS_EmptySet
  <2> QED
    BY <1>2, <1>3, <2>1, <2>2
<1>5. p \in t /\ p \in S
  BY <1>2, <1>4 DEF Pick
<1> HIDE DEF p
<1>6. SumFunctionOnSet(f, u) = Cardinality(L \cap u) * k
  <2>1. u \in FiniteSubsetsOf(S) /\ u \subseteq t /\ u # t
    BY <1>2, <1>5, FS_RemoveElement DEF FiniteSubsetsOf
  <2>2. Good(u)
    <3> HIDE DEF u, Good
    <3> QED
      BY <1>1, <2>1
  <2> QED
    BY <2>2
<1>7. /\ Cardinality(L \cap u) \in Nat
      /\ Cardinality(L \cap t) = Cardinality(L \cap u) + (IF p \in L THEN 1 ELSE 0)
  <2>1. IsFiniteSet(L \cap t) /\ IsFiniteSet(L \cap u) /\ L \cap u = (L \cap t) \ {p}
    BY <1>2, FS_Subset, FS_RemoveElement
  <2>2. Cardinality(L \cap t) \in Nat /\ Cardinality(L \cap u) \in Nat
    BY <2>1, FS_CardinalityType
  <2>3. Cardinality(L \cap u) =
          IF p \in L \cap t THEN Cardinality(L \cap t) - 1 ELSE Cardinality(L \cap t)
    BY <2>1, FS_RemoveElement
  <2> QED
    BY <2>2, <2>3, <1>5
<1>8. f[p] = IF p \in L THEN k ELSE 0
  BY <1>5
<1> DEFINE n == Cardinality(L \cap u)
<1>9. SumFunctionOnSet(f, t) = (IF p \in L THEN k ELSE 0) + n * k
  BY <1>3, <1>4, <1>6, <1>8
<1>10. Cardinality(L \cap t) * k = (IF p \in L THEN k ELSE 0) + n * k
  <2>1. n \in Nat /\ Cardinality(L \cap t) = n + (IF p \in L THEN 1 ELSE 0)
    BY <1>7
  <2> HIDE DEF n
  <2>2. (n + 1) * k = k + n * k
    BY <2>1
  <2> QED
    BY <2>1, <2>2
<1> QED
  BY <1>2, <1>9, <1>10
===========================================================================
