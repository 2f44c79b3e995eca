-------------------------- MODULE ClusterLocksProofs --------------------------
(***************************************************************************)
(* Proofs about ClusterLocks, for every finite set of processes, every     *)
(* rendezvous hash and any number of calls and faults.                     *)
(***************************************************************************)
EXTENDS ClusterLocks, TLAPS, FiniteSetTheorems, WellFoundedInduction

-----------------------------------------------------------------------------
(* Induction over the naturals, for a set instead of a predicate, and what *)
(* it shows of Without.                                                    *)

\* The elements of a sequence, and a sequence that has none twice.
Members(s) == {s[i] : i \in 1..Len(s)}
Distinct(s) == \A i, j \in 1..Len(s) : s[i] = s[j] => i = j

\* A set that has 0 and the successor of each of its naturals has them all.
LEMMA NatSetInduction ==
  ASSUME NEW S, 0 \in S, \A n \in Nat : n \in S => n + 1 \in S
  PROVE  \A n \in Nat : n \in S
  <1> DEFINE T == Nat \ S
  <1> SUFFICES ASSUME T # {} PROVE FALSE
    OBVIOUS
  <1>1. PICK x \in T : \A y \in T : ~(<<y, x>> \in OpToRel(<, Nat))
    <2> HIDE DEF T
    <2>1. T \subseteq Nat BY DEF T
    <2> QED BY WFMin, NatLessThanWellFounded, <2>1
  <1>2. x \in Nat /\ x # 0 /\ x - 1 \in Nat /\ (x - 1) + 1 = x
    OBVIOUS
  <1>3. x - 1 \in T
    BY <1>2
  <1>4. <<x - 1, x>> \in OpToRel(<, Nat)
    BY <1>2 DEF OpToRel
  <1> QED BY <1>1, <1>3, <1>4

\* Appending adds one member, and a new one leaves the members distinct.
LEMMA AppendMembers ==
  ASSUME NEW S, NEW s \in Seq(S), NEW x \in S
  PROVE  /\ Members(Append(s, x)) = Members(s) \cup {x}
         /\ Distinct(s) /\ x \notin Members(s) => Distinct(Append(s, x))
  <1> DEFINE t == Append(s, x)
  <1>1. /\ Len(s) \in Nat /\ Len(t) = Len(s) + 1 /\ t[Len(s) + 1] = x
        /\ \A i \in 1..Len(s) : t[i] = s[i]
    OBVIOUS
  <1> HIDE DEF t
  <1>2. Members(t) = Members(s) \cup {x}
    BY <1>1 DEF Members
  <1>3. Distinct(s) /\ x \notin Members(s) => Distinct(t)
    BY <1>1 DEF Members, Distinct
  <1> QED BY <1>2, <1>3 DEF t

\* Only the empty sequence has no members.
LEMMA EmptyMembers == ASSUME NEW S, NEW s \in Seq(S) PROVE Members(s) = {} <=> s = <<>>
  <1>1. s # <<>> => s[1] \in Members(s)
    <2>1. s # <<>> => 1 \in 1..Len(s)
      OBVIOUS
    <2> QED BY <2>1 DEF Members
  <1>2. s = <<>> => Members(s) = {}
    BY DEF Members
  <1> QED BY <1>1, <1>2

\* f computes Without(q, gone) from left to right.
Sieves(f, S, q, gone) ==
    /\ f \in [0..Len(q) -> Seq(S)]
    /\ f[0] = <<>>
    /\ \A i \in 1..Len(q) : f[i] = IF q[i] \in gone THEN f[i-1] ELSE Append(f[i-1], q[i])
    /\ Without(q, gone) = f[Len(q)]

\* The recursive function in Without exists.
LEMMA WithoutDef ==
  ASSUME NEW S, NEW q \in Seq(S), NEW gone
  PROVE  \E f : Sieves(f, S, q, gone)
  <1> DEFINE Step(s, i) == IF q[i] \in gone THEN s ELSE Append(s, q[i])
             Good(f, n) == /\ f \in [0..n -> Seq(S)] /\ f[0] = <<>>
                           /\ \A i \in 1..n : f[i] = Step(f[i-1], i)
             Upto(n) == \E f : Good(f, n)
             I == {n \in Nat : n <= Len(q) => Upto(n)}
  <1>0. ASSUME NEW s \in Seq(S), NEW i \in 1..Len(q) PROVE Step(s, i) \in Seq(S)
    OBVIOUS
  <1>1. Good([i \in 0..0 |-> <<>>], 0)
    OBVIOUS
  <1>2. ASSUME NEW n \in Nat, n + 1 <= Len(q), NEW f, Good(f, n)
        PROVE  Good([i \in 0..(n+1) |-> IF i = n + 1 THEN Step(f[n], n + 1) ELSE f[i]], n + 1)
    <2> DEFINE x == Step(f[n], n + 1)
               g == [i \in 0..(n+1) |-> IF i = n + 1 THEN x ELSE f[i]]
    <2>1. x \in Seq(S)
      <3>1. f[n] \in Seq(S) /\ n + 1 \in 1..Len(q)
        BY <1>2
      <3> QED BY <1>0, <3>1
    <2>2. x = Step(f[n], n + 1)
      OBVIOUS
    <2> HIDE DEF x, Step
    <2>3. g \in [0..(n+1) -> Seq(S)] /\ g[0] = <<>>
      BY <1>2, <2>1
    <2>4. ASSUME NEW i \in 1..(n+1) PROVE g[i] = Step(g[i-1], i)
      <3>1. CASE i = n + 1
        BY <3>1, <2>2
      <3>2. CASE i # n + 1
        <4>1. i \in 1..n /\ g[i] = f[i] /\ g[i-1] = f[i-1]
          BY <3>2
        <4> QED BY <4>1, <1>2
      <3> QED BY <3>1, <3>2
    <2> QED BY <2>3, <2>4 DEF x
  <1> HIDE DEF Good, Step
  <1>3. 0 \in I
    BY <1>1
  <1>4. ASSUME NEW n \in Nat, n \in I PROVE n + 1 \in I
    <2> SUFFICES ASSUME n + 1 <= Len(q) PROVE Upto(n + 1)
      OBVIOUS
    <2>1. n <= Len(q)
      OBVIOUS
    <2>2. PICK f : Good(f, n)
      BY <1>4, <2>1
    <2> QED BY <1>2, <2>2
  <1>5. Upto(Len(q))
    <2> HIDE DEF I, Upto
    <2>1. Len(q) \in I BY <1>3, <1>4, NatSetInduction
    <2> QED BY <2>1 DEF I
  <1>6. PICK f : Good(f, Len(q))
    BY <1>5
  <1> DEFINE Body(g) == [i \in 0..Len(q) |-> IF i = 0 THEN <<>> ELSE Step(g[i-1], i)]
             kept == CHOOSE g : g = Body(g)
  <1>7. f = Body(f)
    BY <1>6 DEF Good
  <1>8. kept = Body(kept)
    <2> HIDE DEF Body
    <2> QED BY <1>7
  <1>9. Without(q, gone) = kept[Len(q)]
    BY DEF Without, Step
  <1> HIDE DEF kept
  <1> DEFINE J == {n \in Nat : n <= Len(q) => kept[n] = f[n]}
  <1>10. 0 \in J
    BY <1>8, <1>7
  <1>11. ASSUME NEW n \in Nat, n \in J PROVE n + 1 \in J
    <2> SUFFICES ASSUME n + 1 <= Len(q) PROVE kept[n + 1] = f[n + 1]
      OBVIOUS
    <2>1. n + 1 \in 0..Len(q) /\ n + 1 # 0 /\ (n + 1) - 1 = n /\ kept[n] = f[n]
      BY <1>11
    <2>2. kept[n + 1] = Step(kept[n], n + 1)
      BY <1>8, <2>1
    <2>3. f[n + 1] = Step(f[n], n + 1)
      BY <1>7, <2>1
    <2> QED BY <2>1, <2>2, <2>3
  <1>12. Len(q) \in J
    <2> HIDE DEF J
    <2> QED BY <1>10, <1>11, NatSetInduction
  <1>13. Without(q, gone) = f[Len(q)]
    BY <1>9, <1>12
  <1> QED BY <1>6, <1>13 DEF Good, Step, Sieves

\* Without takes the members in `gone` out, and no others.
LEMMA WithoutProperties ==
  ASSUME NEW S, NEW q \in Seq(S), NEW gone
  PROVE  /\ Without(q, gone) \in Seq(S)
         /\ Members(Without(q, gone)) = Members(q) \ gone
         /\ Distinct(q) => Distinct(Without(q, gone))
  <1>1. PICK f : Sieves(f, S, q, gone)
    BY WithoutDef
  <1> DEFINE Before(n) == {q[i] : i \in 1..n}
             Good(n) == /\ Members(f[n]) = Before(n) \ gone
                        /\ Distinct(q) => Distinct(f[n])
             I == {n \in Nat : n <= Len(q) => Good(n)}
  <1>3. Good(0)
    BY <1>1 DEF Members, Distinct, Sieves
  <1>4. ASSUME NEW n \in Nat, n + 1 <= Len(q), Good(n) PROVE Good(n + 1)
    <2> DEFINE x == q[n + 1]
    <2>1. /\ f[n] \in Seq(S) /\ x \in S
          /\ f[n + 1] = IF x \in gone THEN f[n] ELSE Append(f[n], x)
      BY <1>1, <1>4 DEF Sieves
    <2>2. Before(n + 1) = Before(n) \cup {x}
      OBVIOUS
    <2>3. Distinct(q) => x \notin Before(n)
      BY <1>4 DEF Distinct
    <2> HIDE DEF Before, x
    <2> QED BY AppendMembers, <1>4, <2>1, <2>2, <2>3
  <1>5. Good(Len(q))
    <2> HIDE DEF Good
    <2>1. 0 \in I BY <1>3
    <2>2. ASSUME NEW n \in Nat, n \in I PROVE n + 1 \in I
      BY <1>4, <2>2
    <2>3. Len(q) \in I
      <3> HIDE DEF I
      <3> QED BY <2>1, <2>2, NatSetInduction
    <2> QED BY <2>3
  <1>6. Before(Len(q)) = Members(q)
    BY DEF Members
  <1>7. Without(q, gone) = f[Len(q)] /\ f[Len(q)] \in Seq(S)
    BY <1>1 DEF Sieves
  <1> HIDE DEF Before
  <1> QED BY <1>5, <1>6, <1>7
-----------------------------------------------------------------------------
(* Coordinators.                                                           *)

\* p is what rendezvous hashing chooses from S.
Highest(S, p) == p \in S /\ \A q \in S : Score[q] <= Score[p]

\* Every finite, nonempty set of processes has one with the highest score.
LEMMA HighestExists == ASSUME NEW S \in SUBSET Proc, S # {} PROVE \E p : Highest(S, p)
  <1> DEFINE I == {n \in Nat : \A T \in SUBSET Proc :
                      T # {} /\ Cardinality(T) = n => \E p : Highest(T, p)}
  <1>0. ASSUME NEW T \in SUBSET Proc PROVE IsFiniteSet(T) /\ Cardinality(T) \in Nat
    BY ClusterLocksAssumption, FS_Subset, FS_CardinalityType
  <1>1. 0 \in I
    BY <1>0, FS_EmptySet
  <1>2. ASSUME NEW n \in Nat, n \in I PROVE n + 1 \in I
    <2> SUFFICES ASSUME NEW T \in SUBSET Proc, T # {}, Cardinality(T) = n + 1
                 PROVE  \E p : Highest(T, p)
      OBVIOUS
    <2>1. PICK x \in T : TRUE
      OBVIOUS
    <2>2. T \ {x} \in SUBSET Proc /\ Cardinality(T \ {x}) = n
      <3>1. IsFiniteSet(T)
        BY <1>0
      <3>2. Cardinality(T \ {x}) = Cardinality(T) - 1
        BY <3>1, FS_RemoveElement
      <3> QED BY <3>2
    <2>3. CASE T \ {x} = {}
      <3>1. T = {x}
        BY <2>3
      <3> QED BY <3>1, ClusterLocksAssumption DEF Highest
    <2>4. CASE T \ {x} # {}
      <3>1. PICK y : Highest(T \ {x}, y)
        BY <1>2, <2>2, <2>4
      <3>2. Highest(T, y) \/ Highest(T, x)
        BY <3>1, ClusterLocksAssumption DEF Highest
      <3> QED BY <3>2
    <2> QED BY <2>3, <2>4
  <1>3. Cardinality(S) \in I
    <2> HIDE DEF I
    <2> QED BY <1>0, <1>1, <1>2, NatSetInduction
  <1> QED BY <1>3

\* The coordinator is one of the members.
LEMMA CoordinatorIsMember == ASSUME NEW S \in SUBSET Proc, S # {} PROVE CoordinatorOf(S) \in S
  BY HighestExists DEF CoordinatorOf, Highest

-----------------------------------------------------------------------------
(* The lock table.                                                         *)

\* The type of a lease table, and the waiters in one.
TableType == [holder : Lease \cup {NoLease}, queue : Seq(Lease)]

Queued(t) == Members(t.queue)

\* A table as the operations leave it: nobody waits for a free lock, and no lease is in
\* it twice.
Single(t) == t \in TableType /\ Distinct(t.queue) /\ t.holder \notin Queued(t)
Sound(t)  == Single(t) /\ (t.holder = NoLease => t.queue = <<>>)

\* Whoever is in the table u was in t or is among the added ones, and a new holder was a waiter.
Moves(t, u, gone) ==
    /\ Sound(u)
    /\ Leases(u) = Leases(t) \ gone
    /\ Queued(u) \subseteq Queued(t)
    /\ t.holder # NoLease /\ t.holder \notin gone => u.holder = t.holder
    /\ u.holder # t.holder => u.holder \in Queued(t) \cup {NoLease}

\* NoLease is no lease.
LEMMA NoLeaseIsNone == NoLease \notin Lease
  BY ClusterLocksAssumption DEF Lease

\* The leases of a table are its waiters and its holder.
LEMMA LeasesAre == ASSUME NEW t PROVE Leases(t) = Queued(t) \cup ({t.holder} \ {NoLease})
  BY DEF Leases, Queued, Members

\* `_next` makes the first waiter the holder of a free lock, and nothing else.
LEMMA AdvanceMoves == ASSUME NEW t, Single(t) PROVE Moves(t, Advance(t), {})
  <1>1. CASE t.holder # NoLease \/ t.queue = <<>>
    BY <1>1 DEF Advance, Moves, Sound
  <1>2. CASE t.holder = NoLease /\ t.queue # <<>>
    <2> DEFINE h == Head(t.queue)  r == Tail(t.queue)
    <2>1. t.queue \in Seq(Lease) /\ h \in Lease /\ r \in Seq(Lease)
      BY <1>2 DEF Single, TableType
    <2>2. /\ Len(t.queue) \in Nat /\ Len(t.queue) > 0 /\ Len(r) = Len(t.queue) - 1
          /\ h = t.queue[1] /\ \A i \in 1..Len(r) : r[i] = t.queue[i + 1]
      BY <1>2, <2>1
    <2>3. Advance(t) = [holder |-> h, queue |-> r]
      BY <1>2 DEF Advance
    <2> HIDE DEF h, r
    <2>4. Members(t.queue) = Members(r) \cup {h}
      <3>1. ASSUME NEW i \in 1..Len(t.queue), i # 1 PROVE t.queue[i] = r[i - 1] /\ i - 1 \in 1..Len(r)
        BY <2>2, <3>1
      <3>2. ASSUME NEW i \in 1..Len(r) PROVE r[i] = t.queue[i + 1] /\ i + 1 \in 1..Len(t.queue)
        BY <2>2
      <3> QED BY <2>2, <3>1, <3>2 DEF Members
    <2>5. h \notin Members(r)
      BY <1>2, <2>2 DEF Single, Distinct, Members
    <2>6. Distinct(r)
      BY <1>2, <2>2 DEF Single, Distinct
    <2>7. Sound(Advance(t))
      BY <2>1, <2>3, <2>5, <2>6, NoLeaseIsNone DEF Sound, Single, TableType, Queued
    <2>8. Advance(t).holder = h /\ Queued(Advance(t)) = Members(r)
      BY <2>3 DEF Queued
    <2>9. Leases(Advance(t)) = Members(r) \cup {h} /\ Leases(t) = Members(t.queue)
      BY <1>2, <2>1, <2>8, LeasesAre, NoLeaseIsNone DEF Queued
    <2> QED BY <1>2, <2>4, <2>7, <2>8, <2>9 DEF Moves, Queued
  <1> QED BY <1>1, <1>2

\* A new request is the holder of a free lock, or waits behind the others.
LEMMA AcquireEffect ==
  ASSUME NEW t, Sound(t), NEW l \in Lease, l \notin Leases(t)
  PROVE  /\ Sound(Acquire(t, l))
         /\ Leases(Acquire(t, l)) = Leases(t) \cup {l}
         /\ t.holder # NoLease => /\ Acquire(t, l).holder = t.holder
                                  /\ Queued(Acquire(t, l)) = Queued(t) \cup {l}
         /\ t.holder = NoLease => Acquire(t, l).holder = l /\ Queued(Acquire(t, l)) = {}
  <1> DEFINE u == [t EXCEPT !.queue = Append(@, l)]
  <1>1. u \in TableType /\ u.holder = t.holder /\ u.queue = Append(t.queue, l)
    BY DEF Sound, Single, TableType
  <1>2. t.queue \in Seq(Lease) /\ Members(Append(t.queue, l)) = Members(t.queue) \cup {l}
        /\ (l \notin Members(t.queue) => Distinct(Append(t.queue, l)))
    BY AppendMembers DEF Sound, Single, TableType
  <1>3. l \notin Members(t.queue) /\ l # t.holder /\ l # NoLease
    BY LeasesAre, NoLeaseIsNone DEF Queued
  <1> HIDE DEF u
  <1>4. Single(u) /\ Queued(u) = Queued(t) \cup {l}
    BY <1>1, <1>2, <1>3 DEF Single, Queued, Sound
  <1>5. Moves(u, Advance(u), {}) /\ Acquire(t, l) = Advance(u)
    BY <1>4, AdvanceMoves DEF Acquire, u
  <1>6. CASE t.holder # NoLease
    <2>1. Advance(u) = u
      BY <1>1, <1>6 DEF Advance
    <2> QED BY <1>1, <1>4, <1>5, <1>6, <2>1, LeasesAre DEF Moves
  <1>7. CASE t.holder = NoLease
    <2>1. t.queue = <<>>
      BY <1>7 DEF Sound
    <2>2. u.queue = <<l>>
      BY <1>1, <2>1
    <2>3. Advance(u) = [holder |-> l, queue |-> <<>>]
      BY <1>1, <1>7, <2>2 DEF Advance
    <2>4. Queued(Advance(u)) = {} /\ Queued(t) = {}
      BY <2>1, <2>3 DEF Queued, Members
    <2> QED BY <1>3, <1>5, <1>7, <2>3, <2>4, LeasesAre DEF Moves
  <1> QED BY <1>6, <1>7

\* A lease that is released leaves the table, and only then another is granted.
LEMMA ReleaseEffect ==
  ASSUME NEW t, Sound(t), NEW l \in Lease
  PROVE  Moves(t, Release(t, l), {l})
  <1>1. CASE t.holder = l
    <2> DEFINE u == [t EXCEPT !.holder = NoLease]
    <2>1. u \in TableType /\ u.holder = NoLease /\ u.queue = t.queue
      BY DEF Sound, Single, TableType
    <2> HIDE DEF u
    <2>2. Single(u) /\ Queued(u) = Queued(t)
      <3>1. NoLease \notin Queued(t)
        BY NoLeaseIsNone DEF Queued, Members, Sound, Single, TableType
      <3> QED BY <2>1, <3>1 DEF Sound, Single, Queued
    <2>3. Moves(u, Advance(u), {}) /\ Release(t, l) = Advance(u)
      BY <1>1, <2>2, AdvanceMoves DEF Release, u
    <2>4. Leases(u) = Leases(t) \ {l}
      BY <1>1, <2>1, <2>2, LeasesAre DEF Sound, Single
    <2> QED BY <1>1, <2>1, <2>2, <2>3, <2>4 DEF Moves
  <1>2. CASE t.holder # l
    <2> DEFINE w == Without(t.queue, {l})
    <2>1. w \in Seq(Lease) /\ Members(w) = Members(t.queue) \ {l} /\ Distinct(w)
      BY WithoutProperties DEF Sound, Single, TableType
    <2>2. Release(t, l) = [t EXCEPT !.queue = w]
      BY <1>2 DEF Release
    <2> HIDE DEF w
    <2> DEFINE u == Release(t, l)
    <2>3. u \in TableType /\ u.holder = t.holder /\ u.queue = w
      BY <2>1, <2>2 DEF Sound, Single, TableType
    <2> HIDE DEF u
    <2>4. Single(u)
      BY <2>1, <2>3 DEF Sound, Single, Queued
    <2>5. ASSUME t.holder = NoLease PROVE w = <<>>
      <3>1. t.queue = <<>>
        BY <2>5 DEF Sound
      <3>2. Members(w) = {}
        BY <2>1, <3>1 DEF Members
      <3> QED BY <2>1, <3>2, EmptyMembers
    <2> QED BY <1>2, <2>1, <2>3, <2>4, <2>5, LeasesAre DEF Moves, Sound, Queued, u
  <1> QED BY <1>1, <1>2

\* A lost process leaves the table with all its requests.
LEMMA LostEffect ==
  ASSUME NEW t, Sound(t), NEW p \in Proc
  PROVE  Moves(t, ProcessLost(t, p), {p} \X Nat)
  <1> DEFINE gone == {p} \X Nat  w == Without(t.queue, gone)
  <1>1. w \in Seq(Lease) /\ Members(w) = Members(t.queue) \ gone /\ Distinct(w)
    BY WithoutProperties DEF Sound, Single, TableType
  <1>2. ASSUME NEW l \in Lease PROVE l \in gone <=> l[1] = p
    BY DEF Lease
  <1>3. NoLease \notin gone
    BY NoLeaseIsNone DEF Lease
  <1>4. t.holder \in Lease \cup {NoLease} /\ Members(t.queue) \subseteq Lease
    BY DEF Sound, Single, TableType, Members
  <1> HIDE DEF gone, w
  <1>5. CASE t.holder \in gone
    <2> DEFINE u == [holder |-> NoLease, queue |-> w]
    <2>1. u \in TableType /\ u.holder = NoLease /\ u.queue = w
      BY <1>1 DEF TableType
    <2> HIDE DEF u
    <2>2. Single(u) /\ Queued(u) = Queued(t) \ gone
      BY <1>1, <1>4, <2>1, NoLeaseIsNone DEF Single, Queued
    <2>3. ProcessLost(t, p) = Advance(u)
      BY <1>2, <1>3, <1>4, <1>5 DEF ProcessLost, u, w, gone
    <2>4. Moves(u, Advance(u), {})
      BY <2>2, AdvanceMoves
    <2>5. Leases(u) = Leases(t) \ gone
      BY <1>5, <2>1, <2>2, LeasesAre
    <2> QED BY <1>5, <2>1, <2>2, <2>3, <2>4, <2>5 DEF Moves, gone
  <1>6. CASE t.holder \notin gone
    <2> DEFINE u == ProcessLost(t, p)
    <2>1. u = [t EXCEPT !.queue = w]
      BY <1>2, <1>4, <1>6 DEF ProcessLost, w, gone
    <2>2. u \in TableType /\ u.holder = t.holder /\ u.queue = w
      BY <1>1, <2>1 DEF Sound, Single, TableType
    <2> HIDE DEF u
    <2>3. Single(u)
      BY <1>1, <2>2 DEF Sound, Single, Queued
    <2>4. ASSUME t.holder = NoLease PROVE w = <<>>
      <3>1. t.queue = <<>>
        BY <2>4 DEF Sound
      <3>2. Members(w) = {}
        BY <1>1, <3>1 DEF Members
      <3> QED BY <1>1, <3>2, EmptyMembers
    <2> QED BY <1>1, <1>6, <2>2, <2>3, <2>4, LeasesAre DEF Moves, Sound, Queued, u, gone
  <1> QED BY <1>5, <1>6

-----------------------------------------------------------------------------
(* Messages in flight.                                                     *)

MailType == [Proc -> [Proc -> Seq(Message)]]

\* x is at most once in s; in the mail from p to q.
OnceIn(s, x) == \A i, j \in 1..Len(s) : s[i] = x /\ s[j] = x => i = j

Has(m, p, q, x)  == x \in Members(m[p][q])
Once(m, p, q, x) == OnceIn(m[p][q], x)

\* p's request n, its end and its grant on the way between p and its coordinator k.
Asks(m, p, k, n)   == Has(m, p, k, Lock(n))
Ends(m, p, k, n)   == Has(m, p, k, Unlock(n))
Grants(m, k, p, n) == Has(m, k, p, Grant(n))
Leaves(m, p, q)    == \E x \in Message : Has(m, p, q, x) /\ x.t = "bye"
AsksOnce(m, p, k, n)   == Once(m, p, k, Lock(n))
GrantsOnce(m, k, p, n) == Once(m, k, p, Grant(n))

\* Appending adds an occurrence of x only.
LEMMA AppendOnce ==
  ASSUME NEW S, NEW s \in Seq(S), NEW x \in S, NEW y, OnceIn(s, y), x = y => y \notin Members(s)
  PROVE  OnceIn(Append(s, x), y)
  <1> DEFINE t == Append(s, x)
  <1>1. /\ Len(s) \in Nat /\ Len(t) = Len(s) + 1 /\ t[Len(s) + 1] = x
        /\ \A i \in 1..Len(s) : t[i] = s[i]
    OBVIOUS
  <1> HIDE DEF t
  <1>2. OnceIn(t, y)
    BY <1>1 DEF Members, OnceIn
  <1> QED BY <1>2 DEF t

\* Taking the head off a sequence leaves its other members.
LEMMA TailMembers ==
  ASSUME NEW S, NEW s \in Seq(S), s # <<>>
  PROVE  /\ Head(s) \in S /\ Tail(s) \in Seq(S)
         /\ Members(s) = Members(Tail(s)) \cup {Head(s)}
         /\ \A x : OnceIn(s, x) => OnceIn(Tail(s), x) /\ (Head(s) = x => x \notin Members(Tail(s)))
  <1> DEFINE h == Head(s)  r == Tail(s)
  <1>1. /\ Len(s) \in Nat /\ Len(s) > 0 /\ Len(r) = Len(s) - 1
        /\ h = s[1] /\ \A i \in 1..Len(r) : r[i] = s[i + 1]
    OBVIOUS
  <1>2. h \in S /\ r \in Seq(S)
    OBVIOUS
  <1> HIDE DEF h, r
  <1>3. Members(s) = Members(r) \cup {h}
    <2>1. ASSUME NEW i \in 1..Len(s), i # 1 PROVE s[i] = r[i - 1] /\ i - 1 \in 1..Len(r)
      BY <1>1, <2>1
    <2>2. ASSUME NEW i \in 1..Len(r) PROVE r[i] = s[i + 1] /\ i + 1 \in 1..Len(s)
      BY <1>1
    <2> QED BY <1>1, <2>1, <2>2 DEF Members
  <1>4. ASSUME NEW x, OnceIn(s, x) PROVE OnceIn(r, x) /\ (h = x => x \notin Members(r))
    <2>1. ASSUME NEW i \in 1..Len(r) PROVE r[i] = s[i + 1] /\ i + 1 \in 1..Len(s) /\ i + 1 # 1
      BY <1>1
    <2>2. ASSUME NEW i \in 1..Len(r), NEW j \in 1..Len(r), r[i] = x, r[j] = x PROVE i = j
      <3>1. i + 1 = j + 1
        BY <1>4, <2>1, <2>2 DEF OnceIn
      <3> QED BY <3>1
    <2>3. ASSUME h = x, NEW i \in 1..Len(r), r[i] = x PROVE FALSE
      <3>1. 1 \in 1..Len(s) /\ s[1] = x /\ s[i + 1] = x
        BY <1>1, <2>1, <2>3
      <3> QED BY <1>4, <2>1, <3>1 DEF OnceIn
    <2> QED BY <2>2, <2>3 DEF OnceIn, Members
  <1> QED BY <1>2, <1>3, <1>4 DEF h, r

\* Messages of different kinds, or about different requests, differ.
LEMMA MessagesDiffer ==
  ASSUME NEW n \in Nat, NEW o \in Nat
  PROVE  /\ Lock(n) \in Message /\ Grant(n) \in Message /\ Unlock(n) \in Message /\ Bye \in Message
         /\ (Lock(n) = Lock(o) => n = o) /\ (Grant(n) = Grant(o) => n = o)
         /\ (Unlock(n) = Unlock(o) => n = o)
         /\ Lock(n) # Grant(o) /\ Lock(n) # Unlock(o) /\ Lock(n) # Bye
         /\ Grant(n) # Unlock(o) /\ Grant(n) # Bye /\ Unlock(n) # Bye
         /\ Lock(n).t # "bye" /\ Grant(n).t # "bye" /\ Unlock(n).t # "bye"
  BY DEF Lock, Grant, Unlock, Bye, Message

\* The mail w is m with, if c, x added behind what p sent q.
Adds(m, w, p, q, x, c) ==
    /\ w \in MailType
    /\ \A a, b \in Proc :
        /\ a # p \/ b # q => w[a][b] = m[a][b]
        /\ \A y : Has(w, a, b, y) <=> Has(m, a, b, y) \/ (c /\ a = p /\ b = q /\ y = x)
        /\ \A y : Once(m, a, b, y) /\ (c /\ a = p /\ b = q /\ y = x => ~Has(m, a, b, y)) => Once(w, a, b, y)

\* `_publish` adds its message when its receiver listens.
LEMMA SendAdds ==
  ASSUME NEW m \in MailType, NEW p \in Proc, NEW q \in Proc, NEW x \in Message
  PROVE  Adds(m, Send(m, p, q, x), p, q, x, up[q] = "up")
  <1>1. CASE up[q] = "up"
    <2> DEFINE w == [m EXCEPT ![p][q] = Append(@, x)]
    <2>1. /\ w \in MailType
          /\ \A a, b \in Proc : w[a][b] = IF a = p /\ b = q THEN Append(m[a][b], x) ELSE m[a][b]
          /\ m[p][q] \in Seq(Message)
      BY DEF MailType
    <2>2. Send(m, p, q, x) = w
      BY <1>1 DEF Send
    <2> HIDE DEF w
    <2>3. Members(Append(m[p][q], x)) = Members(m[p][q]) \cup {x}
      BY <2>1, AppendMembers
    <2>4. \A y : OnceIn(m[p][q], y) /\ (x = y => y \notin Members(m[p][q])) => OnceIn(Append(m[p][q], x), y)
      BY <2>1, AppendOnce
    <2> QED BY <1>1, <2>1, <2>2, <2>3, <2>4 DEF Adds, Has, Once
  <1>2. CASE up[q] # "up"
    BY <1>2 DEF Adds, Send
  <1> QED BY <1>1, <1>2

\* The mail w is m, where request n of p to q was published.
AddsLock(m, w, p, q, n) ==
    /\ w \in MailType
    /\ \A a \in Proc : p # q => w[a][a] = m[a][a]
    /\ \A a, b \in Proc : Leaves(w, a, b) <=> Leaves(m, a, b)
    /\ \A a, b \in Proc, o \in Nat :
        /\ Asks(w, a, b, o) <=> Asks(m, a, b, o) \/ (up[q] = "up" /\ a = p /\ b = q /\ o = n)
        /\ Ends(w, a, b, o) <=> Ends(m, a, b, o)
        /\ Grants(w, a, b, o) <=> Grants(m, a, b, o)
        /\ AsksOnce(m, a, b, o) /\ (a = p /\ b = q /\ o = n => ~Asks(m, a, b, o)) => AsksOnce(w, a, b, o)
        /\ GrantsOnce(m, a, b, o) => GrantsOnce(w, a, b, o)

\* ... its end,
AddsUnlock(m, w, p, q, n) ==
    /\ w \in MailType
    /\ \A a \in Proc : p # q => w[a][a] = m[a][a]
    /\ \A a, b \in Proc : Leaves(w, a, b) <=> Leaves(m, a, b)
    /\ \A a, b \in Proc, o \in Nat :
        /\ Asks(w, a, b, o) <=> Asks(m, a, b, o)
        /\ Ends(w, a, b, o) <=> Ends(m, a, b, o) \/ (up[q] = "up" /\ a = p /\ b = q /\ o = n)
        /\ Grants(w, a, b, o) <=> Grants(m, a, b, o)
        /\ AsksOnce(m, a, b, o) => AsksOnce(w, a, b, o)
        /\ GrantsOnce(m, a, b, o) => GrantsOnce(w, a, b, o)

\* ... or the grant of the holder of k's table u, which was t.
AddsGrant(m, w, k, t, u) ==
    /\ w \in MailType
    /\ \A a \in Proc : w[a][a] = m[a][a]
    /\ \A a, b \in Proc : Leaves(w, a, b) <=> Leaves(m, a, b)
    /\ \A a, b \in Proc, o \in Nat :
        /\ Asks(w, a, b, o) <=> Asks(m, a, b, o)
        /\ Ends(w, a, b, o) <=> Ends(m, a, b, o)
        /\ Grants(w, a, b, o) <=>
             \/ Grants(m, a, b, o)
             \/ a = k /\ b # k /\ up[b] = "up" /\ u.holder = <<b, o>> /\ u.holder # t.holder
        /\ AsksOnce(m, a, b, o) => AsksOnce(w, a, b, o)
        /\ /\ GrantsOnce(m, a, b, o)
           /\ a = k /\ u.holder = <<b, o>> /\ u.holder # t.holder => ~Grants(m, a, b, o)
           => GrantsOnce(w, a, b, o)

\* What publishing a request does to the mail.
LEMMA SendLock ==
  ASSUME NEW m \in MailType, NEW p \in Proc, NEW q \in Proc, NEW n \in Nat
  PROVE  AddsLock(m, Send(m, p, q, Lock(n)), p, q, n)
  <1>1. Adds(m, Send(m, p, q, Lock(n)), p, q, Lock(n), up[q] = "up")
    BY SendAdds, MessagesDiffer
  <1> QED BY <1>1, MessagesDiffer DEF Adds, AddsLock, Asks, Ends, Grants, Leaves, AsksOnce, GrantsOnce

\* What publishing the end of a request does to the mail.
LEMMA SendUnlock ==
  ASSUME NEW m \in MailType, NEW p \in Proc, NEW q \in Proc, NEW n \in Nat
  PROVE  AddsUnlock(m, Send(m, p, q, Unlock(n)), p, q, n)
  <1>1. Adds(m, Send(m, p, q, Unlock(n)), p, q, Unlock(n), up[q] = "up")
    BY SendAdds, MessagesDiffer
  <1> QED BY <1>1, MessagesDiffer DEF Adds, AddsUnlock, Asks, Ends, Grants, Leaves, AsksOnce, GrantsOnce

\* What a change of k's table does to the mail: a new holder of another process is told.
LEMMA TellGrants ==
  ASSUME NEW m \in MailType, NEW k \in Proc, NEW t \in TableType, NEW u \in TableType
  PROVE  AddsGrant(m, Tell(m, k, t, u), k, t, u)
  <1>1. CASE u.holder # t.holder /\ u.holder # NoLease /\ u.holder[1] # k
    <2>1. PICK b \in Proc, n \in Nat : u.holder = <<b, n>>
      BY <1>1 DEF TableType, Lease
    <2>2. Tell(m, k, t, u) = Send(m, k, b, Grant(n)) /\ b # k
      BY <1>1, <2>1 DEF Tell
    <2>3. Adds(m, Tell(m, k, t, u), k, b, Grant(n), up[b] = "up")
      BY <2>2, SendAdds, MessagesDiffer
    <2> QED BY <1>1, <2>1, <2>2, <2>3, MessagesDiffer
            DEF Adds, AddsGrant, Asks, Ends, Grants, Leaves, AsksOnce, GrantsOnce
  <1>2. CASE ~(u.holder # t.holder /\ u.holder # NoLease /\ u.holder[1] # k)
    <2>1. Tell(m, k, t, u) = m
      BY <1>2 DEF Tell
    <2>2. \A b \in Proc, o \in Nat : b # k /\ u.holder = <<b, o>> => u.holder = t.holder
      BY <1>2, NoLeaseIsNone DEF Lease
    <2> QED BY <2>1, <2>2 DEF AddsGrant
  <1> QED BY <1>1, <1>2

\* The mail w is m without the first message x from p to q.
Takes(m, w, p, q, x) ==
    /\ w \in MailType
    /\ \A a \in Proc : p # q => w[a][a] = m[a][a]
    /\ \A a, b \in Proc : Leaves(w, a, b) => Leaves(m, a, b)
    /\ \A a, b \in Proc, o \in Nat :
        /\ Asks(w, a, b, o) => Asks(m, a, b, o)
        /\ Ends(w, a, b, o) => Ends(m, a, b, o)
        /\ Grants(w, a, b, o) => Grants(m, a, b, o)
        /\ Asks(m, a, b, o) => Asks(w, a, b, o) \/ (a = p /\ b = q /\ x = Lock(o))
        /\ Ends(m, a, b, o) => Ends(w, a, b, o) \/ (a = p /\ b = q /\ x = Unlock(o))
        /\ Grants(m, a, b, o) => Grants(w, a, b, o) \/ (a = p /\ b = q /\ x = Grant(o))
        /\ AsksOnce(m, a, b, o) => /\ AsksOnce(w, a, b, o)
                                   /\ a = p /\ b = q /\ x = Lock(o) => ~Asks(w, a, b, o)
        /\ GrantsOnce(m, a, b, o) => /\ GrantsOnce(w, a, b, o)
                                     /\ a = p /\ b = q /\ x = Grant(o) => ~Grants(w, a, b, o)

\* What taking a message off a channel does to the mail.
LEMMA ReceivedTakes ==
  ASSUME mail \in MailType, NEW p \in Proc, NEW q \in Proc, mail[p][q] # <<>>
  PROVE  /\ Takes(mail, Received(p, q), p, q, Head(mail[p][q]))
         /\ Head(mail[p][q]) \in Message /\ Has(mail, p, q, Head(mail[p][q]))
  <1> DEFINE x == Head(mail[p][q])  r == Tail(mail[p][q])  w == [mail EXCEPT ![p][q] = Tail(@)]
  <1>1. mail[p][q] \in Seq(Message)
    BY DEF MailType
  <1>2. /\ x \in Message /\ r \in Seq(Message)
        /\ Members(mail[p][q]) = Members(r) \cup {x}
        /\ \A y : OnceIn(mail[p][q], y) => OnceIn(r, y) /\ (x = y => y \notin Members(r))
    BY <1>1, TailMembers
  <1>3. /\ w \in MailType
        /\ \A a, b \in Proc : w[a][b] = IF a = p /\ b = q THEN r ELSE mail[a][b]
    BY <1>2 DEF MailType
  <1>4. Received(p, q) = w
    BY DEF Received
  <1> HIDE DEF x, r, w
  <1>5. /\ \A a, b \in Proc : \A y : Has(w, a, b, y) => Has(mail, a, b, y)
        /\ \A a, b \in Proc : \A y : Has(mail, a, b, y) => Has(w, a, b, y) \/ (a = p /\ b = q /\ x = y)
        /\ \A a, b \in Proc : \A y : Once(mail, a, b, y) =>
              Once(w, a, b, y) /\ (a = p /\ b = q /\ x = y => ~Has(w, a, b, y))
    BY <1>2, <1>3 DEF Has, Once
  <1>6. Takes(mail, w, p, q, x)
    BY <1>3, <1>5 DEF Takes, Asks, Ends, Grants, Leaves, AsksOnce, GrantsOnce
  <1> QED BY <1>2, <1>4, <1>6 DEF x, Has

-----------------------------------------------------------------------------
(* Type correctness.                                                       *)

\* The operations of the lock table keep its type.
LEMMA TableTypes ==
  ASSUME NEW t \in TableType, NEW l \in Lease, NEW p \in Proc
  PROVE  Advance(t) \in TableType /\ Acquire(t, l) \in TableType
         /\ Release(t, l) \in TableType /\ ProcessLost(t, p) \in TableType
  <1>1. ASSUME NEW u \in TableType PROVE Advance(u) \in TableType
    BY DEF Advance, TableType
  <1>2. ASSUME NEW gone PROVE Without(t.queue, gone) \in Seq(Lease)
    BY WithoutProperties DEF TableType
  <1>3. /\ [t EXCEPT !.queue = Append(@, l)] \in TableType /\ [t EXCEPT !.holder = NoLease] \in TableType
        /\ \A q \in Seq(Lease) : /\ [t EXCEPT !.queue = q] \in TableType
                                 /\ [holder |-> NoLease, queue |-> q] \in TableType
    BY SMTT(30) DEF TableType
  <1>4. Release(t, l) \in TableType
    BY <1>1, <1>2, <1>3 DEF Release
  <1>5. ProcessLost(t, p) \in TableType
    BY <1>1, <1>2, <1>3 DEF ProcessLost
  <1> QED BY <1>1, <1>3, <1>4, <1>5 DEF Acquire

\* Publishing keeps the type of the mail.
LEMMA SendType ==
  ASSUME NEW m \in MailType, NEW p \in Proc, NEW q \in Proc, NEW x \in Message
  PROVE  Send(m, p, q, x) \in MailType
  BY SendAdds DEF Adds

\* So does telling the holder of a table.
LEMMA TellType ==
  ASSUME NEW m \in MailType, NEW k \in Proc, NEW t \in TableType, NEW u \in TableType
  PROVE  Tell(m, k, t, u) \in MailType
  BY TellGrants DEF AddsGrant

\* The part of TypeOK that lock() and the lock table change.
CallType ==
    /\ table \in [Proc -> TableType]
    /\ call \in [Proc -> {"idle", "waiting", "granted", "creating"}]
    /\ at \in [Proc -> Proc \cup {NoProc}]
    /\ \A p \in Proc : call[p] = "waiting" => at[p] \in Proc
    /\ tries \in [Proc -> 0..LockAttempts - 1] /\ last \in [Proc -> Nat]
    /\ mail \in MailType

\* One attempt of lock() keeps it.
LEMMA AttemptType ==
  ASSUME CallType, NEW p \in Proc, NEW n \in Nat, NEW ps \in SUBSET Proc,
         NEW t \in TableType, NEW m \in MailType, Attempt(p, n, ps, t, m)
  PROVE  CallType'
  <1> DEFINE k == CoordinatorOf(ps \cup {p})  id == last[p] + 1  t2 == Acquire(t, <<p, id>>)
  <1>1. k \in Proc
    BY CoordinatorIsMember
  <1>2. id \in Nat /\ table[p] \in TableType /\ <<p, id>> \in Lease
    BY DEF CallType, Lease
  <1>3. t2 \in TableType
    BY <1>2, TableTypes
  <1>4. Tell(m, p, table[p], t) \in MailType /\ Tell(Send(m, p, k, Lock(id)), p, table[p], t) \in MailType
    BY <1>1, <1>2, TellType, SendType, MessagesDiffer
  <1>5. CASE n >= LockAttempts
    BY <1>4, <1>5 DEF Attempt, CallType
  <1>6. CASE n < LockAttempts
    <2>1. n \in 0..LockAttempts - 1
      BY <1>6 DEF LockAttempts
    <2>0. ~(n >= LockAttempts)
      BY <1>6 DEF LockAttempts
    <2>2. /\ at' = [at EXCEPT ![p] = k] /\ tries' = [tries EXCEPT ![p] = n]
          /\ last' = [last EXCEPT ![p] = id]
      BY <2>0 DEF Attempt
    <2>3. CASE k = p
      <3>1. /\ table' = [table EXCEPT ![p] = t2] /\ mail' = Tell(m, p, table[p], t)
            /\ call' = [call EXCEPT ![p] = IF t2.holder = <<p, id>> THEN "granted" ELSE "waiting"]
        BY <2>0, <2>3 DEF Attempt
      <3> HIDE DEF k, id, t2
      <3> QED BY <1>1, <1>2, <1>3, <1>4, <2>1, <2>2, <3>1 DEF CallType
    <2>4. CASE k # p
      <3>1. /\ table' = [table EXCEPT ![p] = t] /\ call' = [call EXCEPT ![p] = "waiting"]
            /\ mail' = Tell(Send(m, p, k, Lock(id)), p, table[p], t)
        BY <2>0, <2>4 DEF Attempt
      <3> HIDE DEF k, id, t2
      <3> QED BY <1>1, <1>2, <1>4, <2>1, <2>2, <3>1 DEF CallType
    <2> QED BY <2>3, <2>4
  <1> QED BY <1>5, <1>6 DEF LockAttempts

\* A change of a table keeps it.
LEMMA TableBecomesType ==
  ASSUME CallType, NEW q \in Proc, NEW t \in TableType, NEW m \in MailType,
         TableBecomes(q, t, m), UNCHANGED <<at, tries, last>>
  PROVE  CallType'
  <1>1. mail' \in MailType
    BY TellType DEF TableBecomes, CallType
  <1> QED BY <1>1 DEF TableBecomes, CallType

\* Losing a peer keeps it.
LEMMA PeerLostType ==
  ASSUME TypeOK, CallType, NEW q \in Proc, NEW p \in Proc, NEW m \in MailType, PeerLost(q, p, m)
  PROVE  CallType' /\ peers' \in [Proc -> SUBSET Proc] /\ taken' \subseteq Lease
  <1> DEFINE t == ProcessLost(table[q], p)
  <1>1. t \in TableType
    <2>1. table[q] \in TableType /\ <<p, 0>> \in Lease
      BY DEF CallType, Lease
    <2> QED BY <2>1, TableTypes
  <1>2. Leases(table[q]) \subseteq Lease
    BY DEF CallType, TableType, Leases
  <1>3. peers' \in [Proc -> SUBSET Proc] /\ taken' \subseteq Lease
    BY <1>2 DEF PeerLost, TypeOK
  <1>4. CASE call[q] = "waiting" /\ at[q] = p
    <2>1. Attempt(q, tries[q] + 1, peers[q] \ {p}, t, m)
      BY <1>4 DEF PeerLost
    <2>2. tries[q] + 1 \in Nat /\ peers[q] \ {p} \in SUBSET Proc
      <3>1. tries[q] \in 0..2
        BY DEF TypeOK, LockAttempts
      <3>2. peers[q] \in SUBSET Proc
        BY DEF TypeOK
      <3> QED BY <3>1, <3>2
    <2> HIDE DEF t
    <2> QED BY <1>1, <1>3, <2>1, <2>2, AttemptType
  <1>5. CASE ~(call[q] = "waiting" /\ at[q] = p)
    <2>1. TableBecomes(q, t, m) /\ UNCHANGED <<at, tries, last>>
      BY <1>5 DEF PeerLost
    <2> HIDE DEF t
    <2> QED BY <1>1, <1>3, <2>1, TableBecomesType
  <1> QED BY <1>4, <1>5

\* Giving the lock back keeps the types of the table and of the mail.
LEMMA GiveBackType ==
  ASSUME CallType, NEW p \in Proc, GiveBack(p)
  PROVE  table' \in [Proc -> TableType] /\ mail' \in MailType
  <1> DEFINE t == Release(table[p], <<p, last[p]>>)
  <1>1. t \in TableType /\ table[p] \in TableType /\ last[p] \in Nat
    <2>1. table[p] \in TableType /\ last[p] \in Nat /\ <<p, last[p]>> \in Lease
      BY DEF CallType, Lease
    <2> QED BY <2>1, TableTypes
  <1>2. Tell(mail, p, table[p], t) \in MailType
    BY <1>1, TellType DEF CallType
  <1>3. ASSUME NEW k \in Proc PROVE Send(mail, p, k, Unlock(last[p])) \in MailType
    BY <1>1, SendType, MessagesDiffer DEF CallType
  <1>4. CASE at[p] = p /\ table' = [table EXCEPT ![p] = t] /\ mail'  = Tell(mail, p, table[p], t)
    <2> HIDE DEF t
    <2> QED BY <1>1, <1>2, <1>4 DEF CallType
  <1> HIDE DEF t
  <1>5. CASE at[p] \in Proc \ {p} /\ mail' = Send(mail, p, at[p], Unlock(last[p])) /\ UNCHANGED table
    BY <1>3, <1>5 DEF CallType
  <1>6. CASE UNCHANGED <<table, mail>>
    BY <1>6 DEF CallType
  <1> QED BY <1>4, <1>5, <1>6 DEF GiveBack, t

\* What stop() leaves in flight when a request waited on another process.
StopOut(p) ==
    LET asked == call[p] = "waiting" /\ at[p] # p
    IN  [q \in Proc |->
           IF q = p \/ up[q] # "up" THEN mail[p][q]
           ELSE Append(mail[p][q], Bye) \o (IF asked /\ q = at[p] THEN <<Unlock(last[p])>> ELSE <<>>)]
\* The mail when p stops.
StopMail(p) == [r \in Proc |-> IF r = p THEN StopOut(p) ELSE [mail[r] EXCEPT ![p] = <<>>]]

\* It is mail.
LEMMA StopMailType ==
  ASSUME mail \in MailType, last \in [Proc -> Nat], NEW p \in Proc
  PROVE  StopMail(p) \in MailType
  <1>1. Bye \in Message /\ Unlock(last[p]) \in Message
    BY DEF Bye, Unlock, Message
  <1>2. StopOut(p) \in [Proc -> Seq(Message)]
    BY <1>1 DEF StopOut, MailType
  <1>3. ASSUME NEW r \in Proc PROVE [mail[r] EXCEPT ![p] = <<>>] \in [Proc -> Seq(Message)]
    BY DEF MailType
  <1> QED BY <1>2, <1>3 DEF StopMail, MailType

\* Every step keeps every variable's type.
LEMMA TypeStep == ASSUME TypeOK, [Next]_vars PROVE TypeOK'
  <1> DEFINE Rest == /\ up \in [Proc -> {"up", "stopped", "dead"}]
                     /\ peers \in [Proc -> SUBSET Proc] /\ claims \in [Proc -> Nat]
                     /\ rooms \subseteq Proc /\ taken \subseteq Lease
                     /\ disturbed \in BOOLEAN /\ lost \in BOOLEAN /\ faults \in Nat
  <1>1. CallType /\ Rest
    BY DEF TypeOK, CallType, TableType, MailType
  <1>2. CallType' /\ Rest' => TypeOK'
    BY DEF TypeOK, CallType, TableType, MailType
  <1>3. mail \in MailType /\ table \in [Proc -> TableType]
    BY <1>1 DEF CallType
  <1> SUFFICES CallType' /\ Rest'
    BY <1>2
  <1>4. ASSUME NEW p \in Proc, Claim(p) PROVE CallType' /\ Rest'
    <2>1. CallType'
      <3>1. peers[p] \in SUBSET Proc /\ table[p] \in TableType
        BY <1>1, <1>3
      <3> QED BY <1>1, <1>3, <1>4, <3>1, AttemptType DEF Claim
    <2> QED BY <1>1, <1>4, <2>1 DEF Claim, histVars
  <1>5. ASSUME NEW p \in Proc, LockTimeout(p) PROVE CallType' /\ Rest'
    <2>1. mail' \in MailType
      <3>1. at[p] \in Proc /\ last[p] \in Nat
        BY <1>1, <1>5 DEF LockTimeout, CallType
      <3> QED BY <1>3, <1>5, <3>1, SendType, MessagesDiffer DEF LockTimeout
    <2> QED BY <1>1, <1>5, <2>1 DEF LockTimeout, CallType
  <1>6. ASSUME NEW p \in Proc, Look(p) PROVE CallType' /\ Rest'
    <2>1. table' \in [Proc -> TableType] /\ mail' \in MailType
      BY <1>1, <1>3, <1>6, GiveBackType DEF Look
    <2> QED BY <1>1, <1>6, <2>1 DEF Look, CallType, histVars
  <1>7. ASSUME NEW p \in Proc, Create(p) PROVE CallType' /\ Rest'
    <2>1. table' \in [Proc -> TableType] /\ mail' \in MailType
      BY <1>1, <1>7, GiveBackType DEF Create
    <2> QED BY <1>1, <1>7, <2>1 DEF Create, CallType, histVars
  <1>8. ASSUME NEW k \in Proc, LeaseExpires(k) PROVE CallType' /\ Rest'
    <2>1. table[k] \in TableType /\ table[k].holder \in Lease
      BY <1>1, <1>8 DEF LeaseExpires, CallType, TableType
    <2>2. Release(table[k], table[k].holder) \in TableType
      BY <2>1, TableTypes
    <2>3. CallType'
      BY <1>1, <1>3, <1>8, <2>2, TableBecomesType DEF LeaseExpires
    <2> QED BY <1>1, <1>8, <2>1, <2>3 DEF LeaseExpires
  <1>9. ASSUME NEW p \in Proc, NEW q \in Proc, Receive(p, q) PROVE CallType' /\ Rest'
    <2> DEFINE x == Head(mail[p][q])
    <2>1. mail[p][q] # <<>> /\ up[q] = "up" /\ UNCHANGED <<up, claims, rooms, histVars>>
      BY <1>9 DEF Receive
    <2>2. x \in Message /\ Received(p, q) \in MailType
      BY <1>3, <2>1, ReceivedTakes DEF Takes
    <2>3. x.lease \in Nat /\ <<p, x.lease>> \in Lease /\ table[q] \in TableType
      BY <1>3, <2>2 DEF Message, Lease
    <2> HIDE DEF x
    <2>4. CASE ReceiveLock(p, q, x.lease)
      <3>1. CallType'
        BY <1>1, <2>2, <2>3, <2>4, TableTypes, TableBecomesType DEF ReceiveLock
      <3> QED BY <1>1, <2>1, <2>4, <3>1 DEF ReceiveLock, Seen, histVars
    <2>5. CASE ReceiveGrant(p, q, x.lease)
      <3>1. mail' \in MailType
        BY <2>2, <2>3, <2>5, SendType, MessagesDiffer DEF ReceiveGrant
      <3>2. CallType'
        BY <1>1, <2>5, <3>1 DEF ReceiveGrant, CallType
      <3> QED BY <1>1, <2>1, <2>5, <3>2 DEF ReceiveGrant, Seen, histVars
    <2>6. CASE ReceiveUnlock(p, q, x.lease)
      <3>1. CallType'
        BY <1>1, <2>2, <2>3, <2>6, TableTypes, TableBecomesType DEF ReceiveUnlock
      <3> QED BY <1>1, <2>1, <2>6, <3>1 DEF ReceiveUnlock, Seen, histVars
    <2>7. CASE ReceiveBye(p, q)
      <3>1. CASE p \in peers[q]
        BY <1>1, <2>1, <2>2, <2>7, <3>1, PeerLostType DEF ReceiveBye, histVars
      <3>2. CASE p \notin peers[q]
        BY <1>1, <2>1, <2>2, <2>7, <3>2 DEF ReceiveBye, CallType, callVars, histVars
      <3> QED BY <3>1, <3>2
    <2> QED BY <1>9, <2>4, <2>5, <2>6, <2>7 DEF Receive, x
  <1>10. ASSUME NEW p \in Proc, Stop(p) PROVE CallType' /\ Rest'
    <2>1. mail' = StopMail(p)
      BY <1>10 DEF Stop, StopMail, StopOut
    <2>2. mail' \in MailType
      BY <1>1, <2>1, StopMailType DEF CallType
    <2>3. table' = [table EXCEPT ![p] = EmptyTable] /\ EmptyTable \in TableType
      BY <1>10 DEF Stop, EmptyTable, TableType
    <2>4. /\ call' = IF call[p] = "waiting" /\ at[p] # p THEN [call EXCEPT ![p] = "granted"] ELSE call
          /\ at'   = IF call[p] = "waiting" /\ at[p] # p THEN [at EXCEPT ![p] = NoProc] ELSE at
          /\ UNCHANGED <<tries, last>>
      BY <1>10 DEF Stop
    <2>5. CallType'
      BY <1>1, <2>2, <2>3, <2>4 DEF CallType
    <2>6. Rest'
      BY <1>1, <1>10 DEF Stop, Fault
    <2> QED BY <2>5, <2>6
  <1>11. ASSUME NEW p \in Proc, Crash(p) PROVE CallType' /\ Rest'
    <2>1. EmptyTable \in TableType
      BY DEF EmptyTable, TableType
    <2>2. mail' \in MailType
      BY <1>3, <1>11 DEF Crash, MailType
    <2>3. CallType'
      BY <1>1, <1>11, <2>1, <2>2 DEF Crash, CallType
    <2> QED BY <1>1, <1>11, <2>3 DEF Crash, Fault
  <1>12. ASSUME NEW p \in Proc, NEW q \in Proc, Heartbeat(p, q) PROVE CallType' /\ Rest'
    BY <1>1, <1>12 DEF Heartbeat, Seen, CallType, tableVars, callVars, histVars
  <1>13. ASSUME NEW q \in Proc, NEW p \in Proc, Sweep(q, p) PROVE CallType' /\ Rest'
    <2>1. CallType' /\ peers' \in [Proc -> SUBSET Proc] /\ taken' \subseteq Lease
      BY <1>1, <1>3, <1>13, PeerLostType DEF Sweep
    <2>2. disturbed' \in BOOLEAN /\ faults' \in Nat
      <3>1. CASE UNCHANGED <<disturbed, faults>>
        BY <1>1, <3>1
      <3>2. CASE Fault
        BY <1>1, <3>2 DEF Fault
      <3> QED BY <1>13, <3>1, <3>2 DEF Sweep
    <2>3. UNCHANGED <<up, claims, rooms, lost>>
      BY <1>13 DEF Sweep
    <2> QED BY <1>1, <2>1, <2>2, <2>3
  <1>14. ASSUME NEW p \in Proc, NEW q \in Proc, Lose(p, q) PROVE CallType' /\ Rest'
    <2>1. mail' \in MailType
      BY <1>3, <1>14, ReceivedTakes DEF Lose, Takes
    <2> QED BY <1>1, <1>14, <2>1 DEF Lose, Fault, CallType, callVars
  <1>15. CASE UNCHANGED vars
    BY <1>1, <1>15 DEF vars, tableVars, callVars, histVars, CallType
  <1> HIDE DEF Rest
  <1> QED BY <1>4, <1>5, <1>6, <1>7, <1>8, <1>9, <1>10, <1>11, <1>12, <1>13, <1>14, <1>15 DEF Next, Progress

\* The initial state has its type.
LEMMA TypeInit == ASSUME Init PROVE TypeOK
  <1>1. EmptyTable \in [holder : Lease \cup {NoLease}, queue : Seq(Lease)]
    BY DEF EmptyTable
  <1>2. 0 \in 0..LockAttempts - 1
    BY DEF LockAttempts
  <1>3. mail \in [Proc -> [Proc -> Seq(Message)]]
    BY DEF Init
  <1> QED BY <1>1, <1>2, <1>3 DEF Init, TypeOK

\* Type correctness, for any number of processes, calls and faults.
THEOREM TypeCorrect == Spec => []TypeOK
  BY TypeInit, TypeStep, PTL DEF Spec

-----------------------------------------------------------------------------
(* The inductive invariant: what the lock tables, the messages in flight   *)
(* and the calls of the processes have to do with each other.              *)

\* The lease table of every coordinator is sound.
Tables == \A k \in Proc : Sound(table[k])

\* Nobody writes to itself.
NoSelf == \A p \in Proc : mail[p][p] = <<>>

\* Every request anybody knows of was made.
Known ==
    \A k, p \in Proc, n \in Nat :
        \/ Asks(mail, p, k, n) \/ Ends(mail, p, k, n) \/ Grants(mail, k, p, n)
        \/ <<p, n>> \in Leases(table[k])
        => n <= last[p]

\* A request on its way is in no table, and nobody answered it.
Unanswered ==
    \A k, p \in Proc, n \in Nat :
        Asks(mail, p, k, n) => /\ <<p, n>> \notin Leases(table[k]) /\ ~Grants(mail, k, p, n)
                               /\ Wants(p, k, n) => call[p] = "waiting"

\* A request in a queue was not answered either.
Queueing ==
    \A k, p \in Proc, n \in Nat :
        <<p, n>> \in Queued(table[k]) => /\ ~Grants(mail, k, p, n)
                                         /\ Wants(p, k, n) => call[p] = "waiting"

\* A grant on its way to who waits for it is a grant of the holder.
Answered ==
    \A k, p \in Proc, n \in Nat :
        Grants(mail, k, p, n) /\ Wants(p, k, n) =>
            /\ call[p] = "waiting"
            /\ up[k] = "up" /\ <<p, n>> \notin taken => table[k].holder = <<p, n>>

\* Who gives a lock back no longer wants it.
Ended == \A k, p \in Proc, n \in Nat : Ends(mail, p, k, n) => ~Wants(p, k, n)

\* Requests and grants are sent once.
OnceEach == \A k, p \in Proc, n \in Nat : AsksOnce(mail, p, k, n) /\ GrantsOnce(mail, k, p, n)

\* NoOrphanLease, where a process that waits for its grant is not enough.
NoOrphan ==
    \A k, p \in Proc, n \in Nat :
        ~lost /\ up[k] = "up" /\ up[p] = "up" /\ table[k].holder = <<p, n>>
        => \/ Wants(p, k, n) /\ call[p] # "waiting"
           \/ Ends(mail, p, k, n)
           \/ Grants(mail, k, p, n)

\* A process is in its own table for the call it makes.
Own ==
    \A k \in Proc, n \in Nat :
        /\ <<k, n>> \in Queued(table[k]) => Wants(k, k, n) /\ call[k] = "waiting"
        /\ <<k, n>> = table[k].holder => Wants(k, k, n) /\ call[k] # "waiting"

\* How requests, leases and messages belong together; the parts are above.
Links ==
    /\ Tables /\ NoSelf /\ Known /\ Unanswered /\ Queueing /\ Answered /\ Ended
    /\ OnceEach /\ NoOrphan /\ Own /\ HolderHolds

\* The mail w holds nothing that m does not.
Fewer(m, w) ==
    /\ w \in MailType
    /\ \A a \in Proc : w[a][a] = m[a][a]
    /\ \A a, b \in Proc : Leaves(w, a, b) => Leaves(m, a, b)
    /\ \A a, b \in Proc, o \in Nat :
        /\ Asks(w, a, b, o) => Asks(m, a, b, o)
        /\ Ends(w, a, b, o) => Ends(m, a, b, o)
        /\ Grants(w, a, b, o) => Grants(m, a, b, o)
        /\ AsksOnce(m, a, b, o) => AsksOnce(w, a, b, o)
        /\ GrantsOnce(m, a, b, o) => GrantsOnce(w, a, b, o)

\* Taking a message off leaves fewer.
LEMMA TakesLeavesFewer ==
  ASSUME NEW m, NEW w, NEW p \in Proc, NEW q \in Proc, NEW x, Takes(m, w, p, q, x), p # q
  PROVE  Fewer(m, w)
  BY DEF Takes, Fewer

\* Nothing is in flight from a process to itself.
LEMMA NothingToSelf ==
  ASSUME NoSelf, NEW p \in Proc, NEW n
  PROVE  ~Asks(mail, p, p, n) /\ ~Ends(mail, p, p, n) /\ ~Grants(mail, p, p, n) /\ ~Leaves(mail, p, p)
  <1>1. Members(mail[p][p]) = {}
    BY DEF NoSelf, Members
  <1> QED BY <1>1 DEF Asks, Ends, Grants, Leaves, Has

\* What sits in a table of the right type.
LEMMA TableFacts ==
  ASSUME NEW t, Sound(t)
  PROVE  /\ t \in TableType /\ Leases(t) \subseteq Lease
         /\ Queued(t) \subseteq Leases(t) /\ NoLease \notin Queued(t)
         /\ t.holder # NoLease => t.holder \in Leases(t) /\ t.holder \in Lease
         /\ t.holder \notin Queued(t)
         /\ \A l \in Leases(t) : l # t.holder => l \in Queued(t)
  <1>1. t \in TableType /\ t.holder \notin Queued(t)
    BY DEF Sound, Single
  <1>2. Queued(t) \subseteq Lease
    BY <1>1 DEF TableType, Queued, Members
  <1> QED BY <1>1, <1>2, LeasesAre, NoLeaseIsNone DEF TableType

-----------------------------------------------------------------------------
(* What one process q does in a step, as far as Links is concerned: its    *)
(* table becomes u without the leases in `gone`, its call goes on or ends, *)
(* and messages come and go.                                               *)

\* The table t becomes u: the leases in `gone` leave it and those in `new` come.
Changes(t, u, gone, new) ==
    /\ Sound(u)
    /\ Leases(u) \subseteq (Leases(t) \ gone) \cup new
    /\ Queued(u) \subseteq Queued(t) \cup new
    /\ t.holder # NoLease /\ t.holder \notin gone => u.holder = t.holder
    /\ u.holder # t.holder => u.holder \in Queued(t) \cup new \cup {NoLease}

\* The holder of a table u that was t is new.
NewHolder(t, u, l) == u.holder = l /\ u.holder # t.holder

\* q asks k for its next request n.
Requests(q, k, p, n) ==
    /\ p = q /\ k # q /\ n = last[q] + 1 /\ last'[q] = n
    /\ at'[q] = k /\ call'[q] = "waiting"

\* Only a new holder is granted, only what is unwanted ends, and no answer gets lost.
MailFollows(q, t, u, gone) ==
    /\ \A a \in Proc : mail'[a][a] = mail[a][a]
    /\ \A k, p \in Proc, n \in Nat :
        /\ Asks(mail', p, k, n) => Asks(mail, p, k, n) \/ Requests(q, k, p, n)
        /\ Ends(mail', p, k, n) => Ends(mail, p, k, n) \/ (n <= last[p] /\ ~Wants(p, k, n)')
        /\ Grants(mail', k, p, n) => Grants(mail, k, p, n) \/ (k = q /\ p # q /\ NewHolder(t, u, <<p, n>>))
        /\ AsksOnce(mail, p, k, n) /\ (Requests(q, k, p, n) => ~Asks(mail, p, k, n)) => AsksOnce(mail', p, k, n)
        /\ /\ GrantsOnce(mail, k, p, n)
           /\ k = q /\ NewHolder(t, u, <<p, n>>) => ~Grants(mail, k, p, n)
           => GrantsOnce(mail', k, p, n)
        /\ ~lost' /\ up'[k] = "up" /\ up'[p] = "up" =>
             /\ Ends(mail, p, k, n) => Ends(mail', p, k, n) \/ (k = q /\ <<p, n>> \in gone)
             /\ Grants(mail, k, p, n) => \/ Grants(mail', k, p, n) \/ Ends(mail', p, k, n)
                                         \/ Wants(p, k, n)' /\ call'[p] # "waiting"
             /\ k = q /\ p # q /\ NewHolder(t, u, <<p, n>>) => Grants(mail', k, p, n)

\* The call of q stays as it is, but for a grant by its own table,
CallStays(q, t, u) ==
    at'[q] = at[q] /\ call'[q] = IF OwnGrant(q, t, u) THEN "granted" ELSE call[q]

\* ... or creates a room under its lock,
CallCreates(q, t, u) ==
    at'[q] = at[q] /\ call[q] = "granted" /\ call'[q] = "creating" /\ ~OwnGrant(q, t, u)

\* ... or has the grant it waited for,
CallGranted(q, t, u) ==
    /\ at'[q] = at[q] /\ at[q] # q /\ call[q] = "waiting" /\ call'[q] = "granted" /\ ~OwnGrant(q, t, u)
    /\ Grants(mail, at[q], q, last[q]) /\ ~Grants(mail', at[q], q, last[q])

\* ... or ends, or goes on without a lock: then it gave back what it held,
CallOff(q, u) ==
    /\ call'[q] # "waiting" /\ (call'[q] = "idle" \/ at'[q] = NoProc)
    /\ \A n \in Nat : <<q, n>> \notin Leases(u)
    /\ \A k \in Proc, n \in Nat :
        /\ k # q /\ ~lost' /\ up'[k] = "up" /\ up'[q] = "up" /\ Wants(q, k, n) /\ call[q] # "waiting"
        => Ends(mail', q, k, n)

\* ... or makes its next request, to itself or to another process.
CallAsks(q, u, new) ==
    /\ call[q] \in {"idle", "waiting"} /\ last'[q] = last[q] + 1 /\ at'[q] \in Proc
    /\ \A n \in Nat : <<q, n>> \notin Leases(table[q])
    /\ \/ /\ at'[q] = q /\ new = {<<q, last[q] + 1>>}
          /\ call'[q] = IF u.holder = <<q, last[q] + 1>> THEN "granted" ELSE "waiting"
       \/ at'[q] # q /\ new = {} /\ call'[q] = "waiting"

\* A step of process q makes u of its table, which loses the leases in gone and gains
\* those in new.
ProcessStep(q, u, gone, new) ==
    /\ Changes(table[q], u, gone, new) /\ table' = [table EXCEPT ![q] = u]
    /\ taken \subseteq taken' /\ (~lost' => ~lost)
    /\ \A p \in Proc : /\ up'[p] = "up" => up[p] = "up"
                       /\ p # q => call'[p] = call[p] /\ at'[p] = at[p] /\ last'[p] = last[p]
    /\ \A p \in Proc, n \in Nat : <<p, n>> \in gone /\ <<p, n>> \in Leases(table[q]) =>
            <<p, n>> \in taken' \/ ~Wants(p, q, n)' \/ up'[q] # "up"
    /\ \A p \in Proc, n \in Nat : <<p, n>> \in new =>
            /\ ~Grants(mail, q, p, n) /\ ~Asks(mail', p, q, n) /\ n <= last'[p]
            /\ p # q /\ Wants(p, q, n)' => call'[p] = "waiting"
    /\ new \cap gone = {} /\ MailFollows(q, table[q], u, gone)
    /\ \/ CallAsks(q, u, new)
       \/ /\ last'[q] = last[q] /\ \A n \in Nat : <<q, n>> \notin new
          /\ \/ CallStays(q, table[q], u) \/ CallCreates(q, table[q], u)
             \/ CallGranted(q, table[q], u) \/ CallOff(q, u)

\* Such a step preserves Links.
LEMMA ProcessStepPreserves ==
  ASSUME TypeOK, Links, NEW q \in Proc, NEW u, NEW gone, NEW new, ProcessStep(q, u, gone, new)
  PROVE  Links'
  <1> DEFINE t == table[q]
             Rests == CallOff(q, u) \/ CallAsks(q, u, new)
  <1>1. /\ \A k \in Proc : table'[k] = IF k = q THEN u ELSE table[k]
        /\ \A p \in Proc : (up'[p] = "up" => up[p] = "up") /\ last[p] \in Nat
        /\ taken \subseteq taken' /\ (~lost' => ~lost)
    BY DEF TypeOK, ProcessStep
  <1>2. Sound(t) /\ Sound(u)
    BY DEF Links, Tables, Changes, ProcessStep
  <1>3. /\ Leases(u) \subseteq (Leases(t) \ gone) \cup new /\ Queued(u) \subseteq Queued(t) \cup new
        /\ (t.holder # NoLease /\ t.holder \notin gone => u.holder = t.holder)
        /\ (u.holder # t.holder => u.holder \in Queued(t) \cup new \cup {NoLease})
    BY DEF Changes, ProcessStep
  <1>4. /\ Queued(t) \subseteq Leases(t) /\ Queued(u) \subseteq Leases(u)
        /\ (t.holder # NoLease => t.holder \in Leases(t)) /\ t.holder \notin Queued(t)
        /\ (u.holder # NoLease => u.holder \in Leases(u)) /\ u.holder \notin Queued(u)
        /\ NoLease \notin Leases(t) /\ NoLease \notin Leases(u)
    BY <1>2, TableFacts, NoLeaseIsNone
  <1>5. \A p \in Proc, n \in Nat : <<p, n>> # NoLease
    BY NoLeaseIsNone DEF Lease
  <1>6. ASSUME OwnGrant(q, t, u), \A n \in Nat : <<q, n>> \notin new
        PROVE  /\ call[q] = "waiting" /\ at[q] = q /\ u.holder = <<q, last[q]>>
               /\ u.holder # t.holder /\ u.holder \in Queued(t)
    <2>1. u.holder[1] = q /\ u.holder # t.holder /\ u.holder # NoLease
      BY <1>6 DEF OwnGrant
    <2>2. PICK n \in Nat : u.holder = <<q, n>>
      BY <1>2, <2>1, TableFacts DEF Lease
    <2>3. <<q, n>> \in Queued(t)
      BY <1>3, <1>6, <2>1, <2>2
    <2> QED BY <2>1, <2>2, <2>3 DEF Links, Own, Wants
  <1>7. ASSUME ~OwnGrant(q, t, u), NEW n \in Nat, u.holder = <<q, n>> PROVE u.holder = t.holder
    BY <1>5, <1>7 DEF OwnGrant
  <1>8. /\ new \cap gone = {} /\ MailFollows(q, t, u, gone)
        /\ \A p \in Proc : p # q => call'[p] = call[p] /\ at'[p] = at[p] /\ last'[p] = last[p]
        /\ \A p \in Proc, n \in Nat : <<p, n>> \in gone /\ <<p, n>> \in Leases(t) =>
              <<p, n>> \in taken' \/ ~Wants(p, q, n)' \/ up'[q] # "up"
        /\ \A p \in Proc, n \in Nat : <<p, n>> \in new =>
              /\ ~Grants(mail, q, p, n) /\ ~Asks(mail', p, q, n) /\ n <= last'[p]
              /\ p # q /\ Wants(p, q, n)' => call'[p] = "waiting"
    BY DEF ProcessStep
  <1>9. \/ CallAsks(q, u, new)
        \/ /\ last'[q] = last[q] /\ \A n \in Nat : <<q, n>> \notin new
           /\ CallStays(q, t, u) \/ CallCreates(q, t, u) \/ CallGranted(q, t, u) \/ CallOff(q, u)
    BY DEF ProcessStep
  <1>10. \A p \in Proc, n \in Nat : ~Asks(mail, p, p, n) /\ ~Ends(mail, p, p, n) /\ ~Grants(mail, p, p, n)
    BY NothingToSelf DEF Links
  <1> HIDE DEF t
  <1>11. \A p \in Proc : last'[p] \in Nat /\ last[p] <= last'[p]
    BY <1>1, <1>8, <1>9 DEF CallAsks
  <1>12. ASSUME NEW p \in Proc, NEW k \in Proc, NEW n \in Nat, n <= last[p], Wants(p, k, n)'
         PROVE  /\ Wants(p, k, n) /\ (p = q => ~Rests)
                /\ call[p] = "waiting" =>
                     \/ call'[p] = "waiting"
                     \/ p = q /\ k = q /\ NewHolder(t, u, <<q, n>>) /\ <<q, n>> \in Queued(t)
                     \/ p = q /\ k # q /\ Grants(mail, k, q, n) /\ ~Grants(mail', k, q, n)
    <2>1. p = q => ~Rests
      BY <1>1, <1>12, ClusterLocksAssumption DEF CallOff, CallAsks, Wants
    <2>2. CASE p # q
      BY <1>8, <1>12, <2>2 DEF Wants
    <2>3. p = q => last'[q] = last[q] /\ \A o \in Nat : <<q, o>> \notin new
      BY <1>9, <2>1
    <2>4. CASE p = q /\ CallStays(q, t, u)
      BY <1>6, <1>12, <2>1, <2>3, <2>4 DEF Wants, CallStays, NewHolder
    <2>5. CASE p = q /\ CallCreates(q, t, u)
      BY <1>12, <2>1, <2>3, <2>5 DEF Wants, CallCreates
    <2>6. CASE p = q /\ CallGranted(q, t, u)
      BY <1>12, <2>1, <2>3, <2>6 DEF Wants, CallGranted
    <2> QED BY <1>9, <2>1, <2>2, <2>4, <2>5, <2>6
  <1>13. ASSUME NEW p \in Proc, NEW k \in Proc, NEW n \in Nat, Wants(p, k, n), call[p] # "waiting",
                p = q => ~Rests
         PROVE  Wants(p, k, n)' /\ call'[p] # "waiting"
    BY <1>8, <1>9, <1>13 DEF Wants, CallStays, CallCreates, CallGranted
  <1>14. ASSUME NEW p \in Proc, NEW n \in Nat, NewHolder(t, u, <<p, n>>)
         PROVE  /\ <<p, n>> \in Queued(t) \cup new /\ ~Grants(mail, q, p, n) /\ n <= last'[p]
                /\ <<p, n>> \notin new => n <= last[p]
    <2>1. <<p, n>> \in Queued(t) \cup new
      BY <1>3, <1>5, <1>14 DEF NewHolder
    <2>2. <<p, n>> \in Queued(t) => ~Grants(mail, q, p, n) /\ n <= last[p]
      BY <1>4 DEF Links, Queueing, Known, t
    <2> QED BY <1>1, <1>8, <1>11, <2>1, <2>2
  <1>15. ASSUME NEW k \in Proc, NEW p \in Proc, NEW n \in Nat,
                \/ Asks(mail, p, k, n) \/ Ends(mail, p, k, n) \/ Grants(mail, k, p, n)
                \/ <<p, n>> \in Leases(table[k])
         PROVE  n <= last[p] /\ n <= last'[p]
    BY <1>1, <1>11, <1>15 DEF Links, Known
  <1>16. ASSUME NEW k \in Proc, NEW p \in Proc, NEW n \in Nat, Requests(q, k, p, n)
         PROVE  /\ ~Asks(mail, p, k, n) /\ ~Grants(mail, k, p, n) /\ <<p, n>> \notin Leases(table[k])
                /\ n <= last'[p] /\ call'[p] = "waiting" /\ k # q
    <2>1. ~(n <= last[p])
      BY <1>1, <1>16 DEF Requests
    <2> QED BY <1>1, <1>11, <1>15, <1>16, <2>1 DEF Requests
  <1> HIDE DEF Rests
  <1>17. Tables'
    BY <1>1, <1>2 DEF Links, Tables, t
  <1>18. NoSelf'
    BY <1>8 DEF Links, NoSelf, MailFollows
  <1>19. Known'
    <2> SUFFICES ASSUME NEW k \in Proc, NEW p \in Proc, NEW n \in Nat,
                        \/ Asks(mail', p, k, n) \/ Ends(mail', p, k, n) \/ Grants(mail', k, p, n)
                        \/ <<p, n>> \in Leases(table'[k])
                 PROVE  n <= last'[p]
      BY DEF Known
    <2>1. CASE <<p, n>> \in Leases(table'[k])
      BY <1>1, <1>3, <1>8, <1>15, <2>1 DEF t
    <2>2. CASE Asks(mail', p, k, n)
      BY <1>8, <1>15, <1>16, <2>2 DEF MailFollows
    <2>3. CASE Ends(mail', p, k, n)
      <3>1. Ends(mail, p, k, n) \/ n <= last[p]
        BY <1>8, <2>3 DEF MailFollows
      <3> QED BY <1>1, <1>11, <1>15, <3>1
    <2>4. CASE Grants(mail', k, p, n)
      BY <1>8, <1>14, <1>15, <2>4 DEF MailFollows
    <2> QED BY <2>1, <2>2, <2>3, <2>4
  <1>20. Unanswered'
    <2> SUFFICES ASSUME NEW k \in Proc, NEW p \in Proc, NEW n \in Nat, Asks(mail', p, k, n)
                 PROVE  /\ <<p, n>> \notin Leases(table'[k]) /\ ~Grants(mail', k, p, n)
                        /\ Wants(p, k, n)' => call'[p] = "waiting"
      BY DEF Unanswered
    <2>0. k = q => <<p, n>> \notin new
      BY <1>8
    <2>1. CASE Requests(q, k, p, n)
      <3>1. table'[k] = table[k] /\ ~Grants(mail', k, p, n)
        BY <1>1, <1>8, <1>16, <2>1, ZenonT(30) DEF MailFollows
      <3> QED BY <1>16, <2>1, <3>1
    <2>2. CASE ~Requests(q, k, p, n)
      <3>1. Asks(mail, p, k, n)
        BY <1>8, <2>2 DEF MailFollows
      <3>2. p # k
        BY <1>10, <3>1
      <3>3. <<p, n>> \notin Leases(table[k]) /\ ~Grants(mail, k, p, n) /\ (Wants(p, k, n) => call[p] = "waiting")
        BY <3>1 DEF Links, Unanswered
      <3>4. n <= last[p]
        BY <1>15, <3>1
      <3>5. Wants(p, k, n)' => call'[p] = "waiting"
        BY <1>12, <3>2, <3>3, <3>4
      <3>6. ~Grants(mail', k, p, n)
        BY <1>4, <1>8, <1>14, <2>0, <3>3 DEF MailFollows, t
      <3> QED BY <1>1, <1>3, <2>0, <3>3, <3>5, <3>6 DEF t
    <2> QED BY <2>1, <2>2
  <1>21. Queueing'
    <2> SUFFICES ASSUME NEW k \in Proc, NEW p \in Proc, NEW n \in Nat, <<p, n>> \in Queued(table'[k])
                 PROVE  ~Grants(mail', k, p, n) /\ (Wants(p, k, n)' => call'[p] = "waiting")
      BY DEF Queueing
    <2>1. k = q => u.holder # <<p, n>>
      BY <1>1, <1>4
    <2>2. CASE k = q /\ <<p, n>> \in new
      <3>1. ~Grants(mail', k, p, n)
        BY <1>8, <2>1, <2>2 DEF MailFollows, NewHolder
      <3>2. ASSUME p = q PROVE call'[p] = "waiting"
        <4>1. CallAsks(q, u, new)
          BY <1>9, <2>2, <3>2
        <4> QED BY <2>1, <2>2, <3>2, <4>1 DEF CallAsks
      <3> QED BY <1>8, <2>2, <3>1, <3>2
    <2>3. CASE ~(k = q /\ <<p, n>> \in new)
      <3>1. <<p, n>> \in Queued(table[k])
        BY <1>1, <1>3, <2>3 DEF t
      <3>2. ~Grants(mail, k, p, n) /\ (Wants(p, k, n) => call[p] = "waiting")
        BY <3>1 DEF Links, Queueing
      <3>3. n <= last[p]
        BY <1>15, <3>1, LeasesAre
      <3>4. Wants(p, k, n)' => call'[p] = "waiting"
        BY <1>12, <2>1, <3>2, <3>3 DEF NewHolder
      <3> QED BY <1>8, <2>1, <3>2, <3>4 DEF MailFollows, NewHolder
    <2> QED BY <2>2, <2>3
  <1>22. Answered'
    <2> SUFFICES ASSUME NEW k \in Proc, NEW p \in Proc, NEW n \in Nat,
                        Grants(mail', k, p, n), Wants(p, k, n)'
                 PROVE  /\ call'[p] = "waiting"
                        /\ up'[k] = "up" /\ <<p, n>> \notin taken' => table'[k].holder = <<p, n>>
      BY DEF Answered
    <2>1. CASE Grants(mail, k, p, n)
      <3>0. n <= last[p]
        BY <1>15, <2>1
      <3>1. p # k /\ Wants(p, k, n)
        BY <1>10, <1>12, <2>1, <3>0
      <3>2. call[p] = "waiting" /\ (up[k] = "up" /\ <<p, n>> \notin taken => table[k].holder = <<p, n>>)
        BY <2>1, <3>1 DEF Links, Answered
      <3>3. ASSUME k = q, up'[q] = "up", t.holder = <<p, n>>, <<p, n>> \notin taken' PROVE u.holder = <<p, n>>
        <4>1. t.holder # NoLease /\ <<p, n>> \in Leases(t)
          BY <1>4, <1>5, <3>3
        <4>2. <<p, n>> \notin gone
          BY <1>8, <3>3, <4>1
        <4> QED BY <1>3, <3>3, <4>1, <4>2
      <3>4. call'[p] = "waiting"
        BY <1>12, <3>0, <3>1, <3>2
      <3> QED BY <1>1, <3>2, <3>3, <3>4 DEF t
    <2>2. CASE ~Grants(mail, k, p, n)
      <3>1. k = q /\ p # q /\ u.holder = <<p, n>> /\ NewHolder(t, u, <<p, n>>)
        BY <1>8, <2>2 DEF MailFollows, NewHolder
      <3>2. call'[p] = "waiting"
        <4>1. CASE <<p, n>> \in new
          BY <1>8, <3>1, <4>1
        <4>2. CASE <<p, n>> \notin new
          <5>1. <<p, n>> \in Queued(table[q]) /\ n <= last[p]
            BY <1>14, <3>1, <4>2 DEF t
          <5>2. call[p] = "waiting"
            BY <1>12, <3>1, <5>1 DEF Links, Queueing
          <5> QED BY <1>8, <3>1, <5>2
        <4> QED BY <4>1, <4>2
      <3> QED BY <1>1, <3>1, <3>2
    <2> QED BY <2>1, <2>2
  <1>23. Ended'
    <2> SUFFICES ASSUME NEW k \in Proc, NEW p \in Proc, NEW n \in Nat, Ends(mail', p, k, n), Wants(p, k, n)'
                 PROVE  FALSE
      BY DEF Ended
    <2>1. Ends(mail, p, k, n)
      BY <1>8 DEF MailFollows
    <2>2. Wants(p, k, n)
      BY <1>12, <1>15, <2>1
    <2> QED BY <2>1, <2>2 DEF Links, Ended
  <1>24. OnceEach'
    <2> SUFFICES ASSUME NEW k \in Proc, NEW p \in Proc, NEW n \in Nat
                 PROVE  AsksOnce(mail', p, k, n) /\ GrantsOnce(mail', k, p, n)
      BY DEF OnceEach
    <2>1. AsksOnce(mail, p, k, n) /\ GrantsOnce(mail, k, p, n)
      BY DEF Links, OnceEach
    <2>2. AsksOnce(mail', p, k, n)
      BY <1>8, <1>16, <2>1 DEF MailFollows
    <2>3. k = q /\ NewHolder(t, u, <<p, n>>) => ~Grants(mail, k, p, n)
      BY <1>14
    <2>4. GrantsOnce(mail', k, p, n)
      BY <1>8, <2>1, <2>3 DEF MailFollows
    <2> QED BY <2>2, <2>4
  <1>25. NoOrphan'
    <2> SUFFICES ASSUME NEW k \in Proc, NEW p \in Proc, NEW n \in Nat,
                        ~lost', up'[k] = "up", up'[p] = "up", table'[k].holder = <<p, n>>
                 PROVE  \/ Wants(p, k, n)' /\ call'[p] # "waiting"
                        \/ Ends(mail', p, k, n) \/ Grants(mail', k, p, n)
      BY DEF NoOrphan
    <2>0. k = q => u.holder = <<p, n>> /\ <<p, n>> \in Leases(u)
      BY <1>1, <1>4, <1>5
    <2>1. CASE k = q /\ u.holder # t.holder
      <3>1. NewHolder(t, u, <<p, n>>)
        BY <2>0, <2>1 DEF NewHolder
      <3>2. CASE p = q /\ ~CallAsks(q, u, new)
        <4>1. OwnGrant(q, t, u)
          BY <1>7, <2>0, <2>1, <3>2
        <4>2. ~CallOff(q, u)
          BY <2>0, <2>1, <3>2 DEF CallOff
        <4>3. CallStays(q, t, u) /\ last'[q] = last[q]
          BY <1>9, <3>2, <4>1, <4>2 DEF CallCreates, CallGranted
        <4>4. call[q] = "waiting" /\ at[q] = q /\ u.holder = <<q, last[q]>>
          BY <1>6, <1>9, <3>2, <4>1
        <4> QED BY <2>0, <2>1, <3>2, <4>1, <4>3, <4>4 DEF Wants, CallStays
      <3>3. CASE p = q /\ CallAsks(q, u, new)
        BY <1>3, <2>0, <2>1, <3>3 DEF CallAsks, Wants, t
      <3>4. CASE p # q
        BY <1>8, <2>1, <3>1, <3>4 DEF MailFollows
      <3> QED BY <3>2, <3>3, <3>4
    <2>2. CASE k = q /\ p = q /\ CallAsks(q, u, new)
      BY <1>3, <2>0, <2>2 DEF CallAsks, Wants, t
    <2>3. CASE ~(k = q /\ u.holder # t.holder) /\ ~(k = q /\ p = q /\ CallAsks(q, u, new))
      <3>1. table[k].holder = <<p, n>>
        BY <1>1, <2>3 DEF t
      <3>2. \/ Wants(p, k, n) /\ call[p] # "waiting"
            \/ Ends(mail, p, k, n) \/ Grants(mail, k, p, n)
        BY <1>1, <3>1 DEF Links, NoOrphan
      <3>3. CASE Wants(p, k, n) /\ call[p] # "waiting"
        <4>1. CASE p = q /\ CallOff(q, u)
          BY <2>0, <2>3, <3>3, <4>1 DEF CallOff
        <4>2. CASE p = q /\ CallAsks(q, u, new)
          BY <3>3, <4>2 DEF CallAsks, Wants
        <4>3. CASE ~(p = q /\ Rests)
          BY <1>13, <3>3, <4>3
        <4> QED BY <4>1, <4>2, <4>3 DEF Rests
      <3>4. CASE Grants(mail, k, p, n)
        BY <1>8, <3>4 DEF MailFollows
      <3>5. CASE Ends(mail, p, k, n)
        <4>1. k = q => <<p, n>> \notin gone
          BY <1>3, <1>8, <2>0
        <4> QED BY <1>8, <3>5, <4>1 DEF MailFollows
      <3> QED BY <3>2, <3>3, <3>4, <3>5
    <2> QED BY <2>1, <2>2, <2>3
  <1>26. Own'
    <2> SUFFICES ASSUME NEW k \in Proc, NEW n \in Nat
                 PROVE  /\ <<k, n>> \in Queued(table'[k]) => Wants(k, k, n)' /\ call'[k] = "waiting"
                        /\ <<k, n>> = table'[k].holder => Wants(k, k, n)' /\ call'[k] # "waiting"
      BY DEF Own
    <2>0. k = q /\ (<<k, n>> \in Queued(table'[k]) \/ <<k, n>> = table'[k].holder) =>
            <<k, n>> \in Leases(u) /\ ~CallOff(q, u)
      BY <1>1, <1>4, <1>5 DEF CallOff
    <2>1. CASE k = q /\ CallAsks(q, u, new)
      BY <1>1, <1>3, <1>4, <2>0, <2>1 DEF CallAsks, Wants, t
    <2>2. CASE ~(k = q /\ CallAsks(q, u, new))
      <3>0. k = q => last'[q] = last[q] /\ (\A o \in Nat : <<q, o>> \notin new)
        BY <1>9, <2>2
      <3>1. ASSUME <<k, n>> \in Queued(table'[k]) PROVE Wants(k, k, n)' /\ call'[k] = "waiting"
        <4>1. <<k, n>> \in Queued(table[k]) /\ (k = q => u.holder # <<k, n>>)
          BY <1>1, <1>3, <1>4, <3>0, <3>1 DEF t
        <4>2. Wants(k, k, n) /\ call[k] = "waiting"
          BY <4>1 DEF Links, Own
        <4> QED BY <1>6, <1>8, <1>9, <2>0, <2>2, <3>0, <3>1, <4>1, <4>2
                DEF Wants, CallStays, CallCreates, CallGranted
      <3>2. ASSUME <<k, n>> = table'[k].holder PROVE Wants(k, k, n)' /\ call'[k] # "waiting"
        <4>1. CASE k = q /\ u.holder # t.holder
          <5>1. u.holder = <<q, n>> /\ OwnGrant(q, t, u)
            BY <1>1, <1>7, <3>2, <4>1
          <5>2. CallStays(q, t, u)
            BY <1>9, <2>0, <2>2, <3>2, <4>1, <5>1 DEF CallCreates, CallGranted
          <5> QED BY <1>6, <3>0, <4>1, <5>1, <5>2 DEF Wants, CallStays
        <4>2. CASE ~(k = q /\ u.holder # t.holder)
          <5>1. table[k].holder = <<k, n>>
            BY <1>1, <3>2, <4>2 DEF t
          <5>2. Wants(k, k, n) /\ call[k] # "waiting"
            BY <5>1 DEF Links, Own
          <5> QED BY <1>13, <2>0, <2>2, <3>2, <5>2 DEF Rests
        <4> QED BY <4>1, <4>2
      <3> QED BY <3>1, <3>2
    <2> QED BY <2>1, <2>2
  <1>27. HolderHolds'
    <2> SUFFICES ASSUME NEW p \in Proc, up'[p] = "up", call'[p] \in {"granted", "creating"},
                        at'[p] # NoProc, up'[at'[p]] = "up", <<p, last'[p]>> \notin taken'
                 PROVE  table'[at'[p]].holder = <<p, last'[p]>>
      BY DEF HolderHolds
    <2>1. CASE p = q /\ CallAsks(q, u, new)
      BY <1>1, <2>1 DEF CallAsks
    <2>2. CASE ~(p = q /\ CallAsks(q, u, new))
      <3>1. p = q => ~CallOff(q, u)
        BY DEF CallOff
      <3>2. at'[p] = at[p] /\ last'[p] = last[p]
        BY <1>8, <1>9, <2>2, <3>1 DEF CallStays, CallCreates, CallGranted
      <3>3. at[p] \in Proc /\ last[p] \in Nat /\ last[p] <= last[p]
        BY <3>2 DEF TypeOK
      <3>4. PICK k \in Proc, n \in Nat : k = at[p] /\ n = last[p] /\ n <= last[p]
        BY <3>3
      <3>5. Wants(p, k, n)'
        BY <3>2, <3>4 DEF Wants
      <3>6. table[k].holder = <<p, n>> \/ (NewHolder(t, u, <<p, n>>) /\ k = q)
        <4>1. CASE call[p] = "waiting"
          <5>1. CASE p = q /\ k = q /\ NewHolder(t, u, <<q, n>>)
            BY <5>1
          <5>2. CASE p = q /\ k # q /\ Grants(mail, k, q, n)
            <6>1. Wants(p, k, n)
              BY <1>12, <3>4, <3>5
            <6> QED BY <1>1, <3>2, <3>4, <5>2, <6>1 DEF Links, Answered
          <5> QED BY <1>12, <3>4, <3>5, <4>1, <5>1, <5>2
        <4>2. CASE call[p] # "waiting"
          <5>1. call[p] \in {"granted", "creating"}
            BY <1>12, <3>4, <3>5, <4>2, ZenonT(30) DEF Wants, TypeOK
          <5> QED BY <1>1, <3>2, <3>4, <5>1 DEF Links, HolderHolds
        <4> QED BY <4>1, <4>2
      <3>7. CASE k = q /\ u.holder # t.holder
        <4>1. ASSUME t.holder = <<p, n>> PROVE FALSE
          <5>1. <<p, n>> \in Leases(t) /\ t.holder # NoLease
            BY <1>4, <1>5, <4>1
          <5>2. <<p, n>> \notin gone
            BY <1>8, <3>2, <3>4, <3>5, <3>7, <5>1
          <5> QED BY <1>3, <3>7, <4>1, <5>1, <5>2
        <4> QED BY <1>1, <3>2, <3>4, <3>6, <3>7, <4>1 DEF NewHolder, t
      <3>8. CASE ~(k = q /\ u.holder # t.holder)
        BY <1>1, <3>2, <3>4, <3>6, <3>8 DEF NewHolder, t
      <3> QED BY <3>7, <3>8
    <2> QED BY <2>1, <2>2
  <1> QED BY <1>17, <1>18, <1>19, <1>20, <1>21, <1>22, <1>23, <1>24, <1>25, <1>26, <1>27 DEF Links

-----------------------------------------------------------------------------
(* The actions are such steps.                                             *)

\* A table that stays, or that leases leave, changes.
LEMMA ChangesFacts ==
  ASSUME NEW t, Sound(t)
  PROVE  /\ Changes(t, t, {}, {})
         /\ \A u, gone : Moves(t, u, gone) => Changes(t, u, gone, {})
  BY DEF Changes, Moves

\* Mail follows a table whose holder is told.
LEMMA TellFollows ==
  ASSUME NEW q \in Proc, NEW t, NEW u, NEW gone, NEW m, Fewer(mail, m), AddsGrant(m, mail', q, t, u),
         UNCHANGED up,
         \A k, p \in Proc, n \in Nat :
            /\ Ends(mail, p, k, n) => Ends(m, p, k, n) \/ (k = q /\ <<p, n>> \in gone)
            /\ Grants(mail, k, p, n) => Grants(m, k, p, n)
  PROVE  MailFollows(q, t, u, gone)
  <1>1. \A a \in Proc : mail'[a][a] = mail[a][a]
    BY DEF Fewer, AddsGrant
  <1> SUFFICES ASSUME NEW k \in Proc, NEW p \in Proc, NEW n \in Nat
        PROVE  
        /\ Asks(mail', p, k, n) => Asks(mail, p, k, n)
        /\ Ends(mail', p, k, n) => Ends(mail, p, k, n)
        /\ Grants(mail', k, p, n) => Grants(mail, k, p, n) \/ (k = q /\ p # q /\ NewHolder(t, u, <<p, n>>))
        /\ AsksOnce(mail, p, k, n) => AsksOnce(mail', p, k, n)
        /\ /\ GrantsOnce(mail, k, p, n)
           /\ k = q /\ NewHolder(t, u, <<p, n>>) => ~Grants(mail, k, p, n)
           => GrantsOnce(mail', k, p, n)
        /\ Ends(mail, p, k, n) => Ends(mail', p, k, n) \/ (k = q /\ <<p, n>> \in gone)
        /\ Grants(mail, k, p, n) => Grants(mail', k, p, n)
        /\ up[p] = "up" /\ k = q /\ p # q /\ NewHolder(t, u, <<p, n>>) => Grants(mail', k, p, n)
    BY <1>1 DEF MailFollows
  <1> QED BY DEF Fewer, AddsGrant, NewHolder

\* Mail follows a process that publishes the end of a request it does not want any more.
LEMMA UnlockFollows ==
  ASSUME NEW q \in Proc, NEW j \in Proc, NEW o \in Nat, NEW m, q # j, Fewer(mail, m), AddsUnlock(m, mail', q, j, o),
         UNCHANGED up, o <= last[q], \A n \in Nat : n = o => ~Wants(q, j, n)',
         \A k, p \in Proc, n \in Nat :
            /\ Ends(mail, p, k, n) => Ends(m, p, k, n)
            /\ Grants(mail, k, p, n) => Grants(m, k, p, n) \/ (k = j /\ p = q /\ n = o)
  PROVE  MailFollows(q, table[q], table[q], {})
  <1>1. \A a \in Proc : mail'[a][a] = mail[a][a]
    BY DEF Fewer, AddsUnlock
  <1> SUFFICES ASSUME NEW k \in Proc, NEW p \in Proc, NEW n \in Nat
        PROVE  
        /\ Asks(mail', p, k, n) => Asks(mail, p, k, n)
        /\ Ends(mail', p, k, n) => Ends(mail, p, k, n) \/ (n <= last[p] /\ ~Wants(p, k, n)')
        /\ Grants(mail', k, p, n) => Grants(mail, k, p, n)
        /\ AsksOnce(mail, p, k, n) => AsksOnce(mail', p, k, n)
        /\ GrantsOnce(mail, k, p, n) => GrantsOnce(mail', k, p, n)
        /\ Ends(mail, p, k, n) => Ends(mail', p, k, n)
        /\ up[k] = "up" /\ Grants(mail, k, p, n) => Grants(mail', k, p, n) \/ Ends(mail', p, k, n)
    BY <1>1 DEF MailFollows, NewHolder
  <1> QED BY DEF Fewer, AddsUnlock

\* Taking nothing leaves the mail.
LEMMA FewerRefl == ASSUME mail \in MailType PROVE Fewer(mail, mail)
  BY DEF Fewer

\* What Links and TypeOK say of the table and the mail.
LEMMA LinksFacts ==
  ASSUME TypeOK, Links, NEW q \in Proc
  PROVE  /\ Sound(table[q]) /\ table[q] \in TableType /\ mail \in MailType
         /\ last[q] \in Nat /\ <<q, last[q]>> \in Lease
         /\ Fewer(mail, mail) /\ \A p \in Proc : mail[p][q] # <<>> => p # q
         /\ \A n \in Nat : <<q, n>> \in Leases(table[q]) => Wants(q, q, n)
  <1>1. Sound(table[q]) /\ mail \in MailType
    BY DEF Links, Tables, TypeOK, MailType
  <1>2. \A n \in Nat : <<q, n>> \in Leases(table[q]) => Wants(q, q, n)
    BY <1>1, TableFacts DEF Links, Own
  <1>3. table[q] \in TableType /\ last[q] \in Nat
    BY DEF TypeOK, TableType
  <1> QED BY <1>1, <1>2, <1>3, FewerRefl DEF Links, NoSelf, Lease

\* A table that leases leave.
LEMMA TableBecomesLinks ==
  ASSUME TypeOK, Links, NEW q \in Proc, NEW u, NEW gone, NEW m, Fewer(mail, m),
         Moves(table[q], u, gone), TableBecomes(q, u, m), UNCHANGED <<up, at, last, lost>>,
         taken \subseteq taken',
         \A p \in Proc, n \in Nat : <<p, n>> \in gone /\ <<p, n>> \in Leases(table[q]) =>
            <<p, n>> \in taken' \/ ~Wants(p, q, n),
         \A k, p \in Proc, n \in Nat :
            /\ Ends(mail, p, k, n) => Ends(m, p, k, n) \/ (k = q /\ <<p, n>> \in gone)
            /\ Grants(mail, k, p, n) => Grants(m, k, p, n)
  PROVE  Links'
  <1>1. table[q] \in TableType /\ u \in TableType /\ m \in MailType /\ Sound(table[q])
    BY LinksFacts DEF Moves, Sound, Single, Fewer
  <1>2. AddsGrant(m, mail', q, table[q], u)
    BY <1>1, TellGrants DEF TableBecomes
  <1>3. MailFollows(q, table[q], u, gone)
    BY <1>2, TellFollows
  <1>4. Changes(table[q], u, gone, {})
    BY <1>1, ChangesFacts
  <1>5. CallStays(q, table[q], u) /\ \A p \in Proc : p # q => call'[p] = call[p]
    BY DEF TableBecomes, CallStays, TypeOK
  <1>6. ASSUME NEW p \in Proc, NEW n \in Nat, Wants(p, q, n)' PROVE Wants(p, q, n)
    <2>1. CASE call'[p] = call[p]
      BY <1>6, <2>1 DEF Wants
    <2>2. CASE call'[p] # call[p]
      <3>1. p = q /\ OwnGrant(q, table[q], u)
        BY <1>5, <2>2 DEF CallStays
      <3>2. u.holder \in Queued(table[q]) /\ u.holder[1] = q
        BY <3>1 DEF Moves, OwnGrant
      <3>3. PICK o \in Nat : u.holder = <<q, o>>
        BY <1>1, <3>1, <3>2, TableFacts DEF OwnGrant, TableType, Lease
      <3>4. call[q] = "waiting"
        BY <3>2, <3>3 DEF Links, Own
      <3> QED BY <1>6, <3>1, <3>4 DEF Wants
    <2> QED BY <2>1, <2>2
  <1>7. ProcessStep(q, u, gone, {})
    BY <1>3, <1>4, <1>5, <1>6 DEF ProcessStep, TableBecomes
  <1> QED BY <1>7, ProcessStepPreserves

\* A call that ends gives its lock back; so does one that stops waiting.
LEMMA GiveBackLinks ==
  ASSUME TypeOK, Links, NEW p \in Proc, GiveBack(p), call[p] \in {"granted", "creating"},
         call' = [call EXCEPT ![p] = "idle"], at' = [at EXCEPT ![p] = NoProc],
         UNCHANGED <<up, last, lost, taken>>
  PROVE  Links'
  <1>1. /\ Sound(table[p]) /\ table[p] \in TableType /\ mail \in MailType /\ Fewer(mail, mail)
        /\ last[p] \in Nat /\ <<p, last[p]>> \in Lease
        /\ \A n \in Nat : <<p, n>> \in Leases(table[p]) => Wants(p, p, n)
    BY LinksFacts
  <1>2. /\ call'[p] = "idle" /\ at'[p] = NoProc
        /\ \A q \in Proc : q # p => call'[q] = call[q] /\ at'[q] = at[q]
        /\ \A k, n : ~Wants(p, k, n)'
    BY DEF TypeOK, Wants
  <1>3. CASE at[p] = p
    <2> DEFINE l == <<p, last[p]>>  u == Release(table[p], l)
    <2>1. table' = [table EXCEPT ![p] = u] /\ mail' = Tell(mail, p, table[p], u)
      BY <1>3, ClusterLocksAssumption DEF GiveBack
    <2>2. Moves(table[p], u, {l})
      BY <1>1, ReleaseEffect
    <2> HIDE DEF u
    <2>3. u \in TableType
      BY <2>2 DEF Moves, Sound, Single
    <2>4. MailFollows(p, table[p], u, {l})
      BY <1>1, <2>1, <2>3, TellGrants, TellFollows
    <2>5. CallOff(p, u)
      <3>1. \A n \in Nat : <<p, n>> \notin Leases(u)
        BY <1>1, <2>2 DEF Moves, Wants
      <3> QED BY <1>2, <1>3, <3>1 DEF CallOff, Wants
    <2>6. ProcessStep(p, u, {l}, {})
      BY <1>1, <1>2, <2>1, <2>2, <2>4, <2>5, ChangesFacts DEF ProcessStep
    <2> QED BY <2>6, ProcessStepPreserves
  <1>4. CASE at[p] # p
    <2>1. table' = [table EXCEPT ![p] = table[p]]
      BY <1>4 DEF GiveBack, TypeOK
    <2>2. \A n \in Nat : <<p, n>> \notin Leases(table[p])
      BY <1>1, <1>4 DEF Wants
    <2>3. MailFollows(p, table[p], table[p], {}) /\ CallOff(p, table[p])
      <3>1. CASE at[p] \in Proc
        <4>1. AddsUnlock(mail, mail', p, at[p], last[p])
          BY <1>1, <1>4, <3>1, SendUnlock, ClusterLocksAssumption DEF GiveBack
        <4>2. last[p] <= last[p]
          BY <1>1
        <4>3. MailFollows(p, table[p], table[p], {})
          <5>1. PICK j \in Proc, o \in Nat : j = at[p] /\ o = last[p]
            BY <1>1, <3>1
          <5> QED BY <1>1, <1>2, <1>4, <4>1, <4>2, <5>1, UnlockFollows
        <4> QED BY <1>2, <2>2, <4>1, <4>3 DEF CallOff, AddsUnlock, Wants
      <3>2. CASE at[p] \notin Proc
        <4>1. UNCHANGED mail
          BY <1>4, <3>2 DEF GiveBack
        <4>2. MailFollows(p, table[p], table[p], {})
          BY <4>1 DEF MailFollows, NewHolder
        <4> QED BY <1>2, <2>2, <3>2, <4>2 DEF CallOff, Wants
      <3> QED BY <3>1, <3>2
    <2>4. ProcessStep(p, table[p], {}, {})
      BY <1>1, <1>2, <2>1, <2>3, ChangesFacts DEF ProcessStep
    <2> QED BY <2>4, ProcessStepPreserves
  <1> QED BY <1>3, <1>4

\* A request that was not answered in time.
LEMMA LockTimeoutLinks == ASSUME TypeOK, Links, NEW p \in Proc, LockTimeout(p) PROVE Links'
  <1>1. /\ Sound(table[p]) /\ table[p] \in TableType /\ mail \in MailType /\ Fewer(mail, mail)
        /\ last[p] \in Nat
        /\ \A n \in Nat : <<p, n>> \in Leases(table[p]) => Wants(p, p, n)
    BY LinksFacts
  <1>2. /\ call[p] = "waiting" /\ at[p] \in Proc \ {p} /\ call'[p] = "granted" /\ at'[p] = NoProc
        /\ \A q \in Proc : q # p => call'[q] = call[q] /\ at'[q] = at[q]
        /\ \A k \in Proc, n \in Nat : ~Wants(p, k, n)'
    BY ClusterLocksAssumption DEF LockTimeout, TypeOK, Wants
  <1>3. PICK j \in Proc, o \in Nat : j = at[p] /\ o = last[p] /\ j # p /\ o <= last[p]
    BY <1>1, <1>2
  <1>4. AddsUnlock(mail, mail', p, j, o)
    BY <1>1, <1>3, SendUnlock DEF LockTimeout
  <1>5. MailFollows(p, table[p], table[p], {})
    BY <1>1, <1>2, <1>3, <1>4, UnlockFollows DEF LockTimeout
  <1>6. CallOff(p, table[p])
    BY <1>1, <1>2 DEF CallOff, Wants
  <1>7. ProcessStep(p, table[p], {}, {})
    BY <1>1, <1>2, <1>5, <1>6, ChangesFacts DEF ProcessStep, LockTimeout, TypeOK
  <1> QED BY <1>7, ProcessStepPreserves

\* lock() makes an attempt, after the leases in `gone` left the process's own table.
LEMMA AttemptLinks ==
  ASSUME TypeOK, Links, NEW p \in Proc, NEW n \in Nat, NEW ps \in SUBSET Proc, NEW t, NEW m, NEW gone,
         Fewer(mail, m), Moves(table[p], t, gone), Attempt(p, n, ps, t, m),
         call[p] = "idle" \/ (call[p] = "waiting" /\ at[p] # p),
         UNCHANGED <<up, lost>>, taken \subseteq taken',
         \A a \in Proc, o \in Nat : <<a, o>> \in gone /\ <<a, o>> \in Leases(table[p]) => <<a, o>> \in taken',
         \A o \in Nat : <<p, o>> \notin gone,
         \A k, a \in Proc, o \in Nat :
            /\ Ends(mail, a, k, o) => Ends(m, a, k, o)
            /\ Grants(mail, k, a, o) => Grants(m, k, a, o)
  PROVE  Links'
  <1> DEFINE k == CoordinatorOf(ps \cup {p})  id == last[p] + 1  l == <<p, id>>  t2 == Acquire(t, l)
  <1>1. /\ Sound(table[p]) /\ table[p] \in TableType /\ m \in MailType
        /\ last[p] \in Nat /\ id \in Nat /\ ~(id <= last[p]) /\ l \in Lease
        /\ Sound(t) /\ t \in TableType
    <2>1. last[p] \in Nat /\ Sound(table[p]) /\ table[p] \in TableType
      BY LinksFacts
    <2> QED BY <2>1 DEF Moves, Sound, Single, Fewer, Lease
  <1>2. k \in Proc
    BY CoordinatorIsMember
  <1>3. \A o \in Nat : <<p, o>> \notin Leases(table[p]) /\ <<p, o>> \notin Leases(t)
    <2>1. \A o \in Nat : <<p, o>> \in Leases(table[p]) => (Wants(p, p, o) /\ call[p] # "waiting") \/ (call[p] = "waiting" /\ at[p] = p)
      BY <1>1, TableFacts DEF Links, Own, Wants
    <2> QED BY <2>1 DEF Moves, Wants
  <1>4. AddsGrant(m, Tell(m, p, table[p], t), p, table[p], t)
    BY <1>1, TellGrants
  <1>5. CASE n >= LockAttempts
    <2>1. /\ call' = [call EXCEPT ![p] = "granted"] /\ at' = [at EXCEPT ![p] = NoProc]
          /\ table' = [table EXCEPT ![p] = t] /\ mail' = Tell(m, p, table[p], t) /\ UNCHANGED last
      BY <1>5 DEF Attempt
    <2>2. MailFollows(p, table[p], t, gone)
      BY <1>4, <2>1, TellFollows
    <2>3. /\ call'[p] = "granted" /\ at'[p] = NoProc
          /\ \A a \in Proc : a # p => call'[a] = call[a] /\ at'[a] = at[a]
      BY <2>1 DEF TypeOK
    <2>4. CallOff(p, t)
      BY <1>3, <2>3 DEF CallOff, Wants
    <2>5. ProcessStep(p, t, gone, {})
      BY <1>1, <2>1, <2>2, <2>3, <2>4, ChangesFacts DEF ProcessStep
    <2> QED BY <2>5, ProcessStepPreserves
  <1>6. CASE ~(n >= LockAttempts)
    <2>1. /\ at' = [at EXCEPT ![p] = k] /\ last' = [last EXCEPT ![p] = id]
          /\ k = p => /\ table' = [table EXCEPT ![p] = t2] /\ mail' = Tell(m, p, table[p], t)
                      /\ call' = [call EXCEPT ![p] = IF t2.holder = l THEN "granted" ELSE "waiting"]
          /\ k # p => /\ table' = [table EXCEPT ![p] = t] /\ call' = [call EXCEPT ![p] = "waiting"]
                      /\ mail' = Tell(Send(m, p, k, Lock(id)), p, table[p], t)
      BY <1>6 DEF Attempt
    <2>2. /\ at'[p] = k /\ last'[p] = id
          /\ \A a \in Proc : a # p => at'[a] = at[a] /\ last'[a] = last[a]
      BY <2>1 DEF TypeOK
    <2> HIDE DEF k, id
    <2>3. CASE k = p
      <3>1. Sound(t2) /\ Leases(t2) = Leases(t) \cup {l}
            /\ (t.holder # NoLease => t2.holder = t.holder /\ Queued(t2) = Queued(t) \cup {l})
            /\ (t.holder = NoLease => t2.holder = l /\ Queued(t2) = {})
        BY <1>1, <1>3, AcquireEffect
      <3> HIDE DEF t2
      <3>2. Changes(table[p], t2, gone, {l})
        BY <3>1 DEF Changes, Moves
      <3>3. /\ call'[p] = IF t2.holder = l THEN "granted" ELSE "waiting"
            /\ \A a \in Proc : a # p => call'[a] = call[a]
        BY <2>1, <2>3 DEF TypeOK
      <3>4. ASSUME NEW a \in Proc, NEW o \in Nat
            PROVE  /\ NewHolder(table[p], t, <<a, o>>) => a # p
                   /\ a # p => (NewHolder(table[p], t, <<a, o>>) <=> NewHolder(table[p], t2, <<a, o>>))
        <4>1. <<a, o>> # NoLease
          BY NoLeaseIsNone DEF Lease
        <4>2. t.holder = <<a, o>> => a # p
          BY <1>1, <1>3, <4>1, TableFacts
        <4>3. CASE t.holder = NoLease
          <5>1. a # p => t2.holder # <<a, o>>
            BY <3>1, <4>3
          <5> QED BY <4>1, <4>3, <5>1 DEF NewHolder
        <4>4. CASE t.holder # NoLease
          BY <3>1, <4>2, <4>4 DEF NewHolder
        <4> QED BY <4>3, <4>4
      <3>5. MailFollows(p, table[p], t, gone)
        BY <1>4, <2>1, <2>3, TellFollows
      <3>6. MailFollows(p, table[p], t2, gone)
        <4>1. ASSUME NEW a \in Proc, NEW o \in Nat, a = p PROVE ~NewHolder(table[p], t, <<a, o>>)
          BY <3>4, <4>1
        <4> QED BY <3>4, <3>5, <4>1 DEF MailFollows
      <3>7. ~Grants(mail, p, p, id) /\ ~Asks(mail', p, p, id)
        <4>1. ~Grants(mail, p, p, id) /\ ~Asks(mail, p, p, id)
          BY NothingToSelf DEF Links
        <4> QED BY <1>1, <2>3, <3>6, <4>1 DEF MailFollows, Requests
      <3>8. CallAsks(p, t2, {l})
        BY <1>3, <2>2, <2>3, <3>3 DEF CallAsks, id
      <3>9. ASSUME NEW a \in Proc, NEW o \in Nat, <<a, o>> \in {l}
            PROVE  /\ ~Grants(mail, p, a, o) /\ ~Asks(mail', a, p, o) /\ o <= last'[a]
                   /\ a = p
        <4>1. a = p /\ o = id
          BY <3>9
        <4> QED BY <1>1, <2>2, <3>7, <4>1
      <3>10. {l} \cap gone = {}
        BY <1>1
      <3>11. ProcessStep(p, t2, gone, {l})
        BY <2>1, <2>2, <2>3, <3>2, <3>3, <3>6, <3>8, <3>9, <3>10 DEF ProcessStep
      <3> QED BY <3>11, ProcessStepPreserves
    <2>4. CASE k # p
      <3> DEFINE w == Send(m, p, k, Lock(id))
      <3>1. AddsLock(m, w, p, k, id)
        BY <1>1, <1>2, SendLock
      <3>2. w \in MailType
        BY <3>1 DEF AddsLock
      <3> HIDE DEF w
      <3>3. AddsGrant(w, mail', p, table[p], t)
        BY <1>1, <2>1, <2>4, <3>2, TellGrants DEF w
      <3>4. call'[p] = "waiting" /\ \A a \in Proc : a # p => call'[a] = call[a]
        BY <2>1, <2>4 DEF TypeOK
      <3>5. Requests(p, k, p, id)
        BY <2>2, <2>4, <3>4 DEF Requests, id
      <3>6. MailFollows(p, table[p], t, gone)
        <4>1. \A a \in Proc : mail'[a][a] = mail[a][a]
          BY <2>4, <3>1, <3>3 DEF Fewer, AddsLock, AddsGrant
        <4>2. ASSUME NEW j \in Proc, NEW a \in Proc, NEW o \in Nat
              PROVE  
              /\ Asks(mail', a, j, o) => Asks(mail, a, j, o) \/ (a = p /\ j = k /\ o = id)
              /\ Ends(mail', a, j, o) => Ends(mail, a, j, o)
              /\ Grants(mail', j, a, o) => Grants(mail, j, a, o) \/ (j = p /\ a # p /\ NewHolder(table[p], t, <<a, o>>))
              /\ AsksOnce(mail, a, j, o) /\ (a = p /\ j = k /\ o = id => ~Asks(mail, a, j, o)) => AsksOnce(mail', a, j, o)
              /\ /\ GrantsOnce(mail, j, a, o)
                 /\ j = p /\ NewHolder(table[p], t, <<a, o>>) => ~Grants(mail, j, a, o)
                 => GrantsOnce(mail', j, a, o)
              /\ Ends(mail, a, j, o) => Ends(mail', a, j, o)
              /\ Grants(mail, j, a, o) => Grants(mail', j, a, o)
              /\ up[a] = "up" /\ j = p /\ a # p /\ NewHolder(table[p], t, <<a, o>>) => Grants(mail', j, a, o)
          BY <1>1, <1>2, <3>1, <3>3 DEF Fewer, AddsLock, AddsGrant, NewHolder
        <4>3. ASSUME NEW j \in Proc, NEW a \in Proc, NEW o \in Nat
              PROVE  a = p /\ j = k /\ o = id <=> Requests(p, j, a, o)
          BY <2>2, <2>4, <3>4 DEF Requests, id
        <4> QED BY <4>1, <4>2, <4>3 DEF MailFollows
      <3>7. CallAsks(p, t, {})
        BY <1>2, <1>3, <2>2, <2>4, <3>4 DEF CallAsks, id
      <3>8. ProcessStep(p, t, gone, {})
        BY <1>1, <2>1, <2>2, <2>4, <3>4, <3>6, <3>7, ChangesFacts DEF ProcessStep
      <3> QED BY <3>8, ProcessStepPreserves
    <2> QED BY <2>3, <2>4
  <1> QED BY <1>5, <1>6

\* A process is taken for gone.
LEMMA PeerLostLinks ==
  ASSUME TypeOK, Links, NEW q \in Proc, NEW p \in Proc, q # p, NEW m, Fewer(mail, m), PeerLost(q, p, m),
         UNCHANGED <<up, lost>>,
         \A k, a \in Proc, o \in Nat :
            /\ Ends(mail, a, k, o) => Ends(m, a, k, o)
            /\ Grants(mail, k, a, o) => Grants(m, k, a, o)
  PROVE  Links'
  <1> DEFINE t == ProcessLost(table[q], p)  gone == {p} \X Nat
  <1>1. Moves(table[q], t, gone)
    BY LinksFacts, LostEffect
  <1>2. /\ taken \subseteq taken'
        /\ \A a \in Proc, o \in Nat : <<a, o>> \in gone /\ <<a, o>> \in Leases(table[q]) => <<a, o>> \in taken'
    BY DEF PeerLost
  <1>3. \A o \in Nat : <<q, o>> \notin gone
    OBVIOUS
  <1>4. CASE call[q] = "waiting" /\ at[q] = p
    <2>1. Attempt(q, tries[q] + 1, peers[q] \ {p}, t, m)
      BY <1>4 DEF PeerLost
    <2>2. tries[q] + 1 \in Nat /\ peers[q] \ {p} \in SUBSET Proc
      <3>1. tries[q] \in 0..2
        BY DEF TypeOK, LockAttempts
      <3>2. peers[q] \in SUBSET Proc
        BY DEF TypeOK
      <3> QED BY <3>1, <3>2
    <2> HIDE DEF t, gone
    <2> QED BY <1>1, <1>2, <1>3, <1>4, <2>1, <2>2, AttemptLinks
  <1>5. CASE ~(call[q] = "waiting" /\ at[q] = p)
    <2>1. TableBecomes(q, t, m) /\ UNCHANGED <<at, last>>
      BY <1>5 DEF PeerLost
    <2> HIDE DEF t, gone
    <2> QED BY <1>1, <1>2, <2>1, TableBecomesLinks
  <1> QED BY <1>4, <1>5

\* A request arrives.
LEMMA ReceiveLockLinks ==
  ASSUME TypeOK, Links, NEW p \in Proc, NEW q \in Proc, NEW n \in Nat, mail[p][q] # <<>>,
         Head(mail[p][q]) = Lock(n), ReceiveLock(p, q, n), UNCHANGED <<up, lost>>
  PROVE  Links'
  <1> DEFINE l == <<p, n>>  u == Acquire(table[q], l)  m == Received(p, q)
  <1>1. /\ Sound(table[q]) /\ table[q] \in TableType /\ mail \in MailType /\ p # q /\ l \in Lease
    BY LinksFacts DEF Lease
  <1>2. Takes(mail, m, p, q, Lock(n)) /\ Asks(mail, p, q, n)
    BY <1>1, ReceivedTakes DEF Asks
  <1>3. Fewer(mail, m) /\ m \in MailType
    <2>1. Fewer(mail, m)
      BY <1>1, <1>2, TakesLeavesFewer
    <2> QED BY <2>1 DEF Fewer
  <1>4. /\ l \notin Leases(table[q]) /\ ~Grants(mail, q, p, n) /\ (Wants(p, q, n) => call[p] = "waiting")
        /\ n <= last[p] /\ ~Asks(m, p, q, n)
    BY <1>2 DEF Links, Unanswered, Known, OnceEach, Takes
  <1>5. /\ Sound(u) /\ Leases(u) = Leases(table[q]) \cup {l}
        /\ (table[q].holder # NoLease => u.holder = table[q].holder /\ Queued(u) = Queued(table[q]) \cup {l})
        /\ (table[q].holder = NoLease => u.holder = l /\ Queued(u) = {})
    BY <1>1, <1>4, AcquireEffect
  <1>6. /\ table' = [table EXCEPT ![q] = u] /\ mail' = Tell(m, q, table[q], u)
        /\ call' = [call EXCEPT ![q] = IF OwnGrant(q, table[q], u) THEN "granted" ELSE @]
        /\ UNCHANGED <<at, last, taken>>
    BY DEF ReceiveLock, TableBecomes
  <1> HIDE DEF u, m
  <1>7. u \in TableType /\ ~OwnGrant(q, table[q], u)
    BY <1>1, <1>5, TableFacts DEF OwnGrant
  <1>8. AddsGrant(m, mail', q, table[q], u)
    BY <1>1, <1>3, <1>6, <1>7, TellGrants
  <1>9. \A k, a \in Proc, o \in Nat :
            /\ Ends(mail, a, k, o) => Ends(m, a, k, o)
            /\ Grants(mail, k, a, o) => Grants(m, k, a, o)
    BY <1>2, MessagesDiffer DEF Takes
  <1>10. MailFollows(q, table[q], u, {})
    BY <1>3, <1>8, <1>9, TellFollows
  <1>11. Changes(table[q], u, {}, {l})
    BY <1>5 DEF Changes
  <1>12. call' = call
    BY <1>6, <1>7 DEF TypeOK
  <1>13. ~Asks(mail', p, q, n)
    BY <1>4, <1>8 DEF AddsGrant
  <1>14. ASSUME NEW a \in Proc, NEW o \in Nat, <<a, o>> \in {l}
         PROVE  /\ ~Grants(mail, q, a, o) /\ ~Asks(mail', a, q, o) /\ o <= last'[a]
                /\ a # q /\ Wants(a, q, o)' => call'[a] = "waiting"
    <2>1. a = p /\ o = n
      BY <1>14
    <2> QED BY <1>4, <1>6, <1>12, <1>13, <2>1 DEF Wants
  <1>15. ProcessStep(q, u, {}, {l})
    BY <1>1, <1>6, <1>7, <1>10, <1>11, <1>12, <1>14 DEF ProcessStep, CallStays
  <1> QED BY <1>15, ProcessStepPreserves

\* A grant arrives.
LEMMA ReceiveGrantLinks ==
  ASSUME TypeOK, Links, NEW p \in Proc, NEW q \in Proc, NEW n \in Nat, mail[p][q] # <<>>,
         Head(mail[p][q]) = Grant(n), ReceiveGrant(p, q, n), UNCHANGED <<up, lost>>
  PROVE  Links'
  <1> DEFINE m == Received(p, q)
  <1>1. Sound(table[q]) /\ table[q] \in TableType /\ mail \in MailType /\ p # q /\ last[q] \in Nat
    BY LinksFacts
  <1>2. Takes(mail, m, p, q, Grant(n)) /\ Grants(mail, p, q, n)
    BY <1>1, ReceivedTakes DEF Grants
  <1>3. Fewer(mail, m) /\ m \in MailType
    <2>1. Fewer(mail, m)
      BY <1>1, <1>2, TakesLeavesFewer
    <2> QED BY <2>1 DEF Fewer
  <1>4. n <= last[q] /\ ~Grants(m, p, q, n) /\ (Wants(q, p, n) => call[q] = "waiting")
    BY <1>2 DEF Links, Answered, Known, OnceEach, Takes
  <1>5. \A k, a \in Proc, o \in Nat :
            /\ Ends(mail, a, k, o) => Ends(m, a, k, o)
            /\ Grants(mail, k, a, o) => Grants(m, k, a, o) \/ (k = p /\ a = q /\ o = n)
    BY <1>2, MessagesDiffer DEF Takes
  <1>6. table' = [table EXCEPT ![q] = table[q]] /\ UNCHANGED <<at, last, taken>>
    BY DEF ReceiveGrant, TypeOK
  <1>7. ~OwnGrant(q, table[q], table[q])
    BY DEF OwnGrant
  <1>8. CASE call[q] = "waiting" /\ at[q] = p /\ last[q] = n
    <2>1. call' = [call EXCEPT ![q] = "granted"] /\ mail' = m
      BY <1>8 DEF ReceiveGrant
    <2>2. call'[q] = "granted" /\ \A a \in Proc : a # q => call'[a] = call[a]
      BY <2>1 DEF TypeOK
    <2> HIDE DEF m
    <2>3. Wants(q, p, n)' /\ call'[q] # "waiting"
      BY <1>6, <1>8, <2>2 DEF Wants
    <2>4. MailFollows(q, table[q], table[q], {})
      <3>1. \A a \in Proc : mail'[a][a] = mail[a][a]
        BY <1>3, <2>1 DEF Fewer
      <3>2. ASSUME NEW k \in Proc, NEW a \in Proc, NEW o \in Nat
            PROVE  
            /\ Asks(mail', a, k, o) => Asks(mail, a, k, o)
            /\ Ends(mail', a, k, o) => Ends(mail, a, k, o)
            /\ Grants(mail', k, a, o) => Grants(mail, k, a, o)
            /\ AsksOnce(mail, a, k, o) => AsksOnce(mail', a, k, o)
            /\ GrantsOnce(mail, k, a, o) => GrantsOnce(mail', k, a, o)
            /\ Ends(mail, a, k, o) => Ends(mail', a, k, o)
            /\ Grants(mail, k, a, o) => Grants(mail', k, a, o) \/ (k = p /\ a = q /\ o = n)
        BY <1>3, <1>5, <2>1 DEF Fewer
      <3> QED BY <2>3, <3>1, <3>2 DEF MailFollows, NewHolder
    <2>5. CallGranted(q, table[q], table[q])
      BY <1>1, <1>2, <1>4, <1>6, <1>7, <1>8, <2>1, <2>2 DEF CallGranted
    <2>6. ProcessStep(q, table[q], {}, {})
      BY <1>1, <1>6, <2>2, <2>4, <2>5, ChangesFacts DEF ProcessStep
    <2> QED BY <2>6, ProcessStepPreserves
  <1>9. CASE ~(call[q] = "waiting" /\ at[q] = p /\ last[q] = n)
    <2>1. UNCHANGED call /\ mail' = Send(m, q, p, Unlock(n))
      BY <1>9 DEF ReceiveGrant
    <2>2. AddsUnlock(m, mail', q, p, n)
      BY <1>3, <2>1, SendUnlock
    <2>3. ~Wants(q, p, n)
      BY <1>4, <1>9 DEF Wants
    <2>4. \A o \in Nat : o = n => ~Wants(q, p, o)'
      BY <1>6, <2>1, <2>3 DEF Wants
    <2> HIDE DEF m
    <2>5. MailFollows(q, table[q], table[q], {})
      BY <1>1, <1>3, <1>4, <1>5, <2>2, <2>4, UnlockFollows
    <2>6. CallStays(q, table[q], table[q])
      BY <1>6, <1>7, <2>1 DEF CallStays
    <2>7. ProcessStep(q, table[q], {}, {})
      BY <1>1, <1>6, <2>1, <2>5, <2>6, ChangesFacts DEF ProcessStep
    <2> QED BY <2>7, ProcessStepPreserves
  <1> QED BY <1>8, <1>9

\* The end of a request arrives.
LEMMA ReceiveUnlockLinks ==
  ASSUME TypeOK, Links, NEW p \in Proc, NEW q \in Proc, NEW n \in Nat, mail[p][q] # <<>>,
         Head(mail[p][q]) = Unlock(n), ReceiveUnlock(p, q, n), UNCHANGED <<up, lost>>
  PROVE  Links'
  <1> DEFINE m == Received(p, q)  l == <<p, n>>  u == Release(table[q], l)
  <1>1. Sound(table[q]) /\ mail \in MailType /\ p # q /\ l \in Lease
    BY LinksFacts DEF Lease
  <1>2. Takes(mail, m, p, q, Unlock(n)) /\ Ends(mail, p, q, n)
    BY <1>1, ReceivedTakes DEF Ends
  <1>3. Fewer(mail, m)
    BY <1>1, <1>2, TakesLeavesFewer
  <1>4. ~Wants(p, q, n)
    BY <1>2 DEF Links, Ended
  <1>5. Moves(table[q], u, {l})
    BY <1>1, ReleaseEffect
  <1>6. TableBecomes(q, u, m) /\ UNCHANGED <<at, last, taken>>
    BY DEF ReceiveUnlock
  <1>7. \A k, a \in Proc, o \in Nat :
            /\ Ends(mail, a, k, o) => Ends(m, a, k, o) \/ (k = q /\ <<a, o>> \in {l})
            /\ Grants(mail, k, a, o) => Grants(m, k, a, o)
    BY <1>2, MessagesDiffer DEF Takes
  <1>8. \A a \in Proc, o \in Nat : <<a, o>> \in {l} => ~Wants(a, q, o)
    BY <1>4
  <1> HIDE DEF u, m, l
  <1> QED BY <1>3, <1>5, <1>6, <1>7, <1>8, TableBecomesLinks

\* A goodbye arrives.
LEMMA ReceiveByeLinks ==
  ASSUME TypeOK, Links, NEW p \in Proc, NEW q \in Proc, mail[p][q] # <<>>,
         Head(mail[p][q]).t = "bye", ReceiveBye(p, q), UNCHANGED <<up, lost>>
  PROVE  Links'
  <1> DEFINE m == Received(p, q)  x == Head(mail[p][q])
  <1>1. Sound(table[q]) /\ mail \in MailType /\ p # q
    BY LinksFacts
  <1>2. Takes(mail, m, p, q, x)
    BY <1>1, ReceivedTakes
  <1>3. Fewer(mail, m)
    BY <1>1, <1>2, TakesLeavesFewer
  <1>4. \A o \in Nat : x # Unlock(o) /\ x # Grant(o) /\ x # Lock(o)
    BY DEF Unlock, Grant, Lock
  <1>5. \A k, a \in Proc, o \in Nat :
            /\ Ends(mail, a, k, o) => Ends(m, a, k, o)
            /\ Grants(mail, k, a, o) => Grants(m, k, a, o)
    BY <1>2, <1>4 DEF Takes
  <1>6. CASE p \in peers[q]
    <2>1. PeerLost(q, p, m)
      BY <1>6 DEF ReceiveBye
    <2> HIDE DEF m
    <2> QED BY <1>1, <1>3, <1>5, <2>1, PeerLostLinks
  <1>7. CASE p \notin peers[q]
    <2>1. mail' = m /\ UNCHANGED <<table, call, at, last, taken>>
      BY <1>7 DEF ReceiveBye, callVars
    <2> HIDE DEF m
    <2>2. MailFollows(q, table[q], table[q], {})
      BY <1>3, <1>5, <2>1 DEF MailFollows, NewHolder, Fewer
    <2>3. table' = [table EXCEPT ![q] = table[q]] /\ CallStays(q, table[q], table[q])
      BY <2>1 DEF TypeOK, CallStays, OwnGrant
    <2>4. ProcessStep(q, table[q], {}, {})
      BY <1>1, <2>1, <2>2, <2>3, ChangesFacts DEF ProcessStep
    <2> QED BY <2>4, ProcessStepPreserves
  <1> QED BY <1>6, <1>7

\* A message is lost.
LEMMA LoseLinks == ASSUME TypeOK, Links, NEW p \in Proc, NEW q \in Proc, Lose(p, q) PROVE Links'
  <1> DEFINE m == Received(p, q)  x == Head(mail[p][q])
  <1>1. /\ Sound(table[q]) /\ mail \in MailType /\ p # q /\ mail[p][q] # <<>>
        /\ mail' = m /\ lost' = TRUE /\ UNCHANGED <<up, table, call, at, last, taken>>
    BY LinksFacts DEF Lose, callVars
  <1>2. Takes(mail, m, p, q, x)
    BY <1>1, ReceivedTakes
  <1>3. Fewer(mail, m)
    BY <1>1, <1>2, TakesLeavesFewer
  <1> HIDE DEF m
  <1>4. MailFollows(q, table[q], table[q], {})
    BY <1>1, <1>3 DEF MailFollows, NewHolder, Fewer
  <1>5. table' = [table EXCEPT ![q] = table[q]] /\ CallStays(q, table[q], table[q])
    BY <1>1 DEF TypeOK, CallStays, OwnGrant
  <1>6. ProcessStep(q, table[q], {}, {})
    BY <1>1, <1>4, <1>5, ChangesFacts DEF ProcessStep
  <1> QED BY <1>6, ProcessStepPreserves

\* A process is gone: its table is empty, nothing reaches it, and what it says on the way out
\* is that it waits no more.
LEMMA GoneLinks ==
  ASSUME TypeOK, Links, NEW p \in Proc, up' = [up EXCEPT ![p] = up'[p]], up'[p] # "up",
         table' = [table EXCEPT ![p] = EmptyTable], UNCHANGED <<last, taken, lost>>,
         \A q \in Proc : q # p => call'[q] = call[q] /\ at'[q] = at[q],
         \/ call'[p] = call[p] /\ at'[p] = at[p]
         \/ call'[p] # "waiting" /\ (call'[p] = "idle" \/ at'[p] = NoProc),
         \A a \in Proc : mail'[a][a] = mail[a][a],
         \A k, a \in Proc, n \in Nat :
            /\ Asks(mail', a, k, n) => Asks(mail, a, k, n)
            /\ Ends(mail', a, k, n) => \/ Ends(mail, a, k, n)
                                       \/ a = p /\ n = last[p] /\ at'[p] = NoProc
            /\ Grants(mail', k, a, n) => Grants(mail, k, a, n)
            /\ AsksOnce(mail, a, k, n) => AsksOnce(mail', a, k, n)
            /\ GrantsOnce(mail, k, a, n) => GrantsOnce(mail', k, a, n)
            /\ k # p /\ Ends(mail, a, k, n) => Ends(mail', a, k, n)
            /\ a # p /\ Grants(mail, k, a, n) => Grants(mail', k, a, n)
  PROVE  Links'
  <1>1. /\ Sound(table[p]) /\ last[p] \in Nat /\ table[p].holder \in Lease \cup {NoLease}
        /\ \A q \in Proc : up'[q] = "up" => up[q] = "up" /\ q # p
    BY LinksFacts DEF TypeOK
  <1>2. Members(<<>>) = {} /\ EmptyTable.queue = <<>> /\ EmptyTable.holder = NoLease /\ EmptyTable \in TableType
    BY DEF Members, EmptyTable, TableType
  <1>3. Sound(EmptyTable) /\ Leases(EmptyTable) = {} /\ Queued(EmptyTable) = {}
    BY <1>2, LeasesAre DEF Sound, Single, Queued, Distinct
  <1>4. Changes(table[p], EmptyTable, Lease, {})
    BY <1>1, <1>2, <1>3 DEF Changes
  <1>5. MailFollows(p, table[p], EmptyTable, Lease)
    <2>1. ASSUME NEW k \in Proc, NEW n \in Nat, at'[p] = NoProc PROVE ~Wants(p, k, n)'
      BY <2>1, ClusterLocksAssumption DEF Wants
    <2>2. \A a \in Proc, n \in Nat : ~NewHolder(table[p], EmptyTable, <<a, n>>)
      BY <1>2, NoLeaseIsNone DEF NewHolder, Lease
    <2>3. ASSUME NEW n \in Nat, n = last[p] PROVE n <= last[p]
      BY <2>3
    <2> QED BY <1>1, <2>1, <2>2, <2>3 DEF MailFollows
  <1>6. ~OwnGrant(p, table[p], EmptyTable)
    BY <1>2 DEF OwnGrant
  <1>7. CallStays(p, table[p], EmptyTable) \/ CallOff(p, EmptyTable)
    BY <1>3, <1>6 DEF CallStays, CallOff
  <1>8. ProcessStep(p, EmptyTable, Lease, {})
    BY <1>1, <1>4, <1>5, <1>7 DEF ProcessStep
  <1> QED BY <1>8, ProcessStepPreserves

\* What stop() does to what a sent b: it says goodbye, and ends the request that waits.
Parted(p, a, b) ==
    \A x \in Message :
        /\ Has(StopMail(p), a, b, x) =>
             \/ Has(mail, a, b, x)
             \/ a = p /\ x = Bye
             \/ a = p /\ x = Unlock(last[p]) /\ call[p] = "waiting" /\ at[p] # p
        /\ b # p /\ Has(mail, a, b, x) => Has(StopMail(p), a, b, x)
        /\ Once(mail, a, b, x) /\ x # Bye /\ x # Unlock(last[p]) => Once(StopMail(p), a, b, x)

\* What stop() leaves on a channel between two processes.
LEMMA StopMailEffect ==
  ASSUME TypeOK, NEW p \in Proc, NEW a \in Proc, NEW b \in Proc, a # b
  PROVE  Parted(p, a, b)
  <1> DEFINE w == StopMail(p)
  <1>1. mail[a][b] \in Seq(Message) /\ mail[p][b] \in Seq(Message) /\ last[p] \in Nat
    BY DEF TypeOK
  <1>2. /\ Members(<<>>) = {} /\ \A x : OnceIn(<<>>, x)
    BY DEF Members, OnceIn
  <1>3. CASE a # p
    <2>1. w[a][b] = mail[a][b] \/ (w[a][b] = <<>> /\ b = p)
      BY <1>3 DEF StopMail, TypeOK
    <2> HIDE DEF w
    <2>2. /\ \A x \in Message : Has(w, a, b, x) => Has(mail, a, b, x)
          /\ \A x \in Message : b # p /\ Has(mail, a, b, x) => Has(w, a, b, x)
          /\ \A x \in Message : Once(mail, a, b, x) => Once(w, a, b, x)
      BY <1>2, <2>1 DEF Has, Once
    <2> QED BY <2>2 DEF Parted, w
  <1>4. CASE a = p
    <2> DEFINE s == mail[p][b]  s1 == Append(s, Bye)  o == last[p]  s2 == Append(s1, Unlock(o))
    <2>1. s \in Seq(Message) /\ Bye \in Message /\ Unlock(o) \in Message /\ s1 \in Seq(Message)
      BY <1>1, MessagesDiffer
    <2>2. s1 \o <<>> = s1 /\ s1 \o <<Unlock(o)>> = s2
      BY <2>1
    <2>3. \/ w[a][b] = s \/ w[a][b] = s1
          \/ w[a][b] = s2 /\ call[p] = "waiting" /\ at[p] # p
      BY <1>4, <2>2 DEF StopMail, StopOut
    <2>4. Members(s1) = Members(s) \cup {Bye} /\ \A x \in Message : OnceIn(s, x) /\ x # Bye => OnceIn(s1, x)
      BY <2>1, AppendMembers, AppendOnce
    <2> HIDE DEF s1, w
    <2>5. /\ Members(s2) = Members(s1) \cup {Unlock(o)}
          /\ \A x \in Message : OnceIn(s1, x) /\ x # Unlock(o) => OnceIn(s2, x)
      BY <2>1, AppendMembers, AppendOnce
    <2> HIDE DEF s2
    <2>6. /\ \A x \in Message : Has(w, a, b, x) =>
               \/ Has(mail, a, b, x) \/ x = Bye
               \/ x = Unlock(o) /\ call[p] = "waiting" /\ at[p] # p
          /\ \A x \in Message : Has(mail, a, b, x) => Has(w, a, b, x)
          /\ \A x \in Message : Once(mail, a, b, x) /\ x # Bye /\ x # Unlock(o) => Once(w, a, b, x)
      BY <1>4, <2>3, <2>4, <2>5 DEF Has, Once
    <2> QED BY <1>4, <2>6 DEF Parted, w
  <1> QED BY <1>3, <1>4

\* stop().
LEMMA StopLinks == ASSUME TypeOK, TypeOK', Links, NEW p \in Proc, Stop(p) PROVE Links'
  <1>1. mail' = StopMail(p) /\ mail' \in MailType
    BY DEF Stop, StopMail, StopOut, TypeOK, MailType
  <1>2. \A a \in Proc : mail'[a][a] = mail[a][a]
    BY <1>1 DEF StopMail, StopOut, TypeOK
  <1>3. /\ up' = [up EXCEPT ![p] = up'[p]] /\ up'[p] # "up"
        /\ table' = [table EXCEPT ![p] = EmptyTable] /\ UNCHANGED <<last, taken, lost>>
    BY DEF Stop, TypeOK
  <1>4. /\ call' = IF call[p] = "waiting" /\ at[p] # p THEN [call EXCEPT ![p] = "granted"] ELSE call
        /\ at'   = IF call[p] = "waiting" /\ at[p] # p THEN [at EXCEPT ![p] = NoProc] ELSE at
    BY DEF Stop
  <1>5. \A q \in Proc : q # p => call'[q] = call[q] /\ at'[q] = at[q]
    BY <1>4 DEF TypeOK
  <1>6. \/ call'[p] = call[p] /\ at'[p] = at[p] /\ ~(call[p] = "waiting" /\ at[p] # p)
        \/ call'[p] = "granted" /\ at'[p] = NoProc
    BY <1>4 DEF TypeOK
  <1>7. last[p] \in Nat
    BY DEF TypeOK
  <1>8. ASSUME NEW k \in Proc, NEW a \in Proc, NEW n \in Nat
        PROVE
            /\ Asks(mail', a, k, n) => Asks(mail, a, k, n)
            /\ Ends(mail', a, k, n) => \/ Ends(mail, a, k, n)
                                       \/ a = p /\ n = last[p] /\ at'[p] = NoProc
            /\ Grants(mail', k, a, n) => Grants(mail, k, a, n)
            /\ AsksOnce(mail, a, k, n) => AsksOnce(mail', a, k, n)
            /\ GrantsOnce(mail, k, a, n) => GrantsOnce(mail', k, a, n)
            /\ k # p /\ Ends(mail, a, k, n) => Ends(mail', a, k, n)
            /\ a # p /\ Grants(mail, k, a, n) => Grants(mail', k, a, n)
    <2>1. CASE a = k
      BY <1>2, <2>1 DEF Asks, Ends, Grants, AsksOnce, GrantsOnce, Has, Once
    <2>2. CASE a # k
      <3>1. Parted(p, a, k) /\ Parted(p, k, a)
        BY <2>2, StopMailEffect
      <3> QED BY <1>1, <1>6, <1>7, <3>1, MessagesDiffer
              DEF Parted, Asks, Ends, Grants, AsksOnce, GrantsOnce
    <2> QED BY <2>1, <2>2
  <1> QED BY <1>2, <1>3, <1>5, <1>6, <1>8, GoneLinks

\* A crash.
LEMMA CrashLinks == ASSUME TypeOK, TypeOK', Links, NEW p \in Proc, Crash(p) PROVE Links'
  <1>1. mail' = [r \in Proc |-> [mail[r] EXCEPT ![p] = <<>>]] /\ mail' \in MailType
    BY DEF Crash, TypeOK, MailType
  <1>2. \A a \in Proc : mail'[a][a] = mail[a][a]
    BY <1>1 DEF TypeOK, Links, NoSelf
  <1>3. /\ up' = [up EXCEPT ![p] = up'[p]] /\ up'[p] # "up"
        /\ table' = [table EXCEPT ![p] = EmptyTable] /\ UNCHANGED <<last, taken, lost>>
        /\ call'[p] = "idle" /\ \A q \in Proc : q # p => call'[q] = call[q] /\ at'[q] = at[q]
    BY DEF Crash, TypeOK
  <1>4. ASSUME NEW k \in Proc, NEW a \in Proc
        PROVE  mail'[a][k] = mail[a][k] \/ (mail'[a][k] = <<>> /\ k = p)
    BY <1>1 DEF TypeOK
  <1>5. Members(<<>>) = {} /\ \A x : OnceIn(<<>>, x)
    BY DEF Members, OnceIn
  <1>6. ASSUME NEW k \in Proc, NEW a \in Proc, NEW n \in Nat
        PROVE
            /\ Asks(mail', a, k, n) => Asks(mail, a, k, n)
            /\ Ends(mail', a, k, n) => \/ Ends(mail, a, k, n)
                                       \/ a = p /\ n = last[p] /\ at'[p] = NoProc
            /\ Grants(mail', k, a, n) => Grants(mail, k, a, n)
            /\ AsksOnce(mail, a, k, n) => AsksOnce(mail', a, k, n)
            /\ GrantsOnce(mail, k, a, n) => GrantsOnce(mail', k, a, n)
            /\ k # p /\ Ends(mail, a, k, n) => Ends(mail', a, k, n)
            /\ a # p /\ Grants(mail, k, a, n) => Grants(mail', k, a, n)
    BY <1>4, <1>5 DEF Asks, Ends, Grants, AsksOnce, GrantsOnce, Has, Once
  <1>7. \/ call'[p] = call[p] /\ at'[p] = at[p]
        \/ call'[p] # "waiting" /\ (call'[p] = "idle" \/ at'[p] = NoProc)
    BY <1>3
  <1> QED BY <1>2, <1>3, <1>6, <1>7, GoneLinks

-----------------------------------------------------------------------------
(* LeasesSound.                                                            *)

\* Nobody is its own peer, and leases are of peers.
PeersKnown == LeasesOfPeers /\ \A p \in Proc : p \notin peers[p]

\* The inductive invariant.
LocksInv == TypeOK /\ Links /\ PeersKnown

\* Every step preserves Links.
LEMMA LinksStep == ASSUME LocksInv, TypeOK', [Next]_vars PROVE Links'
  <1> USE DEF LocksInv
  <1>0. /\ mail \in MailType /\ \A q \in Proc : Sound(table[q]) /\ Fewer(mail, mail)
        /\ \A p, q \in Proc : mail[p][q] # <<>> => p # q
    BY LinksFacts, FewerRefl DEF TypeOK, MailType
  <1>1. ASSUME NEW p \in Proc, Claim(p) PROVE Links'
    <2>1. /\ Attempt(p, 0, peers[p], table[p], mail) /\ call[p] = "idle" /\ UNCHANGED <<up, lost, taken>>
          /\ peers[p] \in SUBSET Proc
      BY <1>1 DEF Claim, histVars, TypeOK
    <2>2. Moves(table[p], table[p], {})
      BY <1>0 DEF Moves
    <2>3. \A a \in Proc, o \in Nat : <<a, o>> \in {} /\ <<a, o>> \in Leases(table[p]) => <<a, o>> \in taken'
      OBVIOUS
    <2>4. \A o \in Nat : <<p, o>> \notin {}
      OBVIOUS
    <2>5. Fewer(mail, mail) /\ taken \subseteq taken' /\ 0 \in Nat
      BY <1>0, <2>1
    <2>6. \A k, a \in Proc, o \in Nat :
            /\ Ends(mail, a, k, o) => Ends(mail, a, k, o)
            /\ Grants(mail, k, a, o) => Grants(mail, k, a, o)
      OBVIOUS
    <2> QED BY <2>1, <2>2, <2>3, <2>4, <2>5, <2>6, AttemptLinks
  <1>2. ASSUME NEW p \in Proc, LockTimeout(p) PROVE Links'
    BY <1>2, LockTimeoutLinks
  <1>3. ASSUME NEW p \in Proc, Look(p) PROVE Links'
    <2>0. UNCHANGED <<up, last, lost, taken>> /\ call[p] = "granted"
      BY <1>3 DEF Look, histVars
    <2>1. CASE GiveBack(p) /\ call' = [call EXCEPT ![p] = "idle"] /\ at' = [at EXCEPT ![p] = NoProc]
      BY <2>0, <2>1, GiveBackLinks
    <2>2. CASE call' = [call EXCEPT ![p] = "creating"] /\ UNCHANGED <<table, mail, at>>
      <3>1. /\ call'[p] = "creating" /\ \A q \in Proc : q # p => call'[q] = call[q]
            /\ table' = [table EXCEPT ![p] = table[p]]
        BY <2>2 DEF TypeOK
      <3>2. MailFollows(p, table[p], table[p], {})
        BY <2>2 DEF MailFollows, NewHolder
      <3>3. CallCreates(p, table[p], table[p])
        BY <2>0, <2>2, <3>1 DEF CallCreates, OwnGrant
      <3>4. ProcessStep(p, table[p], {}, {})
        BY <1>0, <2>0, <2>2, <3>1, <3>2, <3>3, ChangesFacts DEF ProcessStep
      <3> QED BY <3>4, ProcessStepPreserves
    <2> QED BY <1>3, <2>1, <2>2 DEF Look
  <1>4. ASSUME NEW p \in Proc, Create(p) PROVE Links'
    <2>1. /\ UNCHANGED <<up, last, lost, taken>> /\ call[p] = "creating" /\ GiveBack(p)
          /\ call' = [call EXCEPT ![p] = "idle"] /\ at' = [at EXCEPT ![p] = NoProc]
      BY <1>4 DEF Create, histVars
    <2> QED BY <2>1, GiveBackLinks
  <1>5. ASSUME NEW k \in Proc, LeaseExpires(k) PROVE Links'
    <2> DEFINE h == table[k].holder
    <2>1. /\ h # NoLease /\ taken' = taken \cup {h} /\ TableBecomes(k, Release(table[k], h), mail)
          /\ UNCHANGED <<up, at, last, lost>>
      BY <1>5 DEF LeaseExpires
    <2>2. h \in Lease
      BY <1>0, <2>1, TableFacts
    <2>3. Moves(table[k], Release(table[k], h), {h})
      BY <1>0, <2>2, ReleaseEffect
    <2> HIDE DEF h
    <2>4. \A p \in Proc, n \in Nat : <<p, n>> \in {h} /\ <<p, n>> \in Leases(table[k]) =>
            <<p, n>> \in taken' \/ ~Wants(p, k, n)
      BY <2>1
    <2>5. taken \subseteq taken'
      BY <2>1
    <2> QED BY <1>0, <2>1, <2>3, <2>4, <2>5, TableBecomesLinks
  <1>6. ASSUME NEW p \in Proc, NEW q \in Proc, Receive(p, q) PROVE Links'
    <2> DEFINE x == Head(mail[p][q])
    <2>1. mail[p][q] # <<>> /\ UNCHANGED <<up, lost>>
      BY <1>6 DEF Receive, histVars
    <2>2. x \in Message
      BY <1>0, <2>1, ReceivedTakes
    <2>3. x.lease \in Nat /\ x = [t |-> x.t, lease |-> x.lease]
      BY <2>2 DEF Message
    <2> HIDE DEF x
    <2>4. CASE x.t = "lock?" /\ ReceiveLock(p, q, x.lease)
      BY <2>1, <2>3, <2>4, ReceiveLockLinks DEF Lock, x
    <2>5. CASE x.t = "lock!" /\ ReceiveGrant(p, q, x.lease)
      BY <2>1, <2>3, <2>5, ReceiveGrantLinks DEF Grant, x
    <2>6. CASE x.t = "unlock" /\ ReceiveUnlock(p, q, x.lease)
      BY <2>1, <2>3, <2>6, ReceiveUnlockLinks DEF Unlock, x
    <2>7. CASE x.t = "bye" /\ ReceiveBye(p, q)
      BY <2>1, <2>7, ReceiveByeLinks DEF x
    <2> QED BY <1>6, <2>4, <2>5, <2>6, <2>7 DEF Receive, x
  <1>7. ASSUME NEW p \in Proc, Stop(p) PROVE Links'
    BY <1>7, StopLinks
  <1>8. ASSUME NEW p \in Proc, Crash(p) PROVE Links'
    BY <1>8, CrashLinks
  <1>9. ASSUME NEW q \in Proc, NEW p \in Proc, Sweep(q, p) PROVE Links'
    <2>1. PeerLost(q, p, mail) /\ UNCHANGED <<up, lost>> /\ p # q
      BY <1>9 DEF Sweep, PeersKnown
    <2> QED BY <1>0, <2>1, PeerLostLinks
  <1>10. ASSUME NEW p \in Proc, NEW q \in Proc, Lose(p, q) PROVE Links'
    BY <1>10, LoseLinks
  <1>11. ASSUME UNCHANGED <<up, table, call, at, last, mail, taken, lost>> PROVE Links'
    BY <1>11, SMTT(30) DEF Links, Tables, NoSelf, Known, Unanswered, Queueing, Answered, Ended, OnceEach, NoOrphan,
                 Own, HolderHolds, Wants
  <1>12. ASSUME NEW p \in Proc, NEW q \in Proc, Heartbeat(p, q) PROVE Links'
    BY <1>11, <1>12 DEF Heartbeat, tableVars, callVars, histVars
  <1>13. CASE UNCHANGED vars
    BY <1>11, <1>13 DEF vars, tableVars, callVars, histVars
  <1> QED BY <1>1, <1>2, <1>3, <1>4, <1>5, <1>6, <1>7, <1>8, <1>9, <1>10, <1>12, <1>13 DEF Next, Progress

\* A table only takes leases from Acquire.
LEMMA TableLeases ==
  ASSUME NEW t, Sound(t)
  PROVE  /\ \A l \in Lease : Leases(Release(t, l)) \subseteq Leases(t)
         /\ \A l \in Lease : l \notin Leases(t) => Leases(Acquire(t, l)) \subseteq Leases(t) \cup {l}
         /\ \A p \in Proc : Leases(ProcessLost(t, p)) \subseteq Leases(t) \ ({p} \X Nat)
  BY ReleaseEffect, AcquireEffect, LostEffect DEF Moves

\* One attempt leaves a process's table with the leases of t and its own new request.
LEMMA AttemptLeases ==
  ASSUME TypeOK, Links, NEW p \in Proc, NEW n, NEW ps, NEW t, NEW m, Attempt(p, n, ps, t, m), Sound(t),
         Leases(t) \subseteq Leases(table[p])
  PROVE  \A k \in Proc : Leases(table'[k]) \subseteq IF k = p THEN Leases(t) \cup {<<p, last[p] + 1>>} ELSE Leases(table[k])
  <1> DEFINE l == <<p, last[p] + 1>>
  <1>1. l \in Lease /\ l \notin Leases(t)
    <2>1. last[p] \in Nat /\ last[p] + 1 \in Nat /\ ~(last[p] + 1 <= last[p])
      BY DEF TypeOK
    <2> QED BY <2>1 DEF Links, Known, Lease
  <1>2. Leases(Acquire(t, l)) \subseteq Leases(t) \cup {l}
    BY <1>1, TableLeases
  <1>3. table' = [table EXCEPT ![p] = t] \/ table' = [table EXCEPT ![p] = Acquire(t, l)]
    BY DEF Attempt
  <1> QED BY <1>2, <1>3 DEF TypeOK

\* Losing a peer keeps the leases of those that are left.
LEMMA PeerLostPeers ==
  ASSUME LocksInv, NEW q \in Proc, NEW p \in Proc, p # q, NEW m, PeerLost(q, p, m)
  PROVE  PeersKnown'
  <1> DEFINE t == ProcessLost(table[q], p)
  <1>1. Sound(table[q]) /\ \A k \in Proc : Leases(table[k]) \subseteq Lease
    BY TableFacts DEF LocksInv, Links, Tables
  <1>2. Sound(t) /\ Leases(t) \subseteq Leases(table[q]) \ ({p} \X Nat)
    BY <1>1, LostEffect DEF Moves
  <1>3. \A l \in Leases(t) : l[1] # p /\ l \in Leases(table[q])
    BY <1>1, <1>2 DEF Lease
  <1> HIDE DEF t
  <1>4. \A k \in Proc : peers'[k] = IF k = q THEN peers[q] \ {p} ELSE peers[k]
    BY DEF PeerLost, LocksInv, TypeOK
  <1>5. \A k \in Proc : Leases(table'[k]) \subseteq IF k = q THEN Leases(t) \cup {<<q, last[q] + 1>>} ELSE Leases(table[k])
    <2>1. CASE call[q] = "waiting" /\ at[q] = p
      BY <1>2, <2>1, AttemptLeases DEF PeerLost, LocksInv, t
    <2>2. CASE ~(call[q] = "waiting" /\ at[q] = p)
      BY <2>2 DEF PeerLost, TableBecomes, LocksInv, TypeOK, t
    <2> QED BY <2>1, <2>2
  <1> QED BY <1>3, <1>4, <1>5 DEF PeersKnown, LeasesOfPeers, LocksInv

\* Every step keeps leases to peers.
LEMMA PeersStep == ASSUME LocksInv, [Next]_vars PROVE PeersKnown'
  <1>0. /\ PeersKnown /\ TypeOK /\ Links
        /\ \A k \in Proc : Sound(table[k])
        /\ \A p, q \in Proc : mail[p][q] # <<>> => p # q
    BY LinksFacts DEF LocksInv
  <1>1. ASSUME \A k \in Proc : Leases(table'[k]) \subseteq Leases(table[k]) /\ peers[k] \subseteq peers'[k] /\ k \notin peers'[k]
        PROVE  PeersKnown'
    BY <1>0, <1>1 DEF PeersKnown, LeasesOfPeers
  <1>2. ASSUME NEW p \in Proc, GiveBack(p), UNCHANGED peers PROVE PeersKnown'
    <2>1. <<p, last[p]>> \in Lease
      BY <1>0 DEF TypeOK, Lease
    <2>2. Leases(Release(table[p], <<p, last[p]>>)) \subseteq Leases(table[p])
      BY <1>0, <2>1, TableLeases
    <2>3. table' = table \/ table' = [table EXCEPT ![p] = Release(table[p], <<p, last[p]>>)]
      BY <1>2 DEF GiveBack
    <2>4. \A k \in Proc : Leases(table'[k]) \subseteq Leases(table[k])
      BY <1>0, <2>2, <2>3 DEF TypeOK
    <2> QED BY <1>0, <1>1, <1>2, <2>4 DEF PeersKnown
  <1>3. ASSUME NEW p \in Proc, NEW q \in Proc, Receive(p, q) PROVE PeersKnown'
    <2> DEFINE x == Head(mail[p][q])
    <2>1. mail[p][q] # <<>> /\ p # q
      BY <1>0, <1>3 DEF Receive
    <2>2. x \in Message
      BY <1>0, <2>1, ReceivedTakes DEF TypeOK, MailType
    <2>3. x.lease \in Nat /\ <<p, x.lease>> \in Lease
      BY <2>2 DEF Message, Lease
    <2>4. Seen(q, p) => \A k \in Proc : peers'[k] = IF k = q THEN peers[q] \cup {p} ELSE peers[k]
      BY <1>0 DEF Seen, TypeOK
    <2>5. x = Lock(x.lease) => <<p, x.lease>> \notin Leases(table[q])
      <3>0. Has(mail, p, q, x)
        BY <1>0, <2>1, ReceivedTakes DEF TypeOK, MailType
      <3> HIDE DEF x
      <3>1. x = Lock(x.lease) => Asks(mail, p, q, x.lease)
        BY <3>0 DEF Asks
      <3> QED BY <1>0, <2>3, <3>1 DEF Links, Unanswered
    <2>6. x.t = "lock?" => x = Lock(x.lease)
      BY <2>2 DEF Message, Lock
    <2> HIDE DEF x
    <2>7. CASE x.t = "lock?" /\ ReceiveLock(p, q, x.lease)
      <3>1. Leases(Acquire(table[q], <<p, x.lease>>)) \subseteq Leases(table[q]) \cup {<<p, x.lease>>}
        BY <1>0, <2>3, <2>5, <2>6, <2>7, TableLeases
      <3>2. table' = [table EXCEPT ![q] = Acquire(table[q], <<p, x.lease>>)] /\ Seen(q, p)
        BY <2>7 DEF ReceiveLock, TableBecomes
      <3>3. \A k \in Proc : Leases(table'[k]) \subseteq IF k = q THEN Leases(table[q]) \cup {<<p, x.lease>>} ELSE Leases(table[k])
        BY <1>0, <3>1, <3>2 DEF TypeOK
      <3> QED BY <1>0, <2>1, <2>4, <3>2, <3>3 DEF PeersKnown, LeasesOfPeers
    <2>8. CASE ReceiveGrant(p, q, x.lease)
      BY <1>0, <1>1, <2>1, <2>4, <2>8 DEF ReceiveGrant, PeersKnown
    <2>9. CASE ReceiveUnlock(p, q, x.lease)
      <3>1. Leases(Release(table[q], <<p, x.lease>>)) \subseteq Leases(table[q])
        BY <1>0, <2>3, TableLeases
      <3>2. table' = [table EXCEPT ![q] = Release(table[q], <<p, x.lease>>)] /\ Seen(q, p)
        BY <2>9 DEF ReceiveUnlock, TableBecomes
      <3>3. \A k \in Proc : Leases(table'[k]) \subseteq Leases(table[k])
        BY <1>0, <3>1, <3>2 DEF TypeOK
      <3> QED BY <1>0, <1>1, <2>1, <2>4, <3>2, <3>3 DEF PeersKnown
    <2>10. CASE ReceiveBye(p, q)
      <3>1. CASE p \in peers[q]
        BY <2>1, <2>10, <3>1, PeerLostPeers DEF ReceiveBye
      <3>2. CASE p \notin peers[q]
        BY <1>0, <1>1, <2>10, <3>2 DEF ReceiveBye, PeersKnown
      <3> QED BY <3>1, <3>2
    <2> QED BY <1>3, <2>7, <2>8, <2>9, <2>10 DEF Receive, x
  <1>4. ASSUME NEW p \in Proc, Claim(p) PROVE PeersKnown'
    <2>1. \A k \in Proc : Leases(table'[k]) \subseteq IF k = p THEN Leases(table[p]) \cup {<<p, last[p] + 1>>} ELSE Leases(table[k])
      BY <1>0, <1>4, AttemptLeases DEF Claim
    <2> QED BY <1>0, <1>4, <2>1 DEF Claim, PeersKnown, LeasesOfPeers
  <1>5. ASSUME NEW p \in Proc, LockTimeout(p) PROVE PeersKnown'
    BY <1>0, <1>1, <1>5 DEF LockTimeout, PeersKnown
  <1>6. ASSUME NEW p \in Proc, Look(p) PROVE PeersKnown'
    <2>1. UNCHANGED peers /\ (GiveBack(p) \/ UNCHANGED table)
      BY <1>6 DEF Look
    <2>2. UNCHANGED table => PeersKnown'
      BY <1>0, <1>1, <2>1 DEF PeersKnown
    <2> QED BY <1>2, <2>1, <2>2
  <1>7. ASSUME NEW p \in Proc, Create(p) PROVE PeersKnown'
    BY <1>2, <1>7 DEF Create
  <1>8. ASSUME NEW k \in Proc, LeaseExpires(k) PROVE PeersKnown'
    <2>1. table[k].holder \in Lease
      BY <1>0, <1>8, TableFacts DEF LeaseExpires
    <2>2. Leases(Release(table[k], table[k].holder)) \subseteq Leases(table[k])
      BY <1>0, <2>1, TableLeases
    <2>3. \A j \in Proc : Leases(table'[j]) \subseteq Leases(table[j])
      BY <1>0, <1>8, <2>2 DEF LeaseExpires, TableBecomes, TypeOK
    <2> QED BY <1>0, <1>1, <1>8, <2>3 DEF LeaseExpires, PeersKnown
  <1>9. ASSUME NEW p \in Proc, Stop(p) \/ Crash(p) PROVE PeersKnown'
    <2>1. /\ \A k \in Proc : peers'[k] = IF k = p THEN {} ELSE peers[k]
          /\ \A k \in Proc : table'[k] = IF k = p THEN EmptyTable ELSE table[k]
      BY <1>0, <1>9 DEF Stop, Crash, TypeOK
    <2>2. Leases(EmptyTable) = {}
      BY DEF Leases, EmptyTable
    <2> QED BY <1>0, <2>1, <2>2 DEF PeersKnown, LeasesOfPeers
  <1>10. ASSUME NEW p \in Proc, NEW q \in Proc, Heartbeat(p, q) PROVE PeersKnown'
    <2>1. /\ \A k \in Proc : peers'[k] = IF k = q THEN peers[q] \cup {p} ELSE peers[k]
          /\ p # q /\ UNCHANGED table
      BY <1>0, <1>10 DEF Heartbeat, Seen, TypeOK, tableVars
    <2> QED BY <1>0, <1>1, <2>1 DEF PeersKnown
  <1>11. ASSUME NEW q \in Proc, NEW p \in Proc, Sweep(q, p) PROVE PeersKnown'
    <2>1. PeerLost(q, p, mail) /\ p # q
      BY <1>0, <1>11 DEF Sweep, PeersKnown
    <2> QED BY <2>1, PeerLostPeers
  <1>12. ASSUME NEW p \in Proc, NEW q \in Proc, Lose(p, q) PROVE PeersKnown'
    BY <1>0, <1>1, <1>12 DEF Lose, PeersKnown
  <1>13. CASE UNCHANGED vars
    BY <1>0, <1>1, <1>13 DEF vars, tableVars, PeersKnown
  <1> QED BY <1>3, <1>4, <1>5, <1>6, <1>7, <1>8, <1>9, <1>10, <1>11, <1>12, <1>13 DEF Next, Progress

\* The invariant holds at first.
LEMMA LocksInit == ASSUME Init PROVE LocksInv
  <1>1. TypeOK
    BY TypeInit
  <1>2. Members(<<>>) = {} /\ \A x : OnceIn(<<>>, x)
    BY DEF Members, OnceIn
  <1>3. \A p \in Proc : table[p] = EmptyTable /\ call[p] = "idle" /\ \A q \in Proc : mail[p][q] = <<>>
    BY DEF Init
  <1>4. /\ EmptyTable.queue = <<>> /\ EmptyTable.holder = NoLease /\ EmptyTable \in TableType
    BY DEF EmptyTable, TableType
  <1>5. Sound(EmptyTable) /\ Leases(EmptyTable) = {} /\ Queued(EmptyTable) = {}
    BY <1>2, <1>4, LeasesAre DEF Sound, Single, Queued, Distinct
  <1>6. \A p \in Proc, n \in Nat : <<p, n>> # NoLease
    BY NoLeaseIsNone DEF Lease
  <1>7. Tables /\ NoSelf /\ Known /\ Unanswered /\ Queueing /\ Answered /\ Ended /\ OnceEach
    BY <1>2, <1>3, <1>5 DEF Tables, NoSelf, Known, Unanswered, Queueing, Answered, Ended, OnceEach,
                            Asks, Ends, Grants, AsksOnce, GrantsOnce, Has, Once
  <1>8. NoOrphan /\ Own /\ HolderHolds
    BY <1>3, <1>4, <1>5, <1>6 DEF NoOrphan, Own, HolderHolds
  <1>9. PeersKnown
    BY <1>3, <1>5 DEF Init, PeersKnown, LeasesOfPeers
  <1> QED BY <1>1, <1>7, <1>8, <1>9 DEF LocksInv, Links

\* Every step preserves the invariant.
LEMMA LocksStep == ASSUME LocksInv, [Next]_vars PROVE LocksInv'
  <1>1. TypeOK'
    BY TypeStep DEF LocksInv
  <1> QED BY <1>1, LinksStep, PeersStep DEF LocksInv

\* The invariant says that leases are sound.
LEMMA LocksImply == ASSUME LocksInv PROVE LeasesSound
  <1>1. HolderHolds /\ LeasesOfPeers
    BY DEF LocksInv, Links, PeersKnown
  <1>2. FreeLockHasNoWaiters
    BY DEF LocksInv, Links, Tables, Sound, FreeLockHasNoWaiters
  <1>3. ASSUME NEW k \in Proc, NEW p \in Proc, NEW n \in Nat
        PROVE  /\ Ends(mail, p, k, n) => InFlight(p, k, Unlock(n))
               /\ Grants(mail, k, p, n) => InFlight(k, p, Grant(n))
    BY DEF Ends, Grants, Has, Members, InFlight
  <1>4. NoOrphanLease
    <2> SUFFICES ASSUME NEW k \in Proc, NEW p \in Proc, NEW n \in 1..last[p],
                        ~lost, up[k] = "up", up[p] = "up", table[k].holder = <<p, n>>
                 PROVE  Wants(p, k, n) \/ InFlight(p, k, Unlock(n)) \/ InFlight(k, p, Grant(n))
      BY DEF NoOrphanLease
    <2>1. n \in Nat
      BY DEF LocksInv, TypeOK
    <2> QED BY <1>3, <2>1 DEF LocksInv, Links, NoOrphan
  <1> QED BY <1>1, <1>2, <1>4 DEF LeasesSound

\* The lease tables stay sound (cluster/locks.ts, lock() in cluster/node.ts), for any number of
\* processes, calls, crashes, lost messages and false suspicions.
THEOREM LeasesAreSound == Spec => []LeasesSound
  <1>1. Spec => []LocksInv
    BY LocksInit, LocksStep, PTL DEF Spec
  <1> QED BY <1>1, LocksImply, PTL

-----------------------------------------------------------------------------
(* OneRoomPerPool.                                                         *)

\* While nothing went wrong everybody runs and knows everybody, every call asks the same
\* coordinator, and a room is created only where there is none.
Calm ==
    ~disturbed =>
        /\ taken = {}
        /\ \A p \in Proc :
            /\ up[p] = "up" /\ peers[p] = Proc \ {p}
            /\ call[p] # "idle" => at[p] = CoordinatorOf(Proc) /\ p \notin rooms
            /\ call[p] = "creating" => rooms = {}
            /\ \A q \in Proc : ~Leaves(mail, p, q)
        /\ \A p, q \in rooms : p = q

\* A table that grants a call of its own process grants one that waits.
LEMMA OwnGrantWaits ==
  ASSUME LocksInv, NEW q \in Proc, NEW u, NEW gone, Moves(table[q], u, gone), OwnGrant(q, table[q], u)
  PROVE  call[q] = "waiting"
  <1>1. u.holder \in Queued(table[q]) /\ u.holder[1] = q
    BY DEF Moves, OwnGrant
  <1>2. PICK n \in Nat : u.holder = <<q, n>>
    BY <1>1, TableFacts DEF LocksInv, Links, Tables, Lease
  <1> QED BY <1>1, <1>2 DEF LocksInv, Links, Own

\* A change of a table keeps the calls calm.
LEMMA TableBecomesCalm ==
  ASSUME LocksInv, Calm, ~disturbed, NEW q \in Proc, NEW u, u \in TableType, NEW m, Fewer(mail, m),
         TableBecomes(q, u, m), OwnGrant(q, table[q], u) => call[q] = "waiting",
         UNCHANGED <<up, peers, at, rooms, taken>>
  PROVE  Calm'
  <1>1. table[q] \in TableType /\ m \in MailType
    BY DEF LocksInv, TypeOK, TableType, Fewer
  <1>2. AddsGrant(m, mail', q, table[q], u)
    BY <1>1, TellGrants DEF TableBecomes
  <1>3. \A a, b \in Proc : ~Leaves(mail', a, b)
    BY <1>2 DEF AddsGrant, Fewer, Calm
  <1>4. \A p \in Proc : call'[p] = call[p] \/ (call[p] = "waiting" /\ call'[p] = "granted")
    BY DEF TableBecomes, LocksInv, TypeOK
  <1> QED BY <1>3, <1>4 DEF Calm

\* Giving the lock back publishes no goodbye.
LEMMA GiveBackCalm ==
  ASSUME LocksInv, Calm, ~disturbed, NEW p \in Proc, GiveBack(p) PROVE \A a, b \in Proc : ~Leaves(mail', a, b)
  <1> DEFINE u == Release(table[p], <<p, last[p]>>)
  <1>1. /\ mail \in MailType /\ table[p] \in TableType /\ last[p] \in Nat
        /\ Sound(table[p]) /\ <<p, last[p]>> \in Lease
    BY LinksFacts DEF LocksInv
  <1>2. u \in TableType
    BY <1>1, TableTypes
  <1>3. CASE at[p] = p /\ mail' = Tell(mail, p, table[p], u)
    <2>1. AddsGrant(mail, mail', p, table[p], u)
      BY <1>1, <1>2, <1>3, TellGrants
    <2> QED BY <2>1 DEF AddsGrant, Calm
  <1>4. CASE at[p] \in Proc \ {p} /\ mail' = Send(mail, p, at[p], Unlock(last[p]))
    <2>1. AddsUnlock(mail, mail', p, at[p], last[p])
      BY <1>1, <1>4, SendUnlock
    <2> QED BY <2>1 DEF AddsUnlock, Calm
  <1>5. CASE UNCHANGED mail
    BY <1>5 DEF Calm
  <1> QED BY <1>3, <1>4, <1>5 DEF GiveBack

\* Two processes never create under the lock at once.
LEMMA OneCreator ==
  ASSUME LocksInv, Calm, ~disturbed, NEW p \in Proc, NEW q \in Proc, call[p] = "creating", call[q] = "creating"
  PROVE  p = q
  <1>1. CoordinatorOf(Proc) \in Proc /\ CoordinatorOf(Proc) # NoProc
    BY CoordinatorIsMember, ClusterLocksAssumption
  <1>2. table[CoordinatorOf(Proc)].holder = <<p, last[p]>> /\ table[CoordinatorOf(Proc)].holder = <<q, last[q]>>
    BY <1>1 DEF Calm, LocksInv, Links, HolderHolds
  <1> QED BY <1>2

\* Every step keeps calm, or something went wrong.
LEMMA CalmStep == ASSUME LocksInv, Calm, [Next]_vars PROVE Calm'
  <1> SUFFICES ASSUME ~disturbed' PROVE Calm'
    BY DEF Calm
  <1>0. /\ TypeOK /\ Links /\ mail \in MailType /\ \A q \in Proc : Sound(table[q]) /\ Fewer(mail, mail)
        /\ \A p, q \in Proc : mail[p][q] # <<>> => p # q
    BY LinksFacts, FewerRefl DEF LocksInv, TypeOK, MailType
  <1>1. ASSUME NEW p \in Proc, Claim(p) PROVE Calm'
    <2>1. ~disturbed /\ UNCHANGED <<up, peers, rooms, taken, disturbed>> /\ p \notin rooms
      BY <1>1 DEF Claim, histVars
    <2>2. Attempt(p, 0, peers[p], table[p], mail) /\ peers[p] \cup {p} = Proc
      BY <1>1, <2>1 DEF Claim, Calm
    <2> DEFINE k == CoordinatorOf(Proc)  id == last[p] + 1
    <2>3. /\ at' = [at EXCEPT ![p] = k]
          /\ \/ mail' = Tell(mail, p, table[p], table[p])
             \/ mail' = Tell(Send(mail, p, k, Lock(id)), p, table[p], table[p])
          /\ \E c \in {"waiting", "granted"} : call' = [call EXCEPT ![p] = c]
      <3>1. ~(0 >= LockAttempts) /\ CoordinatorOf(peers[p] \cup {p}) = k
        BY <2>2 DEF LockAttempts
      <3> DEFINE u == Acquire(table[p], <<p, id>>)
      <3>2. /\ at' = [at EXCEPT ![p] = k]
            /\ IF k = p
               THEN /\ call' = [call EXCEPT ![p] = IF u.holder = <<p, id>> THEN "granted" ELSE "waiting"]
                    /\ mail' = Tell(mail, p, table[p], table[p])
               ELSE /\ call' = [call EXCEPT ![p] = "waiting"]
                    /\ mail' = Tell(Send(mail, p, k, Lock(id)), p, table[p], table[p])
        BY <2>2, <3>1, Zenon DEF Attempt
      <3> HIDE DEF k, id, u
      <3>3. \E c \in {"waiting", "granted"} : call' = [call EXCEPT ![p] = c]
        BY <3>2
      <3> QED BY <3>2, <3>3
    <2>4. k \in Proc /\ id \in Nat /\ table[p] \in TableType
      BY <1>0, CoordinatorIsMember DEF TypeOK, TableType
    <2> HIDE DEF k, id
    <2>5. ASSUME NEW m \in MailType, \A a, b \in Proc : ~Leaves(m, a, b),
                 mail' = Tell(m, p, table[p], table[p])
          PROVE  \A a, b \in Proc : ~Leaves(mail', a, b)
      <3>1. AddsGrant(m, mail', p, table[p], table[p])
        BY <2>4, <2>5, TellGrants
      <3> QED BY <2>5, <3>1 DEF AddsGrant
    <2>6. AddsLock(mail, Send(mail, p, k, Lock(id)), p, k, id)
      BY <1>0, <2>4, SendLock
    <2>7. /\ Send(mail, p, k, Lock(id)) \in MailType
          /\ \A a, b \in Proc : ~Leaves(mail, a, b) /\ ~Leaves(Send(mail, p, k, Lock(id)), a, b)
      BY <2>1, <2>6 DEF AddsLock, Calm
    <2>8. \A a, b \in Proc : ~Leaves(mail', a, b)
      BY <1>0, <2>3, <2>5, <2>7
    <2>9. \A q \in Proc : \/ call'[q] = call[q] /\ at'[q] = at[q]
                          \/ q = p /\ call'[q] # "creating" /\ at'[q] = k
      BY <1>0, <2>3 DEF TypeOK
    <2> QED BY <2>1, <2>8, <2>9 DEF Calm, k
  <1>2. ASSUME NEW p \in Proc, Look(p) PROVE Calm'
    <2>1. ~disturbed /\ UNCHANGED <<up, peers, rooms, taken, disturbed>> /\ call[p] = "granted"
      BY <1>2 DEF Look, histVars
    <2>2. CASE GiveBack(p) /\ call' = [call EXCEPT ![p] = "idle"] /\ at' = [at EXCEPT ![p] = NoProc]
      <3>1. \A q \in Proc : call'[q] = "idle" \/ (call'[q] = call[q] /\ at'[q] = at[q])
        BY <1>0, <2>2 DEF TypeOK
      <3>2. \A a, b \in Proc : ~Leaves(mail', a, b)
        BY <2>1, <2>2, GiveBackCalm
      <3> QED BY <2>1, <3>1, <3>2 DEF Calm
    <2>3. CASE (disturbed \/ rooms \cap peers[p] = {}) /\ call' = [call EXCEPT ![p] = "creating"]
               /\ UNCHANGED <<table, mail, at>>
      <3>1. rooms = {}
        BY <1>0, <2>1, <2>3 DEF Calm, TypeOK
      <3>2. \A q \in Proc : call'[q] # "idle" => call[q] # "idle"
        BY <1>0, <2>1, <2>3 DEF TypeOK
      <3> QED BY <2>1, <2>3, <3>1, <3>2 DEF Calm
    <2> QED BY <1>2, <2>2, <2>3 DEF Look
  <1>3. ASSUME NEW p \in Proc, Create(p) PROVE Calm'
    <2>1. /\ ~disturbed /\ UNCHANGED <<up, peers, taken, disturbed>> /\ call[p] = "creating"
          /\ rooms' \in {rooms, rooms \cup {p}} /\ GiveBack(p)
          /\ call' = [call EXCEPT ![p] = "idle"] /\ at' = [at EXCEPT ![p] = NoProc]
      BY <1>3 DEF Create, histVars
    <2>2. rooms = {} /\ rooms' \subseteq {p}
      BY <2>1 DEF Calm
    <2>3. \A q \in Proc : call'[q] = "idle" \/ (q # p /\ call'[q] = call[q] /\ at'[q] = at[q])
      BY <1>0, <2>1 DEF TypeOK
    <2>4. \A q \in Proc : call'[q] # "creating"
      BY <2>1, <2>3, OneCreator
    <2>5. \A a, b \in Proc : ~Leaves(mail', a, b)
      BY <2>1, GiveBackCalm
    <2> QED BY <2>1, <2>2, <2>3, <2>4, <2>5 DEF Calm
  <1>4. ASSUME NEW p \in Proc, NEW q \in Proc, Receive(p, q) PROVE Calm'
    <2> DEFINE x == Head(mail[p][q])  m == Received(p, q)
    <2>1. mail[p][q] # <<>> /\ UNCHANGED <<up, rooms, disturbed>> /\ ~disturbed /\ p # q
      BY <1>0, <1>4 DEF Receive, histVars
    <2>2. Takes(mail, m, p, q, x) /\ x \in Message /\ Has(mail, p, q, x)
      BY <1>0, <2>1, ReceivedTakes
    <2>3. x.lease \in Nat /\ <<p, x.lease>> \in Lease /\ table[q] \in TableType /\ x.t # "bye"
          /\ x = [t |-> x.t, lease |-> x.lease]
      <3>1. x.lease \in Nat /\ x = [t |-> x.t, lease |-> x.lease]
        BY <2>2 DEF Message
      <3>2. table[q] \in TableType
        BY <1>0 DEF TypeOK, TableType
      <3>3. x.t # "bye"
        BY <2>1, <2>2 DEF Calm, Leaves
      <3> QED BY <3>1, <3>2, <3>3 DEF Lease
    <2>4. Fewer(mail, m) /\ m \in MailType
      <3>1. Fewer(mail, m)
        BY <2>1, <2>2, TakesLeavesFewer
      <3> QED BY <3>1 DEF Fewer
    <2>5. Seen(q, p) => UNCHANGED peers
      BY <1>0, <2>1 DEF Seen, Calm, TypeOK
    <2> HIDE DEF x
    <2>6. CASE x.t = "lock?" /\ ReceiveLock(p, q, x.lease)
      <3> DEFINE l == <<p, x.lease>>  u == Acquire(table[q], l)
      <3>1. TableBecomes(q, u, m) /\ UNCHANGED <<peers, at, taken>> /\ u \in TableType
        BY <2>3, <2>5, <2>6, TableTypes DEF ReceiveLock
      <3>2. ~OwnGrant(q, table[q], u)
        <4>1. Asks(mail, p, q, x.lease)
          BY <2>2, <2>3, <2>6 DEF Asks, Lock
        <4>2. l \notin Leases(table[q])
          BY <1>0, <2>3, <4>1 DEF Links, Unanswered
        <4>3. u.holder = table[q].holder \/ u.holder = l
          BY <1>0, <2>3, <4>2, AcquireEffect
        <4> QED BY <2>1, <4>3 DEF OwnGrant
      <3> HIDE DEF u, m
      <3> QED BY <2>1, <2>4, <3>1, <3>2, TableBecomesCalm
    <2>7. CASE ReceiveGrant(p, q, x.lease)
      <3>1. UNCHANGED <<peers, at, taken>>
        BY <2>5, <2>7 DEF ReceiveGrant
      <3>2. \A a \in Proc : call'[a] = call[a] \/ (call[a] = "waiting" /\ call'[a] = "granted")
        BY <1>0, <2>7 DEF ReceiveGrant, TypeOK
      <3>3. \A a, b \in Proc : ~Leaves(mail', a, b)
        <4>1. \A a, b \in Proc : ~Leaves(m, a, b)
          BY <2>1, <2>4 DEF Fewer, Calm
        <4>2. AddsUnlock(m, Send(m, q, p, Unlock(x.lease)), q, p, x.lease)
          BY <2>3, <2>4, SendUnlock
        <4>3. mail' = m \/ mail' = Send(m, q, p, Unlock(x.lease))
          BY <2>7 DEF ReceiveGrant
        <4> HIDE DEF m
        <4> QED BY <4>1, <4>2, <4>3 DEF AddsUnlock
      <3> QED BY <2>1, <3>1, <3>2, <3>3 DEF Calm
    <2>8. CASE ReceiveUnlock(p, q, x.lease)
      <3> DEFINE l == <<p, x.lease>>  u == Release(table[q], l)
      <3>1. TableBecomes(q, u, m) /\ UNCHANGED <<peers, at, taken>> /\ u \in TableType
        BY <2>3, <2>5, <2>8, TableTypes DEF ReceiveUnlock
      <3>2. Moves(table[q], u, {l})
        BY <1>0, <2>3, ReleaseEffect
      <3> HIDE DEF u, m
      <3>3. OwnGrant(q, table[q], u) => call[q] = "waiting"
        BY <3>2, OwnGrantWaits
      <3> QED BY <2>1, <2>4, <3>1, <3>3, TableBecomesCalm
    <2> QED BY <1>4, <2>3, <2>6, <2>7, <2>8 DEF Receive, x
  <1>5. ASSUME NEW p \in Proc, LockTimeout(p) \/ LeaseExpires(p) \/ Stop(p) \/ Crash(p) PROVE FALSE
    BY <1>5 DEF LockTimeout, LeaseExpires, Stop, Crash, Fault
  <1>6. ASSUME NEW p \in Proc, NEW q \in Proc, Sweep(p, q) \/ Lose(p, q) PROVE FALSE
    <2>1. up[q] = "up" \/ disturbed
      BY DEF Calm
    <2> QED BY <1>6, <2>1 DEF Sweep, Lose, Fault
  <1>7. ASSUME NEW p \in Proc, NEW q \in Proc, Heartbeat(p, q) PROVE FALSE
    BY <1>7 DEF Heartbeat, Calm, histVars
  <1>8. CASE UNCHANGED vars
    BY <1>8 DEF vars, Calm, tableVars, callVars, histVars
  <1> QED BY <1>1, <1>2, <1>3, <1>4, <1>5, <1>6, <1>7, <1>8 DEF Next, Progress

\* At first all is calm.
LEMMA CalmInit == ASSUME Init PROVE Calm
  <1>1. Members(<<>>) = {}
    BY DEF Members
  <1>2. \A p, q \in Proc : mail[p][q] = <<>>
    BY DEF Init
  <1>3. \A p, q \in Proc : ~Leaves(mail, p, q)
    BY <1>1, <1>2 DEF Leaves, Has
  <1> QED BY <1>3 DEF Init, Calm

\* While all is calm there is one room at most.
LEMMA CalmImplies == ASSUME Calm PROVE OneRoomPerPool
  <1> SUFFICES ASSUME ~disturbed PROVE Cardinality(rooms) <= 1
    BY DEF OneRoomPerPool
  <1>1. CASE rooms = {}
    BY <1>1, FS_EmptySet
  <1>2. CASE rooms # {}
    <2>1. PICK r \in rooms : TRUE
      BY <1>2
    <2>2. rooms = {r}
      BY <2>1 DEF Calm
    <2>3. Cardinality({r}) = 1
      BY FS_Singleton
    <2> QED BY <2>2, <2>3
  <1> QED BY <1>1, <1>2

\* While nothing goes wrong, however many processes call at once, the pool gets one room
\* (matchmaker.ts `_claimCreation`, under the lock of cluster/locks.ts).
THEOREM OneRoom == Spec => []OneRoomPerPool
  <1>1. Init => LocksInv /\ Calm
    BY LocksInit, CalmInit
  <1>2. LocksInv /\ Calm /\ [Next]_vars => (LocksInv /\ Calm)'
    BY LocksStep, CalmStep
  <1>3. Spec => [](LocksInv /\ Calm)
    BY <1>1, <1>2, PTL DEF Spec
  <1> QED BY <1>3, CalmImplies, PTL

=============================================================================
