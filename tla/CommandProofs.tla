---------------------------- MODULE CommandProofs ----------------------------
(***************************************************************************)
(* Proofs about the way of a command: CmdServer, for every number of clients *)
(* and commands and every size of buffers, and CmdLine, to which a token goes *)
(* next, for every line.  They share no variable.                            *)
(***************************************************************************)
EXTENDS CmdServer, CmdLine, FiniteSetTheorems, SequenceTheorems, TLAPS

-----------------------------------------------------------------------------
(* Tokens.                                                                  *)

\* The least of a set of naturals.
LEMMA LeastIs ==
    ASSUME NEW S \in SUBSET Nat, S # {}
    PROVE  \E x \in S : \A y \in S : x <= y
<1> DEFINE R == OpToRel(<, Nat)
<1>1. IsWellFoundedOn(R, Nat)
  BY NatLessThanWellFounded
<1>2. \E x \in S : \A y \in S : ~ (<<y, x>> \in R)
  <2> HIDE DEF R
  <2> QED BY <1>1, WFMin
<1>3. PICK x \in S : \A y \in S : ~ (<<y, x>> \in R)
  BY <1>2
<1>4. \A y \in S : ~ (y < x)
  BY <1>3 DEF OpToRel
<1> QED BY <1>4

\* A finite set of naturals has an order: each number's place is the number of
\* the smaller ones, and one more.
LEMMA InOrderIs ==
    ASSUME NEW S \in SUBSET Nat, IsFiniteSet(S)
    PROVE  /\ Cardinality(S) \in Nat
           /\ InOrder(S) \in [1..Cardinality(S) -> S]
           /\ Increasing(InOrder(S))
           /\ \A x \in S : \E i \in 1..Cardinality(S) : InOrder(S)[i] = x
<1> DEFINE Less(x) == {y \in S : y < x}
           n == Cardinality(S)
           rank == [x \in S |-> Cardinality(Less(x)) + 1]
<1>1. n \in Nat
  BY FS_CardinalityType
<1>2. ASSUME NEW x \in S
      PROVE  IsFiniteSet(Less(x)) /\ Cardinality(Less(x)) \in 0..n - 1
  <2>1. Less(x) \in SUBSET S /\ x \notin Less(x)
    OBVIOUS
  <2>2. /\ IsFiniteSet(Less(x)) /\ Cardinality(Less(x)) <= n
        /\ n = Cardinality(Less(x)) => S = Less(x)
    BY <2>1, FS_Subset
  <2>3. Cardinality(Less(x)) \in Nat
    BY <2>2, FS_CardinalityType
  <2> QED BY <1>1, <2>1, <2>2, <2>3
<1>3. ASSUME NEW x \in S, NEW y \in S, y < x PROVE rank[y] < rank[x]
  <2>a. x \in Nat /\ y \in Nat /\ ~(y < y)
    OBVIOUS
  <2>b. \A z \in S : z < y => z < x
    BY <1>3, <2>a
  <2>1. Less(y) \in SUBSET Less(x) /\ y \in Less(x) /\ y \notin Less(y)
    BY <1>3, <2>a, <2>b
  <2>2. Cardinality(Less(y)) <= Cardinality(Less(x)) /\ Cardinality(Less(x)) # Cardinality(Less(y))
    BY <1>2, <2>1, FS_Subset
  <2> QED BY <1>1, <1>2, <2>2
<1>4. rank \in Injection(S, 1..n)
  <2>1. rank \in [S -> 1..n]
    <3>1. \A x \in S : Cardinality(Less(x)) + 1 \in 1..n
      BY <1>1, <1>2
    <3> QED BY <3>1
  <2>2. ASSUME NEW x \in S, NEW y \in S, rank[x] = rank[y] PROVE x = y
    <3>1. rank[x] \in Int /\ rank[y] \in Int /\ x \in Nat /\ y \in Nat
      BY <2>1
    <3>2. ~(x < y) /\ ~(y < x)
      BY <1>3, <2>2, <3>1
    <3> QED BY <3>1, <3>2
  <2>3. IsInjective(rank)
    <3>1. DOMAIN rank = S
      OBVIOUS
    <3> HIDE DEF rank
    <3> QED BY <2>2, <3>1 DEF IsInjective
  <2> HIDE DEF rank
  <2> QED BY <2>1, <2>3 DEF Injection
<1>5. IsFiniteSet(1..n) /\ Cardinality(1..n) = n
  BY <1>1, FS_Interval
<1>6. rank \in Surjection(S, 1..n)
  BY <1>4, <1>5, FS_Injection
<1>7. rank \in [S -> 1..n] /\ \A i \in 1..n : \E x \in S : rank[x] = i
  BY <1>6 DEF Surjection
<1> HIDE DEF rank
<1> DEFINE f == [i \in 1..n |-> CHOOSE x \in S : rank[x] = i]
<1>8. \A i \in 1..n : f[i] \in S /\ rank[f[i]] = i
  BY <1>7
<1>9. f \in [1..n -> S]
  BY <1>8
<1>10. DOMAIN f = 1..n
  OBVIOUS
<1> HIDE DEF f
<1>11. ASSUME NEW i \in 1..n, NEW j \in 1..n, i < j PROVE f[i] < f[j]
  <2>1. f[i] \in S /\ f[j] \in S /\ rank[f[i]] = i /\ rank[f[j]] = j
    BY <1>8
  <2>a. f[i] \in Nat /\ f[j] \in Nat
    BY <2>1
  <2>b. i \in Int /\ j \in Int
    BY <1>1
  <2>2. f[i] \in Nat /\ f[j] \in Nat /\ i # j /\ ~(j < i)
    BY <1>11, <2>a, <2>b
  <2>3. ~(f[j] < f[i])
    <3>1. f[j] < f[i] => rank[f[j]] < rank[f[i]]
      BY <1>3, <2>1
    <3> QED BY <2>1, <2>2, <3>1
  <2>4. f[i] # f[j]
    BY <2>1, <2>2
  <2> QED BY <2>2, <2>3, <2>4
<1>12. Increasing(f)
  BY <1>10, <1>11 DEF Increasing
<1>13. InOrder(S) \in [1..n -> S] /\ Increasing(InOrder(S))
  BY <1>9, <1>12 DEF InOrder
<1> DEFINE o == InOrder(S)
<1>14. o \in [1..n -> S] /\ Increasing(o) /\ DOMAIN o = 1..n
  BY <1>13
<1> HIDE DEF o, n
<1>15. ASSUME NEW i \in 1..n, NEW j \in 1..n, o[i] = o[j] PROVE i = j
  <2>0. o[i] \in S /\ o[j] \in S
    BY <1>14
  <2>a. \A x \in S : x \in Nat
    OBVIOUS
  <2>b. i \in Int /\ j \in Int
    BY <1>1
  <2>1. o[i] \in Nat /\ o[j] \in Nat /\ i \in Int /\ j \in Int
    BY <2>0, <2>a, <2>b
  <2>2. ~(i < j) /\ ~(j < i)
    BY <1>14, <1>15, <2>1 DEF Increasing
  <2> QED BY <2>1, <2>2
<1>16. o \in Injection(1..n, S)
  BY <1>14, <1>15 DEF Injection, IsInjective
<1>17. o \in Surjection(1..n, S)
  BY <1>5, <1>16, FS_Injection DEF n
<1>18. \A x \in S : \E i \in 1..n : o[i] = x
  BY <1>17 DEF Surjection
<1> QED BY <1>1, <1>13, <1>18 DEF o, n

\* Where a token starts that ends at e, in a buffer whose first position is a.
IsStart(s, a, b, e) ==
    /\ \A i \in b..e : s[i] # Sep
    /\ b = a \/ s[b - 1] = Sep

\* A symbol that is no separator is in a stretch that begins somewhere.
LEMMA StartIs ==
    ASSUME NEW s, NEW a \in Nat \ {0}, NEW e \in Nat, a <= e, s[e] # Sep
    PROVE  \E b \in a..e : IsStart(s, a, b, e)
<1> DEFINE S == {b \in a..e : \A i \in b..e : s[i] # Sep}
<1>1. e \in S /\ S \in SUBSET Nat
  OBVIOUS
<1>2. PICK b \in S : \A c \in S : b <= c
  BY <1>1, LeastIs
<1>3. CASE b = a
  BY <1>2, <1>3 DEF IsStart
<1>4. CASE b # a
  <2>1. b - 1 \in a..e /\ b - 1 \notin S
    BY <1>1, <1>2, <1>4
  <2>2. PICK i \in b - 1..e : s[i] = Sep
    BY <2>1
  <2>3. i = b - 1
    BY <1>2, <2>2
  <2> QED BY <1>2, <2>2, <2>3 DEF IsStart
<1> QED BY <1>3, <1>4

\* There is only one such place.
LEMMA StartIsOne ==
    ASSUME NEW s, NEW a \in Nat \ {0}, NEW e \in Nat,
           NEW b \in a..e, NEW c \in a..e, IsStart(s, a, b, e), IsStart(s, a, c, e)
    PROVE  b = c
<1>1. ~(b < c)
  <2> SUFFICES ASSUME b < c PROVE FALSE
    OBVIOUS
  <2>1. s[c - 1] = Sep /\ c - 1 \in b..e
    BY DEF IsStart
  <2> QED BY <2>1 DEF IsStart
<1>2. ~(c < b)
  <2> SUFFICES ASSUME c < b PROVE FALSE
    OBVIOUS
  <2>1. s[b - 1] = Sep /\ b - 1 \in c..e
    BY DEF IsStart
  <2> QED BY <2>1 DEF IsStart
<1> QED BY <1>1, <1>2

\* One stretch between separators of the positions a..z.
IsToken(s, a, z, t) ==
    /\ t.from \in a..t.to /\ t.to <= z
    /\ \A i \in t.from..t.to : s[i] # Sep
    /\ t.from = a \/ s[t.from - 1] = Sep
    /\ t.to = z \/ s[t.to + 1] = Sep

\* Each stretch of ts begins behind the end of the one before.
Apart(ts) == \A i, j \in 1..Len(ts) : i < j => ts[i].to < ts[j].from

\* The tokens of a buffer are all the stretches of it between separators, one
\* behind the other.
LEMMA TokensAre ==
    ASSUME NEW s, NEW a \in Nat \ {0}, NEW z \in Nat
    PROVE  /\ Tokens(s, a, z) \in Seq(Stretch)
           /\ Apart(Tokens(s, a, z))
           /\ \A k \in 1..Len(Tokens(s, a, z)) : IsToken(s, a, z, Tokens(s, a, z)[k])
           /\ \A t \in Stretch : IsToken(s, a, z, t) =>
                  \E k \in 1..Len(Tokens(s, a, z)) : Tokens(s, a, z)[k] = t
<1> DEFINE final == {i \in a..z : /\ s[i] # Sep
                                  /\ i = z \/ s[i + 1] = Sep}
           start(e) == CHOOSE b \in a..e :
                          /\ \A i \in b..e : s[i] # Sep
                          /\ b = a \/ s[b - 1] = Sep
           o == InOrder(final)
           n == Cardinality(final)
           T == [k \in DOMAIN o |-> [from |-> start(o[k]), to |-> o[k]]]
<1>1. Tokens(s, a, z) = T
  BY DEF Tokens
<1>2. final \in SUBSET Nat /\ IsFiniteSet(final) /\ final \subseteq a..z
  <2>1. final \subseteq a..z
    OBVIOUS
  <2>2. IsFiniteSet(a..z)
    BY FS_Interval
  <2> QED BY <2>1, <2>2, FS_Subset
<1>3. \A e \in final : start(e) \in a..e /\ IsStart(s, a, start(e), e)
  <2> SUFFICES ASSUME NEW e \in final
               PROVE  start(e) \in a..e /\ IsStart(s, a, start(e), e)
    OBVIOUS
  <2>1. e \in Nat /\ a <= e /\ s[e] # Sep
    OBVIOUS
  <2>2. \E b \in a..e : IsStart(s, a, b, e)
    BY <2>1, StartIs
  <2> QED BY <2>2 DEF IsStart
<1>4. \A e : e \in final <=> e \in a..z /\ s[e] # Sep /\ (e = z \/ s[e + 1] = Sep)
  OBVIOUS
<1>5. /\ n \in Nat /\ o \in [1..n -> final] /\ Increasing(o)
      /\ \A x \in final : \E i \in 1..n : o[i] = x
  BY <1>2, InOrderIs
<1> HIDE DEF final, o, n, start
<1>6. DOMAIN o = 1..n
  BY <1>5
<1>7. ASSUME NEW k \in 1..n
      PROVE  /\ o[k] \in final /\ o[k] \in a..z /\ start(o[k]) \in a..o[k]
             /\ IsStart(s, a, start(o[k]), o[k])
  BY <1>3, <1>4, <1>5
<1>8. \A k \in 1..n : T[k] = [from |-> start(o[k]), to |-> o[k]]
  BY <1>6
<1>9. T \in [1..n -> Stretch]
  BY <1>6, <1>7 DEF Stretch
<1>10. T \in Seq(Stretch) /\ Len(T) = n
  BY <1>5, <1>9
<1> HIDE DEF T
<1>a. ASSUME NEW k \in 1..n PROVE T[k].from = start(o[k]) /\ T[k].to = o[k]
  <2>1. T[k] = [from |-> start(o[k]), to |-> o[k]]
    BY <1>8
  <2> QED BY <2>1
<1>11. ASSUME NEW i \in 1..n, NEW j \in 1..n, i < j PROVE T[i].to < T[j].from
  <2>1. o[i] < o[j]
    BY <1>6, <1>5, <1>11 DEF Increasing
  <2>2. o[i] \in a..z /\ o[j] \in a..z /\ start(o[j]) \in a..o[j] /\ o[i] # z
    BY <1>7, <2>1
  <2>3. s[o[i] + 1] = Sep
    BY <1>4, <1>7, <2>2
  <2>4. \A m \in start(o[j])..o[j] : s[m] # Sep
    BY <1>7 DEF IsStart
  <2>5. ~(start(o[j]) <= o[i] + 1)
    BY <2>1, <2>2, <2>3, <2>4
  <2> QED BY <1>a, <2>2, <2>5
<1>12. ASSUME NEW k \in 1..n PROVE IsToken(s, a, z, T[k])
  <2>1. T[k].from = start(o[k]) /\ T[k].to = o[k]
    BY <1>a
  <2>2. o[k] = z \/ s[o[k] + 1] = Sep
    BY <1>4, <1>7
  <2> QED BY <1>7, <2>1, <2>2 DEF IsToken, IsStart
<1>13. ASSUME NEW t \in Stretch, IsToken(s, a, z, t) PROVE \E k \in 1..n : T[k] = t
  <2>1. /\ t.from \in a..t.to /\ t.to \in a..z /\ t.to \in Nat /\ t.from \in Nat
        /\ t = [from |-> t.from, to |-> t.to]
    BY <1>13 DEF IsToken, Stretch
  <2>2. t.to \in final /\ IsStart(s, a, t.from, t.to)
    BY <1>4, <1>13, <2>1 DEF IsToken, IsStart
  <2>3. PICK k \in 1..n : o[k] = t.to
    BY <1>5, <2>2
  <2>4. start(o[k]) = t.from
    BY <1>7, <2>1, <2>2, <2>3, StartIsOne
  <2> QED BY <1>8, <2>1, <2>3, <2>4
<1>14. Apart(T)
  BY <1>10, <1>11 DEF Apart
<1> QED BY <1>1, <1>10, <1>12, <1>13, <1>14

-----------------------------------------------------------------------------
(* What a stream s has been made into, of which n symbols were read by reads   *)
(* that ended at e and lost the symbols at l.                                 *)

CutAt(s, n, e, l, t) ==
    /\ t.from \in 1..t.to /\ t.to <= n
    /\ \A i \in t.from..t.to : s[i] # Sep /\ i \notin l
    /\ t.from = 1 \/ t.from - 1 \in e \/ s[t.from - 1] = Sep
    /\ t.to \in e \/ t.to + 1 \in l \/ s[t.to + 1] = Sep

WholeAt(s, n, e, l, t) ==
    /\ t.from \in 1..t.to /\ t.to <= n
    /\ \A i \in t.from..t.to : s[i] # Sep
    /\ t.from = 1 \/ s[t.from - 1] = Sep
    /\ s[t.to + 1] = Sep
    /\ (t.from..t.to - 1) \cap e = {}
    /\ t.to \notin l

\* The list h of stretches is all that was made of it.
Ran(s, n, e, l, h) ==
    /\ Apart(h)
    /\ \A i \in 1..Len(h) : CutAt(s, n, e, l, h[i])
    /\ \A t \in Stretch : WholeAt(s, n, e, l, t) => \E i \in 1..Len(h) : h[i] = t

\* Reads end within what was read, and the last one at its end.
Reads(s, n, e, l) ==
    /\ n \in Nat /\ n <= Len(s)
    /\ n = 0 \/ n \in e
    /\ e \subseteq 1..n /\ l \subseteq e

\* A command that is sent does not change what has been made of the stream.
LEMMA RanSend ==
    ASSUME NEW s \in Seq(Symbols), NEW n, NEW e, NEW l, NEW h \in Seq(Stretch),
           NEW x \in Commands, Reads(s, n, e, l), Ran(s, n, e, l, h)
    PROVE  /\ s \o Append(x, Sep) \in Seq(Symbols)
           /\ Len(s \o Append(x, Sep)) = Len(s) + Len(x) + 1 /\ Len(x) \in Nat
           /\ \A i \in 1..Len(s) : (s \o Append(x, Sep))[i] = s[i]
           /\ Reads(s \o Append(x, Sep), n, e, l)
           /\ Ran(s \o Append(x, Sep), n, e, l, h)
<1> DEFINE y == Append(x, Sep)
           r == s \o y
<1>1. x \in Seq(Letters) /\ x # <<>> /\ Sep \notin Letters
  BY CommandsAssumption
<1>2. Len(x) \in Nat \ {0} /\ x[1] \in Letters /\ x \in Seq(Symbols)
  BY <1>1 DEF Symbols
<1>3. /\ y \in Seq(Symbols) /\ Len(y) = Len(x) + 1
      /\ y[1] = x[1]
  <2>1. Sep \in Symbols
    BY DEF Symbols
  <2> QED BY <1>2, <2>1, AppendProperties
<1>4. y[1] # Sep
  BY <1>1, <1>2, <1>3
<1> HIDE DEF y
<1>5. /\ r \in Seq(Symbols) /\ Len(r) = Len(s) + Len(y)
      /\ \A i \in 1..Len(s) + Len(y) : r[i] = IF i <= Len(s) THEN s[i] ELSE y[i - Len(s)]
  BY <1>3, ConcatProperties
<1>6. Len(s) \in Nat /\ (\A i \in 1..Len(s) : r[i] = s[i]) /\ r[Len(s) + 1] # Sep
  BY <1>2, <1>3, <1>4, <1>5
<1> HIDE DEF r
<1>7. n \in Nat /\ n <= Len(s) /\ (n = 0 \/ n \in e) /\ e \subseteq 1..n /\ l \subseteq e
  BY DEF Reads
<1>8. Reads(r, n, e, l)
  BY <1>2, <1>3, <1>5, <1>6, <1>7 DEF Reads
<1>9. ASSUME NEW t \in Stretch, CutAt(s, n, e, l, t) PROVE CutAt(r, n, e, l, t)
  <2>1. t.from \in Nat /\ t.to \in Nat /\ t.from \in 1..t.to /\ t.to <= n
    BY <1>9 DEF CutAt, Stretch
  <2>2. \A i \in t.from..t.to : r[i] = s[i]
    BY <1>6, <1>7, <2>1
  <2>3. t.from # 1 => r[t.from - 1] = s[t.from - 1]
    BY <1>6, <1>7, <2>1
  <2>4. CASE t.to = n
    BY <1>7, <1>9, <2>1, <2>2, <2>3, <2>4 DEF CutAt
  <2>5. CASE t.to # n
    <3>1. r[t.to + 1] = s[t.to + 1]
      BY <1>6, <1>7, <2>1, <2>5
    <3> QED BY <1>9, <2>1, <2>2, <2>3, <3>1 DEF CutAt
  <2> QED BY <2>4, <2>5
<1>10. ASSUME NEW t \in Stretch, WholeAt(r, n, e, l, t) PROVE WholeAt(s, n, e, l, t)
  <2>1. t.from \in Nat /\ t.to \in Nat /\ t.from \in 1..t.to /\ t.to <= n
    BY <1>10 DEF WholeAt, Stretch
  <2>2. \A i \in t.from..t.to : r[i] = s[i]
    BY <1>6, <1>7, <2>1
  <2>3. t.from # 1 => r[t.from - 1] = s[t.from - 1]
    BY <1>6, <1>7, <2>1
  <2>4. t.to # Len(s)
    BY <1>6, <1>10 DEF WholeAt
  <2>5. r[t.to + 1] = s[t.to + 1]
    BY <1>6, <1>7, <2>1, <2>4
  <2> QED BY <1>10, <2>1, <2>2, <2>3, <2>5 DEF WholeAt
<1>11. Ran(r, n, e, l, h)
  <2>1. \A i \in 1..Len(h) : h[i] \in Stretch
    OBVIOUS
  <2> QED BY <1>9, <1>10, <2>1 DEF Ran
<1> QED BY <1>2, <1>3, <1>5, <1>6, <1>8, <1>11 DEF r, y

\* A read of z symbols, the last of which is lost if the buffer is full, adds its
\* tokens.
LEMMA RanReceive ==
    ASSUME NEW s \in Seq(Symbols), NEW n, NEW e, NEW l, NEW h \in Seq(Stretch),
           NEW z \in Nat \ {0}, NEW k \in {z - 1, z}, n + z <= Len(s),
           Reads(s, n, e, l), Ran(s, n, e, l, h),
           NEW l2, l2 = IF k = z THEN l ELSE l \cup {n + z}
    PROVE  /\ Tokens(s, n + 1, n + k) \in Seq(Stretch)
           /\ Reads(s, n + z, e \cup {n + z}, l2)
           /\ Ran(s, n + z, e \cup {n + z}, l2, h \o Tokens(s, n + 1, n + k))
<1> DEFINE T == Tokens(s, n + 1, n + k)
           m == n + z
           e2 == e \cup {m}
           g == h \o T
<1>1. n \in Nat /\ n <= Len(s) /\ (n = 0 \/ n \in e) /\ e \subseteq 1..n /\ l \subseteq e
  BY DEF Reads
<1>2. n + 1 \in Nat \ {0} /\ n + k \in Nat /\ m \in Nat /\ n < m /\ m <= Len(s)
      /\ n + k \in {m - 1, m} /\ k \in Int /\ (k = z <=> n + k = m)
  BY <1>1
<1>3. /\ T \in Seq(Stretch) /\ Apart(T)
      /\ \A i \in 1..Len(T) : IsToken(s, n + 1, n + k, T[i])
      /\ \A t \in Stretch : IsToken(s, n + 1, n + k, t) => \E i \in 1..Len(T) : T[i] = t
  <2> DEFINE a == n + 1
             b == n + k
  <2>1. a \in Nat \ {0} /\ b \in Nat
    BY <1>2
  <2> HIDE DEF a, b
  <2>2. /\ Tokens(s, a, b) \in Seq(Stretch) /\ Apart(Tokens(s, a, b))
        /\ \A i \in 1..Len(Tokens(s, a, b)) : IsToken(s, a, b, Tokens(s, a, b)[i])
        /\ \A t \in Stretch : IsToken(s, a, b, t) =>
               \E i \in 1..Len(Tokens(s, a, b)) : Tokens(s, a, b)[i] = t
    BY <2>1, TokensAre
  <2> QED BY <2>2 DEF a, b
<1> HIDE DEF T
<1>4. /\ g \in Seq(Stretch) /\ Len(g) = Len(h) + Len(T) /\ Len(h) \in Nat /\ Len(T) \in Nat
      /\ \A i \in 1..Len(h) + Len(T) : g[i] = IF i <= Len(h) THEN h[i] ELSE T[i - Len(h)]
  BY <1>3, ConcatProperties, LenProperties
<1>5. (\A i \in 1..Len(h) : g[i] = h[i]) /\ (\A i \in 1..Len(T) : g[Len(h) + i] = T[i])
  BY <1>4
<1> HIDE DEF g
<1>6. ASSUME NEW t \in Stretch, CutAt(s, n, e, l, t) PROVE CutAt(s, m, e2, l2, t) /\ t.to <= n
  <2>1. t.from \in Nat /\ t.to \in Nat /\ t.from \in 1..t.to /\ t.to <= n
    BY <1>6 DEF CutAt, Stretch
  <2>2. \A i \in t.from..t.to : i # m
    BY <1>1, <1>2, <2>1
  <2>3. \A i \in t.from..t.to : s[i] # Sep /\ i \notin l2
    BY <1>6, <2>2 DEF CutAt
  <2>4. t.to <= m
    BY <1>1, <1>2, <2>1
  <2> QED BY <1>6, <2>1, <2>3, <2>4 DEF CutAt
<1>7. ASSUME NEW t \in Stretch, IsToken(s, n + 1, n + k, t)
      PROVE  CutAt(s, m, e2, l2, t) /\ n < t.from
  <2>1. /\ t.from \in Nat /\ t.to \in Nat /\ t.from \in n + 1..t.to /\ t.to <= n + k
        /\ \A i \in t.from..t.to : s[i] # Sep
        /\ t.from = n + 1 \/ s[t.from - 1] = Sep
        /\ t.to = n + k \/ s[t.to + 1] = Sep
    BY <1>7 DEF IsToken, Stretch
  <2>2. \A i \in t.from..t.to : i \notin l2
    <3>1. \A i \in t.from..t.to : i \notin l
      BY <1>1, <2>1
    <3>2. ASSUME k # z, NEW i \in t.from..t.to PROVE i # m
      BY <1>2, <2>1, <3>2
    <3> QED BY <3>1, <3>2
  <2>3. t.from = 1 \/ t.from - 1 \in e2 \/ s[t.from - 1] = Sep
    BY <1>1, <2>1
  <2>4. t.to \in e2 \/ t.to + 1 \in l2 \/ s[t.to + 1] = Sep
    BY <1>2, <2>1
  <2>5. t.from \in 1..t.to /\ t.to <= m /\ n < t.from
    BY <1>1, <1>2, <2>1
  <2> QED BY <2>1, <2>2, <2>3, <2>4, <2>5 DEF CutAt
<1>8. ASSUME NEW t \in Stretch, WholeAt(s, m, e2, l2, t)
      PROVE  WholeAt(s, n, e, l, t) \/ IsToken(s, n + 1, n + k, t)
  <2>1. /\ t.from \in Nat /\ t.to \in Nat /\ t.from \in 1..t.to /\ t.to <= m
        /\ \A i \in t.from..t.to : s[i] # Sep
        /\ t.from = 1 \/ s[t.from - 1] = Sep
        /\ s[t.to + 1] = Sep
        /\ \A i \in t.from..t.to - 1 : i \notin e2
        /\ t.to \notin l2
    BY <1>8 DEF WholeAt, Stretch
  <2>2. CASE t.to <= n
    BY <2>1, <2>2 DEF WholeAt
  <2>3. CASE n < t.to
    <3>1. n < t.from
      BY <1>1, <2>1, <2>3
    <3>2. t.to <= n + k
      <4>1. k # z => t.to # m
        BY <2>1
      <4> QED BY <1>2, <2>1, <4>1
    <3> QED BY <1>1, <2>1, <3>1, <3>2 DEF IsToken
  <2> QED BY <1>1, <2>1, <2>2, <2>3
<1>9. \A i \in 1..Len(h) : h[i] \in Stretch /\ CutAt(s, n, e, l, h[i])
  BY DEF Ran
<1>10. \A i \in 1..Len(T) : T[i] \in Stretch /\ IsToken(s, n + 1, n + k, T[i])
  BY <1>3
<1>11. ASSUME NEW i \in 1..Len(g), ~(i <= Len(h))
       PROVE  /\ i - Len(h) \in 1..Len(T) /\ g[i] = T[i - Len(h)]
              /\ CutAt(s, m, e2, l2, g[i]) /\ n < g[i].from
  <2>1. i - Len(h) \in 1..Len(T) /\ g[i] = T[i - Len(h)]
    BY <1>4, <1>11
  <2> QED BY <1>7, <1>10, <2>1
<1>12. ASSUME NEW i \in 1..Len(g), i <= Len(h)
       PROVE  i \in 1..Len(h) /\ g[i] = h[i] /\ CutAt(s, m, e2, l2, g[i]) /\ g[i].to <= n
  <2>1. i \in 1..Len(h) /\ g[i] = h[i]
    BY <1>4, <1>5, <1>12
  <2> QED BY <1>6, <1>9, <2>1
<1>13. Apart(g)
  <2> SUFFICES ASSUME NEW i \in 1..Len(g), NEW j \in 1..Len(g), i < j
               PROVE  g[i].to < g[j].from
    BY DEF Apart
  <2>1. g[i] \in Stretch /\ g[j] \in Stretch /\ i \in Int /\ j \in Int
    BY <1>4
  <2>2. g[i].to \in Int /\ g[j].from \in Int
    BY <2>1 DEF Stretch
  <2>3. CASE i <= Len(h) /\ j <= Len(h)
    BY <1>12, <2>3 DEF Ran, Apart
  <2>4. CASE i <= Len(h) /\ ~(j <= Len(h))
    BY <1>1, <1>11, <1>12, <2>2, <2>4
  <2>5. CASE ~(i <= Len(h)) /\ ~(j <= Len(h))
    <3>1. i - Len(h) < j - Len(h)
      BY <1>4, <2>1
    <3>2. /\ i - Len(h) \in 1..Len(T) /\ g[i] = T[i - Len(h)]
          /\ j - Len(h) \in 1..Len(T) /\ g[j] = T[j - Len(h)]
      BY <1>11, <2>5
    <3> QED BY <1>3, <3>1, <3>2 DEF Apart
  <2> QED BY <1>4, <2>1, <2>3, <2>4, <2>5
<1>14. \A i \in 1..Len(g) : CutAt(s, m, e2, l2, g[i])
  BY <1>11, <1>12
<1>15. ASSUME NEW t \in Stretch, WholeAt(s, m, e2, l2, t) PROVE \E i \in 1..Len(g) : g[i] = t
  <2>1. CASE WholeAt(s, n, e, l, t)
    <3>1. PICK i \in 1..Len(h) : h[i] = t
      BY <2>1 DEF Ran
    <3>2. i \in 1..Len(g)
      BY <1>4, <3>1
    <3> QED BY <1>5, <3>1, <3>2
  <2>2. CASE IsToken(s, n + 1, n + k, t)
    <3>1. PICK i \in 1..Len(T) : T[i] = t
      BY <1>3, <2>2
    <3>2. Len(h) + i \in 1..Len(g)
      BY <1>4, <3>1
    <3> QED BY <1>5, <3>1, <3>2
  <2> QED BY <1>8, <1>15, <2>1, <2>2
<1>16. Ran(s, m, e2, l2, g)
  BY <1>13, <1>14, <1>15 DEF Ran
<1>17. Reads(s, m, e2, l2)
  BY <1>1, <1>2 DEF Reads
<1> QED BY <1>3, <1>16, <1>17 DEF T, m, e2, g

-----------------------------------------------------------------------------
(* The invariant of the server.                                             *)

Types ==
    /\ server \in {"loop", "exiting", "stopped", "killed"}
    /\ conn \in [Clients -> {"none", "backlog", "open", "dropped"}]
    /\ peer \in [Clients -> {"here", "gone", "reset"}]
    /\ stream \in [Clients -> Seq(Symbols)]
    /\ \A c \in Clients : Len(stream[c]) <= MaxSend[c]
    /\ delivered \in [Clients -> Nat] /\ taken \in [Clients -> Nat]
    /\ \A c \in Clients : taken[c] <= delivered[c] /\ delivered[c] <= Len(stream[c])
    /\ unread \in [Clients -> 0..ReplyRoom]
    /\ ends \in [Clients -> SUBSET Nat] /\ lost \in [Clients -> SUBSET Nat]
    /\ dispatched \in [Clients -> Seq(Stretch)]
    /\ replied \in [Clients -> Nat]
    /\ work \in [client : Clients \cup {Nobody}, tokens : Seq(Stretch)]

\* What has been made of every client's stream.
StreamInv ==
    \A c \in Clients : /\ Reads(stream[c], taken[c], ends[c], lost[c])
                       /\ Ran(stream[c], taken[c], ends[c], lost[c], Handed(c))

ServerInv == Types /\ StreamInv /\ RepliesPaired

\* The types of one client.
LEMMA ClientTypes ==
    ASSUME Types, NEW c \in Clients
    PROVE  /\ stream[c] \in Seq(Symbols) /\ Len(stream[c]) \in Nat
           /\ Len(stream[c]) <= MaxSend[c] /\ MaxSend[c] \in Nat
           /\ delivered[c] \in Nat /\ taken[c] \in Nat
           /\ taken[c] <= delivered[c] /\ delivered[c] <= Len(stream[c])
           /\ unread[c] \in 0..ReplyRoom /\ replied[c] \in Nat
           /\ dispatched[c] \in Seq(Stretch) /\ Len(dispatched[c]) \in Nat
           /\ work.tokens \in Seq(Stretch)
           /\ Handed(c) \in Seq(Stretch)
<1>1. /\ stream[c] \in Seq(Symbols) /\ dispatched[c] \in Seq(Stretch)
      /\ work.tokens \in Seq(Stretch)
  BY DEF Types
<1>2. Handed(c) \in Seq(Stretch)
  <2>1. (IF work.client = c THEN work.tokens ELSE <<>>) \in Seq(Stretch)
    BY <1>1
  <2> QED BY <1>1, <2>1, ConcatProperties DEF Handed
<1>3. Len(stream[c]) \in Nat /\ Len(dispatched[c]) \in Nat
  BY <1>1, LenProperties
<1> QED BY <1>1, <1>2, <1>3, MaxSendAssumption DEF Types

\* The server starts with nothing sent.
LEMMA InitServer == Init => ServerInv
<1> SUFFICES ASSUME Init PROVE ServerInv
  OBVIOUS
<1>1. /\ server = "loop" /\ conn = [c \in Clients |-> "none"] /\ peer = [c \in Clients |-> "here"]
      /\ stream = [c \in Clients |-> <<>>] /\ delivered = [c \in Clients |-> 0]
      /\ taken = [c \in Clients |-> 0] /\ unread = [c \in Clients |-> 0]
      /\ work = [client |-> Nobody, tokens |-> <<>>]
      /\ ends = [c \in Clients |-> {}] /\ lost = [c \in Clients |-> {}]
      /\ dispatched = [c \in Clients |-> <<>>] /\ replied = [c \in Clients |-> 0]
  BY DEF Init
<1>2. \A c \in Clients : MaxSend[c] \in Nat
  BY MaxSendAssumption
<1>3. Types
  <2>1. /\ stream \in [Clients -> Seq(Symbols)] /\ dispatched \in [Clients -> Seq(Stretch)]
        /\ \A c \in Clients : Len(stream[c]) = 0
    BY <1>1
  <2>2. unread \in [Clients -> 0..ReplyRoom]
    BY <1>1, BoundsAssumption
  <2>3. work \in [client : Clients \cup {Nobody}, tokens : Seq(Stretch)]
    BY <1>1
  <2>4. /\ delivered \in [Clients -> Nat] /\ taken \in [Clients -> Nat]
        /\ \A c \in Clients : taken[c] <= delivered[c] /\ delivered[c] <= Len(stream[c])
    BY <1>1, <2>1
  <2>5. \A c \in Clients : Len(stream[c]) <= MaxSend[c]
    BY <1>2, <2>1
  <2> QED BY <1>1, <2>1, <2>2, <2>3, <2>4, <2>5 DEF Types
<1>4. ASSUME NEW c \in Clients
      PROVE  /\ Reads(stream[c], taken[c], ends[c], lost[c])
             /\ Ran(stream[c], taken[c], ends[c], lost[c], Handed(c))
  <2>1. stream[c] = <<>> /\ taken[c] = 0 /\ ends[c] = {} /\ lost[c] = {}
    BY <1>1
  <2>2. Handed(c) = <<>> \o <<>>
    BY <1>1 DEF Handed
  <2>3. Handed(c) = <<>>
    BY <2>2
  <2>4. Len(Handed(c)) = 0
    BY <2>3
  <2>5. \A t \in Stretch : ~WholeAt(stream[c], taken[c], ends[c], lost[c], t)
    BY <2>1 DEF WholeAt, Stretch
  <2>6. Apart(Handed(c))
    BY <2>4 DEF Apart
  <2>7. Reads(stream[c], taken[c], ends[c], lost[c])
    BY <2>1 DEF Reads
  <2> QED BY <2>4, <2>5, <2>6, <2>7 DEF Ran
<1>5. RepliesPaired
  <2>1. \A c \in Clients : unread[c] = 0 /\ replied[c] = 0 /\ Len(dispatched[c]) = 0
    BY <1>1
  <2>2. server = "loop"
    BY <1>1
  <2> QED BY <2>1, <2>2 DEF RepliesPaired
<1> QED BY <1>3, <1>4, <1>5 DEF ServerInv, StreamInv

-----------------------------------------------------------------------------
(* The steps, by what they do to the streams and to what is made of them.    *)

\* Steps that leave them alone.
LEMMA StreamsStill ==
    ASSUME StreamInv, UNCHANGED <<stream, taken, ends, lost>>,
           \A c \in Clients : Handed(c)' = Handed(c)
    PROVE  StreamInv'
BY DEF StreamInv

\* A client sends one more command.
LEMMA SendKeeps ==
    ASSUME Types, StreamInv, NEW c \in Clients, NEW cmd \in Commands, Send(c, cmd)
    PROVE  /\ Types' /\ StreamInv'
           /\ \A d \in Clients : \A i \in 1..Len(stream[d]) : stream'[d][i] = stream[d][i]
<1>1. /\ Len(stream[c]) + Len(cmd) + 1 <= MaxSend[c]
      /\ stream' = [stream EXCEPT ![c] = @ \o Append(cmd, Sep)]
      /\ UNCHANGED <<server, conn, peer, delivered, unread, taken, work, history>>
  BY DEF Send
<1>2. /\ stream'[c] = stream[c] \o Append(cmd, Sep)
      /\ \A d \in Clients \ {c} : stream'[d] = stream[d]
      /\ DOMAIN stream' = Clients
  BY <1>1 DEF Types
<1>3. UNCHANGED <<ends, lost, dispatched, replied>>
  BY <1>1 DEF history
<1>4. /\ Reads(stream[c], taken[c], ends[c], lost[c])
      /\ Ran(stream[c], taken[c], ends[c], lost[c], Handed(c))
      /\ stream[c] \in Seq(Symbols) /\ Handed(c) \in Seq(Stretch)
  BY ClientTypes DEF StreamInv
<1>5. /\ stream'[c] \in Seq(Symbols) /\ Len(cmd) \in Nat
      /\ Len(stream'[c]) = Len(stream[c]) + Len(cmd) + 1
      /\ \A i \in 1..Len(stream[c]) : stream'[c][i] = stream[c][i]
      /\ Reads(stream'[c], taken[c], ends[c], lost[c])
      /\ Ran(stream'[c], taken[c], ends[c], lost[c], Handed(c))
  <2> DEFINE s == stream[c]
             n == taken[c]
             e == ends[c]
             l == lost[c]
             h == Handed(c)
  <2>1. s \in Seq(Symbols) /\ h \in Seq(Stretch) /\ Reads(s, n, e, l) /\ Ran(s, n, e, l, h)
    BY <1>4
  <2> HIDE DEF s, n, e, l, h
  <2>2. /\ s \o Append(cmd, Sep) \in Seq(Symbols)
        /\ Len(s \o Append(cmd, Sep)) = Len(s) + Len(cmd) + 1 /\ Len(cmd) \in Nat
        /\ \A i \in 1..Len(s) : (s \o Append(cmd, Sep))[i] = s[i]
        /\ Reads(s \o Append(cmd, Sep), n, e, l)
        /\ Ran(s \o Append(cmd, Sep), n, e, l, h)
    BY <2>1, RanSend
  <2> QED BY <1>2, <2>2 DEF s, n, e, l, h
<1>6. Types'
  <2>1. stream' \in [Clients -> Seq(Symbols)]
    BY <1>1, <1>2, <1>5 DEF Types
  <2>2. ASSUME NEW d \in Clients
        PROVE  Len(stream'[d]) <= MaxSend[d] /\ delivered[d] <= Len(stream'[d])
    <3>1. CASE d = c
      <4>1. delivered[c] <= Len(stream[c]) /\ delivered[c] \in Nat /\ Len(stream[c]) \in Nat
        BY ClientTypes
      <4> QED BY <1>1, <1>5, <3>1, <4>1
    <3>2. CASE d # c
      BY <1>2, <3>2 DEF Types
    <3> QED BY <3>1, <3>2
  <2> QED BY <1>1, <1>3, <2>1, <2>2 DEF Types
<1>7. StreamInv'
  <2>1. \A d \in Clients : Handed(d)' = Handed(d)
    BY <1>1, <1>3 DEF Handed
  <2> SUFFICES ASSUME NEW d \in Clients
               PROVE  /\ Reads(stream[d], taken[d], ends[d], lost[d])'
                      /\ Ran(stream[d], taken[d], ends[d], lost[d], Handed(d))'
    BY DEF StreamInv
  <2>2. CASE d = c
    BY <1>1, <1>3, <1>5, <2>1, <2>2
  <2>3. CASE d # c
    BY <1>1, <1>2, <1>3, <2>1, <2>3 DEF StreamInv
  <2> QED BY <2>2, <2>3
<1>8. \A d \in Clients : \A i \in 1..Len(stream[d]) : stream'[d][i] = stream[d][i]
  BY <1>2, <1>5
<1> QED BY <1>6, <1>7, <1>8

\* A read hands its tokens on.
LEMMA ReceiveKeeps ==
    ASSUME Types, StreamInv, NEW c \in Clients, Receive(c)
    PROVE  Types' /\ StreamInv'
<1> DEFINE there == delivered[c] - taken[c]
           size == IF there < BufSize THEN there ELSE BufSize
           last == taken[c] + size
           T == Tokens(stream[c], taken[c] + 1, taken[c] + Kept(size))
<1>1. /\ work.client = Nobody /\ there > 0
      /\ work' = [client |-> c, tokens |-> T]
      /\ taken' = [taken EXCEPT ![c] = last]
      /\ ends' = [ends EXCEPT ![c] = @ \cup {last}]
      /\ lost' = IF size = BufSize THEN [lost EXCEPT ![c] = @ \cup {last}] ELSE lost
      /\ UNCHANGED <<server, clients, dispatched, replied>>
  BY DEF Receive, InLoop
<1>2. UNCHANGED <<server, conn, peer, stream, delivered, unread, dispatched, replied>>
  BY <1>1 DEF clients
<1>3. /\ taken[c] \in Nat /\ delivered[c] \in Nat /\ delivered[c] <= Len(stream[c])
      /\ taken[c] <= delivered[c] /\ Len(stream[c]) \in Nat /\ stream[c] \in Seq(Symbols)
      /\ dispatched[c] \in Seq(Stretch)
  BY ClientTypes
<1>4. BufSize \in Nat \ {0}
  BY BoundsAssumption
<1>5. /\ size \in Nat \ {0} /\ taken[c] + size <= delivered[c]
      /\ Kept(size) \in {size - 1, size} /\ (Kept(size) = size <=> size # BufSize)
  BY <1>1, <1>3, <1>4 DEF Kept
<1>6. taken[c] + size <= Len(stream[c]) /\ last \in Nat
  BY <1>3, <1>5
<1> DEFINE l2 == IF Kept(size) = size THEN lost[c] ELSE lost[c] \cup {last}
<1> HIDE DEF size, T
<1>7. Handed(c) = dispatched[c] \o <<>>
  BY <1>1, ClientsAssumption DEF Handed
<1>8. Handed(c) = dispatched[c]
  BY <1>3, <1>7, ConcatEmptySeq
<1>9. /\ Reads(stream[c], taken[c], ends[c], lost[c])
      /\ Ran(stream[c], taken[c], ends[c], lost[c], dispatched[c])
  BY <1>8 DEF StreamInv
<1>10. /\ T \in Seq(Stretch)
       /\ Reads(stream[c], last, ends[c] \cup {last}, l2)
       /\ Ran(stream[c], last, ends[c] \cup {last}, l2, dispatched[c] \o T)
  BY <1>3, <1>5, <1>6, <1>9, RanReceive DEF T
<1>11. /\ taken'[c] = last /\ ends'[c] = ends[c] \cup {last} /\ lost'[c] = l2
       /\ \A d \in Clients \ {c} :
              taken'[d] = taken[d] /\ ends'[d] = ends[d] /\ lost'[d] = lost[d]
  BY <1>1, <1>5 DEF Types
<1> HIDE DEF l2
<1>12. Types'
  <2>1. taken' \in [Clients -> Nat] /\ ends' \in [Clients -> SUBSET Nat]
    BY <1>1, <1>6 DEF Types
  <2>2. lost' \in [Clients -> SUBSET Nat]
    BY <1>1, <1>6 DEF Types
  <2>3. work' \in [client : Clients \cup {Nobody}, tokens : Seq(Stretch)]
    BY <1>1, <1>10
  <2>4. \A d \in Clients : taken'[d] <= delivered[d] /\ delivered[d] <= Len(stream[d])
    BY <1>5, <1>11 DEF Types
  <2> QED BY <1>2, <2>1, <2>2, <2>3, <2>4 DEF Types
<1>13. StreamInv'
  <2> SUFFICES ASSUME NEW d \in Clients
               PROVE  /\ Reads(stream[d], taken[d], ends[d], lost[d])'
                      /\ Ran(stream[d], taken[d], ends[d], lost[d], Handed(d))'
    BY DEF StreamInv
  <2>1. CASE d = c
    <3>1. Handed(c)' = dispatched[c] \o T
      BY <1>1, <1>2 DEF Handed
    <3> QED BY <1>2, <1>10, <1>11, <2>1, <3>1
  <2>2. CASE d # c
    <3>1. Handed(d)' = Handed(d)
      BY <1>1, <1>2, <2>2, ClientsAssumption DEF Handed
    <3> QED BY <1>2, <1>11, <2>2, <3>1 DEF StreamInv
  <2> QED BY <2>1, <2>2
<1> QED BY <1>12, <1>13

\* The first token moves from what is left to what was run.
LEMMA HandOver ==
    ASSUME NEW S, NEW q \in Seq(S), NEW ts \in Seq(S), ts # <<>>
    PROVE  /\ Head(ts) \in S /\ Tail(ts) \in Seq(S)
           /\ Append(q, Head(ts)) \in Seq(S)
           /\ Append(q, Head(ts)) \o Tail(ts) = q \o ts
<1>1. /\ Head(ts) \in S /\ Tail(ts) \in Seq(S) /\ Len(Tail(ts)) = Len(ts) - 1
      /\ \A k \in 1..Len(Tail(ts)) : Tail(ts)[k] = ts[k + 1]
      /\ Len(ts) \in Nat \ {0} /\ Head(ts) = ts[1] /\ Len(q) \in Nat
  <2>1. /\ Head(ts) \in S /\ Tail(ts) \in Seq(S) /\ Len(Tail(ts)) = Len(ts) - 1
        /\ \A k \in 1..Len(Tail(ts)) : Tail(ts)[k] = ts[k + 1]
    BY HeadTailProperties
  <2>2. Len(ts) \in Nat \ {0} /\ Head(ts) = ts[1] /\ Len(q) \in Nat
    OBVIOUS
  <2> QED BY <2>1, <2>2
<1> DEFINE a == Append(q, Head(ts))
           w == Tail(ts)
<1>2. /\ a \in Seq(S) /\ Len(a) = Len(q) + 1 /\ a[Len(q) + 1] = ts[1]
      /\ \A i \in 1..Len(q) : a[i] = q[i]
  BY <1>1, AppendProperties
<1>3. w \in Seq(S) /\ Len(w) = Len(ts) - 1 /\ \A k \in 1..Len(ts) - 1 : w[k] = ts[k + 1]
  BY <1>1
<1> HIDE DEF a, w
<1>4. /\ a \o w \in Seq(S) /\ Len(a \o w) = Len(a) + Len(w)
      /\ \A i \in 1..Len(a) + Len(w) : (a \o w)[i] = IF i <= Len(a) THEN a[i] ELSE w[i - Len(a)]
  BY <1>2, <1>3, ConcatProperties
<1>5. /\ q \o ts \in Seq(S) /\ Len(q \o ts) = Len(q) + Len(ts)
      /\ \A i \in 1..Len(q) + Len(ts) : (q \o ts)[i] = IF i <= Len(q) THEN q[i] ELSE ts[i - Len(q)]
  BY ConcatProperties
<1>6. Len(a \o w) = Len(q \o ts) /\ Len(a \o w) = Len(q) + Len(ts)
  BY <1>1, <1>2, <1>3, <1>4, <1>5
<1>7. ASSUME NEW i \in 1..Len(q) + Len(ts) PROVE (a \o w)[i] = (q \o ts)[i]
  <2>1. CASE i <= Len(q)
    BY <1>1, <1>2, <1>3, <1>4, <1>5, <2>1
  <2>2. CASE i = Len(q) + 1
    <3>1. (a \o w)[i] = ts[1]
      BY <1>1, <1>2, <1>3, <1>4, <2>2
    <3>2. (q \o ts)[i] = ts[i - Len(q)] /\ i - Len(q) = 1
      BY <1>1, <1>5, <2>2
    <3> QED BY <3>1, <3>2
  <2>3. CASE i > Len(q) + 1
    <3>1. (a \o w)[i] = w[i - Len(a)] /\ i - Len(a) \in 1..Len(ts) - 1
      BY <1>1, <1>2, <1>3, <1>4, <2>3
    <3>2. w[i - Len(a)] = ts[i - Len(a) + 1] /\ i - Len(a) + 1 = i - Len(q)
      BY <1>1, <1>2, <1>3, <3>1
    <3>3. (q \o ts)[i] = ts[i - Len(q)]
      BY <1>1, <1>5, <2>3
    <3> QED BY <3>1, <3>2, <3>3
  <2>4. i \in Int /\ Len(q) \in Int
    BY <1>1
  <2>5. i <= Len(q) \/ i = Len(q) + 1 \/ i > Len(q) + 1
    BY <2>4
  <2> HIDE DEF a, w
  <2> QED BY <2>1, <2>2, <2>3, <2>5
<1>8. a \o w = q \o ts
  BY <1>4, <1>5, <1>6, <1>7, SeqEqual
<1> QED BY <1>1, <1>2, <1>8 DEF a, w

\* One token: what it says about who runs and what is left.
LEMMA DispatchKeeps ==
    ASSUME Types, StreamInv, Dispatch
    PROVE  LET c == work.client
           IN  /\ c \in Clients
               /\ Types' /\ StreamInv'
               /\ dispatched' = [dispatched EXCEPT ![c] = Append(@, Head(work.tokens))]
               /\ Head(work.tokens) \in Stretch
               /\ stream' = stream
<1> DEFINE c == work.client
           ts == work.tokens
           t == Head(ts)
<1>1. /\ c # Nobody /\ ts # <<>>
      /\ work' = [work EXCEPT !.tokens = Tail(@)]
      /\ dispatched' = [dispatched EXCEPT ![c] = Append(@, t)]
      /\ UNCHANGED <<conn, stream, delivered, taken, ends, lost>>
      /\ server \in {"loop", "exiting"}
  BY DEF Dispatch, Running
<1>2. c \in Clients /\ ts \in Seq(Stretch) /\ dispatched[c] \in Seq(Stretch)
  BY <1>1 DEF Types
<1>3. /\ t \in Stretch /\ Tail(ts) \in Seq(Stretch) /\ Append(dispatched[c], t) \in Seq(Stretch)
      /\ Append(dispatched[c], t) \o Tail(ts) = dispatched[c] \o ts
  BY <1>1, <1>2, HandOver
<1> HIDE DEF t
<1>4. work' = [client |-> c, tokens |-> Tail(ts)]
  <2>1. work \in [client : Clients \cup {Nobody}, tokens : Seq(Stretch)]
    BY DEF Types
  <2> QED BY <1>1, <2>1
<1>5. /\ dispatched' \in [Clients -> Seq(Stretch)]
      /\ dispatched'[c] = Append(dispatched[c], t)
      /\ \A d \in Clients \ {c} : dispatched'[d] = dispatched[d]
  BY <1>1, <1>2, <1>3 DEF Types
<1>6. Types'
  <2>1. /\ server' \in {"loop", "exiting", "stopped", "killed"}
        /\ peer' \in [Clients -> {"here", "gone", "reset"}]
        /\ unread' \in [Clients -> 0..ReplyRoom] /\ replied' \in [Clients -> Nat]
    <3>1. CASE peer[c] = "here"
      <4>1. UNCHANGED peer /\ server' \in {"loop", "exiting"} /\ Answer(c)
        BY <3>1, <1>1 DEF Dispatch
      <4>a. /\ unread[c] \in 0..ReplyRoom /\ replied[c] \in Nat /\ ReplyRoom \in Nat
            /\ unread \in [Clients -> 0..ReplyRoom] /\ replied \in [Clients -> Nat]
        BY <1>2, BoundsAssumption DEF Types
      <4>b. unread[c] < ReplyRoom => unread[c] + 1 \in 0..ReplyRoom
        BY <4>a
      <4>2. unread' \in [Clients -> 0..ReplyRoom] /\ replied' \in [Clients -> Nat]
        <5>1. CASE unread[c] < ReplyRoom
          <6>1. /\ unread' = [unread EXCEPT ![c] = unread[c] + 1]
                /\ replied' = [replied EXCEPT ![c] = replied[c] + 1]
            BY <4>1, <5>1 DEF Answer
          <6>2. replied[c] + 1 \in Nat
            BY <4>a
          <6> QED BY <4>a, <4>b, <5>1, <6>1, <6>2
        <5>2. CASE ~(unread[c] < ReplyRoom)
          BY <4>1, <4>a, <5>2 DEF Answer
        <5> QED BY <5>1, <5>2
      <4> QED BY <4>1, <4>2 DEF Types
    <3>2. CASE peer[c] = "gone"
      <4>1. /\ peer' \in {peer, [peer EXCEPT ![c] = "reset"]}
            /\ server' \in {"loop", "exiting"} /\ UNCHANGED <<unread, replied>>
        BY <3>2, <1>1 DEF Dispatch
      <4> QED BY <4>1, <1>2 DEF Types
    <3>3. CASE peer[c] = "reset"
      <4>1. server' = "killed" /\ UNCHANGED <<unread, replied, peer>>
        BY <3>3 DEF Dispatch
      <4> QED BY <4>1 DEF Types
    <3> QED BY <3>1, <3>2, <3>3, <1>2 DEF Types
  <2>2. work' \in [client : Clients \cup {Nobody}, tokens : Seq(Stretch)]
    BY <1>2, <1>3, <1>4
  <2> QED BY <1>1, <1>5, <2>1, <2>2 DEF Types
<1>7. StreamInv'
  <2>1. ASSUME NEW d \in Clients PROVE Handed(d)' = Handed(d)
    <3>1. CASE d = c
      <4>1. Handed(d)' = dispatched'[c] \o Tail(ts)
        BY <1>4, <3>1 DEF Handed
      <4>2. Handed(d) = dispatched[c] \o ts
        BY <3>1 DEF Handed
      <4> QED BY <1>3, <1>5, <4>1, <4>2
    <3>2. CASE d # c
      BY <1>4, <1>5, <3>2 DEF Handed
    <3> QED BY <3>1, <3>2
  <2> QED BY <1>1, <2>1, StreamsStill
<1> QED BY <1>1, <1>2, <1>3, <1>6, <1>7 DEF t

\* Every step keeps what has been made of the streams.
LEMMA StepKeeps ==
    ASSUME Types, StreamInv, [Next]_vars
    PROVE  Types' /\ StreamInv'
<1>1. ASSUME UNCHANGED <<stream, taken, work, ends, lost, dispatched, replied>>,
             server' \in {"loop", "exiting", "stopped", "killed"},
             conn' \in [Clients -> {"none", "backlog", "open", "dropped"}],
             peer' \in [Clients -> {"here", "gone", "reset"}],
             unread' \in [Clients -> 0..ReplyRoom],
             delivered' = delivered
      PROVE  Types' /\ StreamInv'
  <2>1. Types'
    BY <1>1 DEF Types
  <2>2. \A c \in Clients : Handed(c)' = Handed(c)
    BY <1>1 DEF Handed
  <2> QED BY <1>1, <2>1, <2>2, StreamsStill
<1>2. CASE UNCHANGED vars
  BY <1>1, <1>2 DEF vars, clients, history, Types
<1>3. ASSUME NEW c \in Clients,
             Connect(c) \/ ReadReply(c) \/ Close(c) \/ Accept(c) \/ ReceiveError(c)
      PROVE  Types' /\ StreamInv'
  <2>1. CASE Connect(c)
    BY <1>1, <2>1 DEF Connect, history, Types
  <2>2. CASE ReadReply(c)
    <3>1. unread' \in [Clients -> 0..ReplyRoom]
      BY <2>2, BoundsAssumption DEF ReadReply, Types
    <3> QED BY <1>1, <2>2, <3>1 DEF ReadReply, history, Types
  <2>3. CASE Close(c)
    BY <1>1, <2>3 DEF Close, history, Types
  <2>4. CASE Accept(c)
    BY <1>1, <2>4 DEF Accept, history, Types
  <2>5. CASE ReceiveError(c)
    BY <1>1, <2>5 DEF ReceiveError, history, Types
  <2> QED BY <1>3, <2>1, <2>2, <2>3, <2>4, <2>5
<1>4. CASE Return
  <2>1. /\ work.client # Nobody /\ work.tokens = <<>>
        /\ work' = [work EXCEPT !.client = Nobody]
        /\ UNCHANGED <<server, conn, peer, stream, delivered, unread, taken, ends, lost,
                       dispatched, replied>>
    BY <1>4 DEF Return, clients, history
  <2>2. work \in [client : Clients \cup {Nobody}, tokens : Seq(Stretch)]
    BY DEF Types
  <2>3. work' = [client |-> Nobody, tokens |-> <<>>]
    BY <2>1, <2>2
  <2>4. Types'
    BY <2>1, <2>2, <2>3 DEF Types
  <2>5. \A c \in Clients : Handed(c)' = Handed(c)
    BY <2>1, <2>3 DEF Handed
  <2> QED BY <2>1, <2>4, <2>5, StreamsStill
<1>5. CASE LoopExit
  BY <1>1, <1>5 DEF LoopExit, clients, history, Types
<1>6. CASE Dispatch
  BY <1>6, DispatchKeeps
<1>7. ASSUME NEW c \in Clients, Deliver(c) PROVE Types' /\ StreamInv'
  <2>1. PICK n \in delivered[c] + 1..Len(stream[c]) : delivered' = [delivered EXCEPT ![c] = n]
    BY <1>7 DEF Deliver
  <2>2. UNCHANGED <<server, conn, peer, stream, unread, taken, work, ends, lost, dispatched, replied>>
    BY <1>7 DEF Deliver, history
  <2>3. /\ delivered[c] \in Nat /\ taken[c] \in Nat /\ Len(stream[c]) \in Nat
        /\ taken[c] <= delivered[c]
    BY ClientTypes
  <2>4. n \in Nat /\ taken[c] <= n /\ n <= Len(stream[c])
    BY <2>3
  <2>5. delivered' \in [Clients -> Nat]
    BY <2>1, <2>4 DEF Types
  <2>6. \A d \in Clients : taken[d] <= delivered'[d] /\ delivered'[d] <= Len(stream[d])
    BY <2>1, <2>4 DEF Types
  <2>7. Types'
    BY <2>2, <2>5, <2>6 DEF Types
  <2>8. \A d \in Clients : Handed(d)' = Handed(d)
    BY <2>2 DEF Handed
  <2> QED BY <2>2, <2>7, <2>8, StreamsStill
<1>8. ASSUME NEW c \in Clients, NEW cmd \in Commands, Send(c, cmd) PROVE Types' /\ StreamInv'
  BY <1>8, SendKeeps
<1>9. ASSUME NEW c \in Clients, Receive(c) PROVE Types' /\ StreamInv'
  BY <1>9, ReceiveKeeps
<1> QED BY <1>2, <1>3, <1>4, <1>5, <1>6, <1>7, <1>8, <1>9 DEF Next

-----------------------------------------------------------------------------
(* Replies.                                                                 *)

\* The replies of one client.
Answered(c) ==
    /\ unread[c] <= replied[c] /\ replied[c] <= Len(dispatched[c])
    /\ replied[c] < Len(dispatched[c]) => replied[c] >= ReplyRoom \/ peer[c] # "here"

\* Some client had "exit" run.
ExitRan == \E c \in Clients : \E t \in ToSet(dispatched[c]) : IsExit(c, t)

\* What was run remains so while more is run.
LEMMA StillRan ==
    ASSUME NEW S, NEW q \in Seq(S), NEW x \in S
    PROVE  /\ ToSet(q) \subseteq ToSet(Append(q, x)) /\ x \in ToSet(Append(q, x))
           /\ Len(Append(q, x)) = Len(q) + 1 /\ Len(q) \in Nat
<1> DEFINE a == Append(q, x)
<1>1. /\ a \in Seq(S) /\ Len(a) = Len(q) + 1 /\ a[Len(q) + 1] = x /\ Len(q) \in Nat
      /\ \A i \in 1..Len(q) : a[i] = q[i]
  BY AppendProperties, LenProperties
<1> HIDE DEF a
<1>2. DOMAIN a = 1..Len(q) + 1 /\ DOMAIN q = 1..Len(q)
  BY <1>1, LenProperties
<1>3. ASSUME NEW y \in ToSet(q) PROVE y \in ToSet(a)
  <2>1. PICK i \in DOMAIN q : q[i] = y
    BY DEF ToSet
  <2>2. i \in DOMAIN a /\ a[i] = y
    BY <1>1, <1>2, <2>1
  <2> QED BY <2>2 DEF ToSet
<1>4. x \in ToSet(a)
  <2>1. Len(q) + 1 \in DOMAIN a
    BY <1>1, <1>2
  <2> QED BY <1>1, <2>1 DEF ToSet
<1> QED BY <1>1, <1>3, <1>4 DEF a

\* A token is answered, or its reply lost for one of the two reasons.
LEMMA DispatchReplies ==
    ASSUME Types, StreamInv, RepliesPaired, Dispatch
    PROVE  RepliesPaired'
<1>0. PICK c \in Clients : c = work.client
  BY DispatchKeeps
<1> DEFINE t == Head(work.tokens)
<1>1. /\ c \in Clients /\ t \in Stretch /\ stream' = stream
      /\ dispatched' = [dispatched EXCEPT ![c] = Append(@, t)]
  BY <1>0, DispatchKeeps
<1>2. /\ unread \in [Clients -> 0..ReplyRoom] /\ replied \in [Clients -> Nat]
      /\ dispatched \in [Clients -> Seq(Stretch)] /\ peer \in [Clients -> {"here", "gone", "reset"}]
      /\ ReplyRoom \in Nat
  BY BoundsAssumption DEF Types
<1>3. /\ server \in {"loop", "exiting"}
      /\ \/ /\ peer[c] = "here" /\ server' = IF IsExit(c, t) THEN "exiting" ELSE server
            /\ Answer(c) /\ UNCHANGED peer
         \/ /\ peer[c] = "gone" /\ server' = IF IsExit(c, t) THEN "exiting" ELSE server
            /\ peer' \in {peer, [peer EXCEPT ![c] = "reset"]} /\ UNCHANGED <<unread, replied>>
         \/ peer[c] = "reset" /\ server' = "killed" /\ UNCHANGED <<unread, replied, peer>>
  BY <1>0 DEF Dispatch, Running
<1> HIDE DEF t
<1>b. /\ dispatched'[c] = Append(dispatched[c], t)
      /\ \A d \in Clients \ {c} : dispatched'[d] = dispatched[d]
      /\ dispatched[c] \in Seq(Stretch)
  BY <1>1, <1>2
<1>c. /\ ToSet(dispatched[c]) \subseteq ToSet(dispatched'[c]) /\ t \in ToSet(dispatched'[c])
      /\ Len(dispatched'[c]) = Len(dispatched[c]) + 1 /\ Len(dispatched[c]) \in Nat
  BY <1>1, <1>b, StillRan
<1>4. unread[c] \in Nat /\ replied[c] \in Nat
  BY <1>1, <1>2
<1>5. \A d \in Clients : Answered(d)
  BY DEF RepliesPaired, Answered
<1>a. /\ unread[c] <= replied[c] /\ replied[c] <= Len(dispatched[c])
      /\ replied[c] < Len(dispatched[c]) => replied[c] >= ReplyRoom \/ peer[c] # "here"
  BY <1>1, <1>5 DEF Answered
<1>6. \A d \in Clients \ {c} :
          unread'[d] = unread[d] /\ replied'[d] = replied[d] /\ peer'[d] = peer[d]
  <2>1. Answer(c) => \A d \in Clients \ {c} : unread'[d] = unread[d] /\ replied'[d] = replied[d]
    BY <1>2 DEF Answer
  <2> QED BY <1>2, <1>3, <2>1
<1>7. Answered(c)'
  <2>1. CASE peer[c] = "here" /\ Answer(c) /\ UNCHANGED peer
    <3>1. CASE unread[c] < ReplyRoom
      <4>1. unread'[c] = unread[c] + 1 /\ replied'[c] = replied[c] + 1
        BY <1>1, <1>2, <2>1, <3>1 DEF Answer
      <4>2. peer[c] = "here" /\
            (replied'[c] < Len(dispatched'[c]) => replied[c] < Len(dispatched[c]))
        BY <1>4, <1>c, <2>1, <4>1
      <4>3. replied'[c] < Len(dispatched'[c]) => replied'[c] >= ReplyRoom
        BY <1>2, <1>4, <1>a, <4>1, <4>2
      <4>4. unread'[c] <= replied'[c] /\ replied'[c] <= Len(dispatched'[c])
        BY <1>4, <1>a, <1>c, <4>1
      <4> QED BY <4>3, <4>4 DEF Answered
    <3>2. CASE ~(unread[c] < ReplyRoom)
      <4>1. unread' = unread /\ replied' = replied
        BY <2>1, <3>2 DEF Answer
      <4>2. replied[c] >= ReplyRoom
        BY <1>2, <1>4, <1>a, <3>2
      <4>3. /\ unread'[c] <= replied'[c] /\ replied'[c] <= Len(dispatched'[c])
            /\ replied'[c] >= ReplyRoom
        BY <1>4, <1>a, <1>c, <4>1, <4>2
      <4> QED BY <4>3 DEF Answered
    <3> QED BY <3>1, <3>2
  <2>2. CASE UNCHANGED <<unread, replied>> /\ peer'[c] # "here"
    <3>1. unread'[c] <= replied'[c] /\ replied'[c] <= Len(dispatched'[c])
      BY <1>4, <1>a, <1>c, <2>2
    <3> QED BY <2>2, <3>1 DEF Answered
  <2>3. peer[c] # "here" => UNCHANGED <<unread, replied>> /\ peer'[c] # "here"
    BY <1>1, <1>2, <1>3
  <2> QED BY <1>3, <2>1, <2>2, <2>3
<1>8. \A d \in Clients : Answered(d)'
  <2>1. ASSUME NEW d \in Clients \ {c} PROVE Answered(d)'
    BY <1>5, <1>6, <1>b DEF Answered
  <2> QED BY <1>7, <2>1
<1>9. server' = "killed" =>
          \E d \in Clients : peer'[d] = "reset" /\ Len(dispatched'[d]) > replied'[d]
  <2> SUFFICES ASSUME server' = "killed"
               PROVE  peer'[c] = "reset" /\ Len(dispatched'[c]) > replied'[c]
    BY <1>1
  <2>1. peer[c] = "reset" /\ UNCHANGED <<unread, replied, peer>>
    BY <1>3
  <2> QED BY <1>4, <1>a, <1>c, <2>1
<1>10. server' \in {"exiting", "stopped"} => ExitRan'
  <2> SUFFICES ASSUME server' \in {"exiting", "stopped"} PROVE ExitRan'
    OBVIOUS
  <2>0. \A d \in Clients : \A u : IsExit(d, u) => IsExit(d, u)'
    BY <1>1 DEF IsExit
  <2>1. CASE IsExit(c, t)
    BY <1>1, <1>c, <2>0, <2>1 DEF ExitRan
  <2>2. CASE ~IsExit(c, t)
    <3>1. server = "exiting"
      BY <1>3, <2>2
    <3>2. PICK d \in Clients : \E u \in ToSet(dispatched[d]) : IsExit(d, u)
      BY <3>1 DEF RepliesPaired
    <3>3. PICK u \in ToSet(dispatched[d]) : IsExit(d, u)
      BY <3>2
    <3>4. u \in ToSet(dispatched'[d])
      BY <1>b, <1>c, <3>3
    <3> QED BY <2>0, <3>2, <3>3, <3>4 DEF ExitRan
  <2> QED BY <2>1, <2>2
<1> QED BY <1>8, <1>9, <1>10 DEF RepliesPaired, Answered, ExitRan

\* A command that is sent leaves what was run as it was.
LEMMA SendReplies ==
    ASSUME Types, StreamInv, RepliesPaired,
           NEW c \in Clients, NEW cmd \in Commands, Send(c, cmd)
    PROVE  RepliesPaired'
<1>1. UNCHANGED <<server, peer, unread, dispatched, replied, taken, lost, ends>>
  BY DEF Send, history
<1>2. \A d \in Clients : \A i \in 1..Len(stream[d]) : stream'[d][i] = stream[d][i]
  BY SendKeeps
<1>3. Types'
  BY SendKeeps
<1>4. ASSUME NEW d \in Clients, NEW t \in ToSet(dispatched[d]) PROVE IsExit(d, t) => IsExit(d, t)'
  <2>1. /\ dispatched[d] \in Seq(Stretch) /\ taken[d] \in Nat /\ taken[d] <= Len(stream[d])
        /\ Len(stream[d]) \in Nat /\ stream[d] \in Seq(Symbols)
        /\ work.tokens \in Seq(Stretch)
    BY ClientTypes
  <2>2. PICK i \in 1..Len(dispatched[d]) : t = dispatched[d][i]
    BY <2>1 DEF ToSet
  <2>3. i \in 1..Len(Handed(d)) /\ Handed(d)[i] = t
    <3> DEFINE w == IF work.client = d THEN work.tokens ELSE <<>>
               q == dispatched[d]
    <3>1. w \in Seq(Stretch) /\ q \in Seq(Stretch) /\ Handed(d) = q \o w /\ i \in 1..Len(q) /\ t = q[i]
      BY <2>1, <2>2 DEF Handed
    <3> HIDE DEF w, q
    <3>2. Len(w) \in Nat /\ Len(q) \in Nat
      BY <3>1, LenProperties
    <3> QED BY <3>1, <3>2, ConcatProperties
  <2>4. CutAt(stream[d], taken[d], ends[d], lost[d], t)
    BY <2>3 DEF StreamInv, Ran
  <2>5. t \in Stretch
    BY <2>1, <2>2
  <2>6. t.from \in Nat /\ t.to \in Nat /\ t.from \in 1..t.to /\ t.to <= Len(stream[d])
    BY <2>1, <2>4, <2>5 DEF CutAt, Stretch
  <2>7. \A i_1 \in t.from..t.to : stream'[d][i_1] = stream[d][i_1] /\ stream[d][i_1] \in Symbols
    BY <1>2, <2>1, <2>6
  <2> DEFINE s == stream[d]
             r == stream'[d]
             a == t.from
             b == t.to
  <2>8. a \in Int /\ b \in Int /\ \A j \in a..b : r[j] = s[j] /\ s[j] \in Symbols
    BY <2>6, <2>7
  <2> HIDE DEF s, r, a, b
  <2>9. /\ SubSeq(s, a, b) \in Seq(Symbols) /\ SubSeq(r, a, b) \in Seq(Symbols)
        /\ Len(SubSeq(s, a, b)) = IF a <= b THEN b - a + 1 ELSE 0
        /\ Len(SubSeq(r, a, b)) = IF a <= b THEN b - a + 1 ELSE 0
        /\ \A j \in 1..b - a + 1 : SubSeq(s, a, b)[j] = s[a + j - 1]
        /\ \A j \in 1..b - a + 1 : SubSeq(r, a, b)[j] = r[a + j - 1]
    <3>1. \A j \in a..b : s[j] \in Symbols
      BY <2>8
    <3>2. \A j \in a..b : r[j] \in Symbols
      BY <2>8
    <3>3. /\ SubSeq(s, a, b) \in Seq(Symbols)
          /\ Len(SubSeq(s, a, b)) = IF a <= b THEN b - a + 1 ELSE 0
          /\ \A j \in 1..b - a + 1 : SubSeq(s, a, b)[j] = s[a + j - 1]
      BY <2>8, <3>1, SubSeqProperties
    <3>4. /\ SubSeq(r, a, b) \in Seq(Symbols)
          /\ Len(SubSeq(r, a, b)) = IF a <= b THEN b - a + 1 ELSE 0
          /\ \A j \in 1..b - a + 1 : SubSeq(r, a, b)[j] = r[a + j - 1]
      BY <2>8, <3>2, SubSeqProperties
    <3> QED BY <3>3, <3>4
  <2>10. \A j \in 1..b - a + 1 : a + j - 1 \in a..b
    BY <2>8
  <2>11. \A j \in 1..Len(SubSeq(s, a, b)) : SubSeq(s, a, b)[j] = SubSeq(r, a, b)[j]
    BY <2>8, <2>9, <2>10
  <2>12. SubSeq(s, a, b) = SubSeq(r, a, b)
    BY <2>9, <2>11, SeqEqual
  <2> QED BY <2>12 DEF IsExit, s, r, a, b
<1>5. ExitRan => ExitRan'
  BY <1>1, <1>4 DEF ExitRan
<1>6. server \in {"exiting", "stopped"} => ExitRan
  BY DEF RepliesPaired, ExitRan
<1>7. server' \in {"exiting", "stopped"} => ExitRan'
  BY <1>1, <1>5, <1>6
<1> QED BY <1>1, <1>7 DEF RepliesPaired, ExitRan

\* Every step keeps the replies paired.
LEMMA StepReplies ==
    ASSUME Types, StreamInv, RepliesPaired, [Next]_vars
    PROVE  RepliesPaired'
<1>1. CASE UNCHANGED <<server, peer, stream, unread, dispatched, replied>>
  BY <1>1 DEF RepliesPaired, IsExit
<1>2. ASSUME NEW c \in Clients, ReadReply(c) PROVE RepliesPaired'
  <2>1. /\ unread[c] > 0 /\ unread' = [unread EXCEPT ![c] = @ - 1]
        /\ UNCHANGED <<server, peer, stream, dispatched, replied>>
    BY <1>2 DEF ReadReply, history
  <2>2. unread \in [Clients -> 0..ReplyRoom] /\ replied \in [Clients -> Nat] /\ ReplyRoom \in Nat
    BY BoundsAssumption DEF Types
  <2>3. ASSUME NEW d \in Clients PROVE unread'[d] <= replied'[d]
    <3>1. unread[d] <= replied[d] /\ unread[d] \in Nat /\ replied[d] \in Nat
      BY <2>2 DEF RepliesPaired
    <3>2. unread'[d] <= unread[d] /\ unread'[d] \in Int
      BY <2>1, <2>2, <3>1
    <3> QED BY <2>1, <3>1, <3>2
  <2> QED BY <2>1, <2>3 DEF RepliesPaired, IsExit
<1>3. ASSUME NEW c \in Clients, Close(c) PROVE RepliesPaired'
  <2>1. /\ peer[c] = "here" /\ peer' = [peer EXCEPT ![c] = IF unread[c] > 0 THEN "reset" ELSE "gone"]
        /\ UNCHANGED <<server, stream, unread, dispatched, replied>>
    BY <1>3 DEF Close, history
  <2>2. peer \in [Clients -> {"here", "gone", "reset"}]
    BY DEF Types
  <2>3. \A d \in Clients : /\ peer[d] # "here" => peer'[d] # "here"
                           /\ peer[d] = "reset" => peer'[d] = "reset"
    BY <2>1, <2>2
  <2> QED BY <2>1, <2>3 DEF RepliesPaired, IsExit
<1>4. CASE LoopExit
  <2>1. server = "exiting" /\ server' = "stopped"
        /\ UNCHANGED <<peer, stream, unread, dispatched, replied>>
    BY <1>4 DEF LoopExit, clients, history
  <2> QED BY <2>1 DEF RepliesPaired, IsExit
<1>5. CASE Dispatch
  BY <1>5, DispatchReplies
<1>6. ASSUME NEW c \in Clients,
             Connect(c) \/ Deliver(c) \/ Accept(c) \/ Receive(c) \/ ReceiveError(c)
      PROVE  RepliesPaired'
  <2>1. UNCHANGED <<server, peer, stream, unread, dispatched, replied>>
    BY <1>6 DEF Connect, Deliver, Accept, Receive, ReceiveError, clients, history
  <2> QED BY <1>1, <2>1
<1>7. CASE Return
  BY <1>1, <1>7 DEF Return, clients, history
<1>8. CASE UNCHANGED vars
  BY <1>1, <1>8 DEF vars, clients, history
<1>9. ASSUME NEW c \in Clients, NEW cmd \in Commands, Send(c, cmd) PROVE RepliesPaired'
  BY <1>9, SendReplies
<1> QED BY <1>2, <1>3, <1>4, <1>5, <1>6, <1>7, <1>8, <1>9 DEF Next

\* The invariant of the server.
LEMMA ServerInductive == Spec => []ServerInv
<1>1. ServerInv /\ [Next]_vars => ServerInv'
  BY StepKeeps, StepReplies DEF ServerInv
<1> QED BY <1>1, InitServer, PTL DEF Spec

\* For any clients, commands and buffers: the variables of the server keep their
\* types, no more is read than arrived nor arrives than was sent, and the socket
\* of no client holds more replies than it has room for.
THEOREM ServerTypes == Spec => []TypeOK
<1>1. ServerInv => TypeOK
  <2> SUFFICES ASSUME ServerInv PROVE TypeOK
    OBVIOUS
  <2>1. Types /\ RepliesPaired
    BY DEF ServerInv
  <2>2. \A c \in Clients : /\ stream[c] \in Seq(Symbols)
                           /\ Len(stream[c]) <= MaxSend[c]
                           /\ taken[c] <= delivered[c]
                           /\ delivered[c] <= Len(stream[c])
                           /\ unread[c] \in 0..ReplyRoom
                           /\ dispatched[c] \in Seq(Stretch)
                           /\ replied[c] <= Len(dispatched[c])
    BY <2>1, ClientTypes DEF RepliesPaired
  <2> QED BY <2>1, <2>2 DEF Types, TypeOK
<1> QED BY <1>1, ServerInductive, PTL

\* However the network cuts the streams, whatever a full buffer loses and in
\* whatever order clients are served: what runs for a client is its own stream in
\* its order, cut nowhere but at a separator or around an end of a read, and every
\* command that a read took whole is run as it was sent (raspd.c 33-63).
THEOREM StreamsRunAsRead == Spec => []RunsAsRead
<1>1. ServerInv => RunsAsRead
  <2> SUFFICES ASSUME ServerInv, NEW c \in Clients
               PROVE  /\ \A i, j \in DOMAIN Handed(c) :
                             i < j => Handed(c)[i].to < Handed(c)[j].from
                      /\ \A i \in DOMAIN Handed(c) : CutOut(c, Handed(c)[i])
                      /\ \A t \in [from : 1..taken[c], to : 1..taken[c]] :
                             ReadWhole(c, t) => \E i \in DOMAIN Handed(c) : Handed(c)[i] = t
    BY DEF RunsAsRead
  <2>1. Handed(c) \in Seq(Stretch) /\ taken[c] \in Nat
    BY ClientTypes DEF ServerInv
  <2>2. DOMAIN Handed(c) = 1..Len(Handed(c))
    BY <2>1, LenProperties
  <2>3. Ran(stream[c], taken[c], ends[c], lost[c], Handed(c))
    BY DEF ServerInv, StreamInv
  <2>4. \A i, j \in DOMAIN Handed(c) : i < j => Handed(c)[i].to < Handed(c)[j].from
    BY <2>2, <2>3 DEF Ran, Apart
  <2>5. \A i \in DOMAIN Handed(c) : CutOut(c, Handed(c)[i])
    BY <2>2, <2>3 DEF Ran, CutAt, CutOut
  <2>6. ASSUME NEW t \in [from : 1..taken[c], to : 1..taken[c]], ReadWhole(c, t)
        PROVE  \E i \in DOMAIN Handed(c) : Handed(c)[i] = t
    <3>1. t \in Stretch
      BY <2>1 DEF Stretch
    <3>2. WholeAt(stream[c], taken[c], ends[c], lost[c], t)
      BY <2>6 DEF ReadWhole, WholeAt
    <3> QED BY <2>2, <2>3, <3>1, <3>2 DEF Ran
  <2> QED BY <2>4, <2>5, <2>6
<1> QED BY <1>1, ServerInductive, PTL

\* For any clients and commands: a reply is missing only for want of room or of
\* a client, and the server stops only for the command "exit" or a reset that a
\* reply ran into (raspd.c 53-59).
THEOREM RepliesArePaired == Spec => []RepliesPaired
<1>1. ServerInv => RepliesPaired
  BY DEF ServerInv
<1> QED BY <1>1, ServerInductive, PTL

-----------------------------------------------------------------------------
(* cmdline_split never writes beyond the array of arguments, for any line:    *)
(* every argument begins at a token of its own that the first pass counted.  *)

\* Where the pointer is between two words: at the start or the end of the line,
\* or at the space that ended the last word.
OuterOK == at = "outer" => ptr = 1 \/ ptr = Nul \/ IsSpace(ptr)

\* Every argument began at a token, and the pointer has left it behind.
BeginsOK ==
    /\ begins \subseteq Starts
    /\ \A b \in begins : b < ptr \/ (at = "inner" /\ b = ptr)

CountOK ==
    /\ IsFiniteSet(begins)
    /\ Cardinality(begins) = Len(cmd_args) + (IF at = "inner" THEN 1 ELSE 0)

FitInv == LineTypeOK /\ OuterOK /\ BeginsOK /\ CountOK

\* The NUL is the position behind the line.
LEMMA LineType == LineTypeOK => Len(cmdexec) \in Nat /\ Nul \in Nat /\ Nul = Len(cmdexec) + 1
BY DEF LineTypeOK, Nul

\* Before the first word there is no argument.
LEMMA InitFits == SplitInit => FitInv
<1> SUFFICES ASSUME SplitInit PROVE FitInv
  OBVIOUS
<1> USE DEF SplitInit
<1>1. cmdexec \in Seq(Chars)
  <2>1. PICK n \in 0..MaxLine : cmdexec \in [1..n -> Chars]
    BY MaxLineAssumption DEF Lines
  <2> QED
    BY <2>1
<1>2. LineTypeOK
  BY <1>1 DEF LineTypeOK, Nul
<1>3. OuterOK
  BY DEF OuterOK
<1>4. BeginsOK
  BY DEF BeginsOK
<1>5. CountOK
  BY FS_EmptySet DEF CountOK
<1> QED
  BY <1>2, <1>3, <1>4, <1>5 DEF FitInv

\* A word that begins adds a token that no argument began at.
LEMMA NextWordFits == ASSUME FitInv, NextWord PROVE FitInv'
<1> USE DEF FitInv
<1>0. Len(cmdexec) \in Nat /\ Nul = Len(cmdexec) + 1 /\ ptr \in 1..Nul
  BY LineType DEF LineTypeOK
<1>1. PICK q \in ptr..Nul :
        /\ SkipsTo(ptr, q)
        /\ ptr' = q
        /\ IF q = Nul THEN at' = "done" /\ UNCHANGED begins
                      ELSE at' = "inner" /\ begins' = begins \cup {q}
  BY DEF NextWord
<1>2. UNCHANGED <<cmdexec, cur_arg, cmd_args>> /\ at = "outer"
  BY DEF NextWord
<1>3. q \in 1..Nul /\ q >= ptr /\ ptr' = q
  BY <1>0, <1>1
<1>4. CASE q = Nul
  <2>1. at' = "done" /\ begins' = begins
    BY <1>1, <1>4
  <2>2. LineTypeOK'
    BY <1>2, <1>3, <2>1 DEF LineTypeOK, Nul
  <2>3. OuterOK'
    BY <2>1 DEF OuterOK
  <2>4. BeginsOK'
    <3>1. \A b \in begins : b \in Int /\ b < ptr
      BY <1>2 DEF BeginsOK, LineTypeOK
    <3>2. Starts' = Starts
      BY <1>2 DEF Starts, IsSpace, Nul
    <3> QED
      BY <1>0, <1>3, <2>1, <3>1, <3>2 DEF BeginsOK
  <2>5. CountOK'
    BY <1>2, <2>1 DEF CountOK
  <2> QED
    BY <2>2, <2>3, <2>4, <2>5
<1>5. CASE q # Nul
  <2>1. at' = "inner" /\ begins' = begins \cup {q}
    BY <1>1, <1>5
  <2>2. q \in 1..Len(cmdexec)
    BY <1>0, <1>3, <1>5
  <2>3. \A b \in begins : b \in Int /\ b < ptr
    BY <1>2 DEF BeginsOK, LineTypeOK
  <2>4. q \in Starts
    <3>1. ~IsSpace(q) /\ \A i \in ptr..q - 1 : IsSpace(i)
      BY <1>1 DEF SkipsTo
    <3>2. q = 1 \/ IsSpace(q - 1)
      <4>1. CASE q = ptr
        BY <1>2, <1>5, <3>1, <4>1 DEF OuterOK
      <4>2. CASE q > ptr
        <5>1. q - 1 \in ptr..q - 1
          BY <1>0, <1>3, <4>2
        <5> QED
          BY <3>1, <5>1
      <4> QED
        BY <1>0, <1>3, <4>1, <4>2
    <3> QED
      BY <2>2, <3>1, <3>2 DEF Starts
  <2>5. LineTypeOK'
    BY <1>2, <1>3, <2>1, <2>2 DEF LineTypeOK, Nul
  <2>6. OuterOK'
    BY <2>1 DEF OuterOK
  <2>7. BeginsOK'
    <3>1. Starts' = Starts
      BY <1>2 DEF Starts, IsSpace, Nul
    <3> QED
      BY <1>0, <1>3, <2>1, <2>3, <2>4, <3>1 DEF BeginsOK
  <2>8. CountOK'
    <3>1. q \notin begins
      BY <1>0, <1>3, <2>3
    <3>2. IsFiniteSet(begins') /\ Cardinality(begins') = Cardinality(begins) + 1
      BY <2>1, <3>1, FS_AddElement DEF CountOK
    <3>3. Len(cmd_args) \in Nat
      BY DEF LineTypeOK
    <3>4. Cardinality(begins) = Len(cmd_args) + 0
      BY <1>2 DEF CountOK
    <3>5. Cardinality(begins') = Len(cmd_args') + 1
      BY <1>2, <3>2, <3>3, <3>4
    <3> QED
      BY <2>1, <3>2, <3>5 DEF CountOK
  <2> QED
    BY <2>5, <2>6, <2>7, <2>8
<1> QED
  BY <1>4, <1>5

\* Inside a word only the pointer moves, and only forward.
LEMMA InnerFits ==
    ASSUME FitInv, at = "inner", ptr' \in 1..Nul, ptr' > ptr, cur_arg' \in Seq(Chars),
           UNCHANGED <<cmdexec, at, cmd_args, begins>>
    PROVE  FitInv'
<1> USE DEF FitInv
<1>1. LineTypeOK'
  BY DEF LineTypeOK, Nul
<1>2. OuterOK'
  BY DEF OuterOK
<1>3. BeginsOK'
  <2>1. Starts' = Starts
    BY DEF Starts, IsSpace, Nul
  <2>2. \A b \in begins : b \in Int /\ b <= ptr
    BY DEF BeginsOK, LineTypeOK
  <2>3. ptr \in Int /\ ptr' \in Int
    BY LineType DEF LineTypeOK
  <2> QED
    BY <2>1, <2>2, <2>3 DEF BeginsOK
<1>4. CountOK'
  BY DEF CountOK
<1> QED
  BY <1>1, <1>2, <1>3, <1>4

\* A character of the line is copied.
LEMMA CopyFits == ASSUME FitInv, Copy PROVE FitInv'
<1>1. Len(cmdexec) \in Nat /\ Nul = Len(cmdexec) + 1 /\ ptr \in 1..Nul /\ LineTypeOK
  BY LineType DEF FitInv, LineTypeOK
<1>2. ptr' \in 1..Nul /\ ptr' > ptr
  BY <1>1 DEF Copy
<1>3. cur_arg' \in Seq(Chars)
  <2>1. ptr \in 1..Len(cmdexec)
    BY <1>1 DEF Copy
  <2>2. cmdexec[ptr] \in Chars
    BY <1>1, <2>1 DEF LineTypeOK
  <2> QED
    BY <1>1, <2>2 DEF Copy, LineTypeOK
<1> QED
  BY <1>2, <1>3, InnerFits DEF Copy

\* So is one behind a backslash.
LEMMA EscapeFits == ASSUME FitInv, Escape PROVE FitInv'
<1>1. Len(cmdexec) \in Nat /\ Nul = Len(cmdexec) + 1 /\ ptr \in 1..Nul /\ LineTypeOK
  BY LineType DEF FitInv, LineTypeOK
<1>2. ptr < Len(cmdexec)
  BY DEF Escape
<1>3. ptr' \in 1..Nul /\ ptr' > ptr
  BY <1>1, <1>2 DEF Escape
<1>4. cur_arg' \in Seq(Chars)
  <2>1. ptr + 1 \in 1..Len(cmdexec)
    BY <1>1, <1>2
  <2>2. cmdexec[ptr + 1] \in Chars
    BY <1>1, <2>1 DEF LineTypeOK
  <2> QED
    BY <1>1, <2>2 DEF Escape, LineTypeOK
<1> QED
  BY <1>3, <1>4, InnerFits DEF Escape

\* A word that ends has moved the pointer past where it began.
LEMMA EndWordFits == ASSUME FitInv, EndWord PROVE FitInv'
<1> USE DEF FitInv
<1>1. Len(cmdexec) \in Nat /\ Nul = Len(cmdexec) + 1 /\ ptr \in 1..Nul
  BY LineType DEF LineTypeOK
<1>2. /\ at = "inner" /\ at' = "outer"
      /\ cmd_args' = Append(cmd_args, cur_arg) /\ cur_arg' = <<>>
      /\ UNCHANGED <<cmdexec, begins>>
      /\ ptr' = Behind
  BY DEF EndWord
<1>3. ptr' \in 1..Nul /\ ptr' >= ptr
  BY <1>1, <1>2 DEF Behind
<1>4. ptr' = Nul \/ (IsSpace(ptr) /\ ptr' = ptr)
  BY <1>2 DEF Behind
<1>5. LineTypeOK'
  BY <1>2, <1>3 DEF LineTypeOK, Nul
<1>6. OuterOK'
  BY <1>2, <1>4 DEF OuterOK, IsSpace, Nul
<1>7. BeginsOK'
  <2>1. Starts' = Starts
    BY <1>2 DEF Starts, IsSpace, Nul
  <2>2. ASSUME NEW b \in begins PROVE b < ptr'
    <3>1. b \in Int /\ b <= ptr /\ b # Nul /\ ~IsSpace(b)
      BY <1>1 DEF BeginsOK, Starts, LineTypeOK
    <3> QED
      BY <1>1, <1>3, <1>4, <3>1
  <2> QED
    BY <1>2, <2>1, <2>2 DEF BeginsOK
<1>8. CountOK'
  <2>1. Len(cmd_args) \in Nat /\ Len(cmd_args') = Len(cmd_args) + 1
    BY <1>2 DEF LineTypeOK
  <2> QED
    BY <1>2, <2>1 DEF CountOK
<1> QED
  BY <1>5, <1>6, <1>7, <1>8

\* Every step of the second pass keeps the count.
LEMMA NextFits == FitInv /\ [SplitNext]_splitVars => FitInv'
<1> SUFFICES ASSUME FitInv, [SplitNext]_splitVars PROVE FitInv'
  OBVIOUS
<1>1. CASE UNCHANGED splitVars
  BY <1>1 DEF splitVars, FitInv, LineTypeOK, OuterOK, BeginsOK, CountOK, Nul, IsSpace, Starts
<1> QED
  BY <1>1, NextWordFits, CopyFits, EscapeFits, EndWordFits DEF SplitNext

\* For every line: the pointer stays on the line, and what is copied are
\* sequences of its characters.
THEOREM LineTypeCorrect == SplitSpec => []LineTypeOK
<1>1. FitInv => LineTypeOK
  BY DEF FitInv
<1> QED
  BY <1>1, InitFits, NextFits, PTL DEF SplitSpec

\* For every line, however it mixes spaces and escapes: the arguments and the
\* NULL after them fit the array that the first pass sized.
THEOREM ArgsAlwaysFit == SplitSpec => []ArgsFit
<1>1. FitInv => ArgsFit
  <2> SUFFICES ASSUME FitInv PROVE ArgsFit
    OBVIOUS
  <2>1. Len(cmdexec) \in Nat
    BY LineType DEF FitInv
  <2>2. IsFiniteSet(1..Len(cmdexec)) /\ Starts \subseteq 1..Len(cmdexec)
    BY <2>1, FS_Interval DEF Starts
  <2>3. IsFiniteSet(Starts)
    BY <2>2, FS_Subset
  <2>4. Cardinality(begins) <= Cardinality(Starts)
    BY <2>3, FS_Subset DEF FitInv, BeginsOK
  <2> QED
    BY <2>4 DEF FitInv, CountOK, ArgsFit, max_tokens
<1> QED
  BY <1>1, InitFits, NextFits, PTL DEF SplitSpec

-----------------------------------------------------------------------------
(* cmdline_split makes the arguments out of the words, for any line.        *)

\* Where the loops part two words: at a space that is not escaped, unless its run
\* of spaces follows an escaped character other than a backslash.
Parted(i) ==
    /\ IsSpace(i) /\ ~Escaped(i)
    /\ \A j \in 1..i - 1 :
         Escaped(j) /\ cmdexec[j] # Backslash => \E k \in j + 1..i - 1 : ~IsSpace(k)

PartedStarts ==
    {i \in 1..Len(cmdexec) :
        /\ InWord(i)
        /\ \A j \in 1..i - 1 : InWord(j) => \E k \in j + 1..i - 1 : Parted(k)}

\* An argument is the characters copied from s to e.
CopiedIn(s, e) == {i \in s..e - 1 : Copied(i)}
Spells(arg, s, e) ==
    /\ Len(arg) = Cardinality(CopiedIn(s, e))
    /\ \A i \in CopiedIn(s, e) :
          arg[Cardinality({j \in CopiedIn(s, e) : j <= i})] = cmdexec[i]

\* The argument that began at s, and where what it is made of ends so far.
Rank(s) == Cardinality({i \in begins : i <= s})
Latest(s) == \A i \in begins : i <= s
IsEnd(s, e) == IF Latest(s) THEN e = ptr
               ELSE s < e /\ e \in begins /\ \A j \in begins : s < j => e <= j
ArgOf(s) == IF at = "inner" /\ Latest(s) THEN cur_arg ELSE cmd_args[Rank(s)]

\* The pointer never rests on an escaped character; between two words it is at
\* a space that parts them; inside one, the spaces that an escaped character
\* swallows are behind it.
PtrOK ==
    /\ ptr # Nul => ~Escaped(ptr)
    /\ at = "outer" => ptr = 1 \/ ptr = Nul \/ Parted(ptr)
    /\ at = "inner" =>
          \A j \in 1..ptr - 1 :
             Escaped(j) /\ cmdexec[j] # Backslash => \E k \in j + 1..ptr : ~IsSpace(k)
    /\ at = "done" => ptr = Nul
    /\ at # "inner" => cur_arg = <<>>

\* The arguments began where the words behind the pointer begin.
BeginsAreStarts ==
    /\ begins = {i \in PartedStarts : i < ptr \/ (at = "inner" /\ i = ptr)}
    /\ at = "inner" => \E b \in begins : \A k \in b + 1..ptr - 1 : ~Parted(k)

\* Every argument is what its word spells up to the pointer.
ArgsSpelt ==
    \A s \in begins : \A e \in 1..Nul : IsEnd(s, e) => Spells(ArgOf(s), s, e)

WordInv == FitInv /\ PtrOK /\ BeginsAreStarts /\ ArgsSpelt

\* Whether a character is escaped depends on the one before it.
LEMMA EscapedAfter ==
    ASSUME cmdexec \in Seq(Chars), NEW i \in 1..Len(cmdexec)
    PROVE  Escaped(i + 1) <=> cmdexec[i] = Backslash /\ ~Escaped(i)
<1>0. i \in Nat /\ 1 <= i
  OBVIOUS
<1>1. ASSUME Escaped(i + 1) PROVE cmdexec[i] = Backslash /\ ~Escaped(i)
  <2>1. PICK n \in 1..i :
          /\ n % 2 = 1
          /\ \A j \in i + 1 - n..i : cmdexec[j] = Backslash
          /\ i + 1 - n = 1 \/ cmdexec[i + 1 - n - 1] # Backslash
    <3>1. (i + 1) - 1 = i
      BY <1>0
    <3> QED BY <1>1, <3>1 DEF Escaped
  <2>2. cmdexec[i] = Backslash
    <3>1. i \in i + 1 - n..i
      BY <1>0
    <3> QED BY <2>1, <3>1
  <2>3. ASSUME Escaped(i) PROVE FALSE
    <3>1. PICK m \in 1..i - 1 :
            /\ m % 2 = 1
            /\ \A j \in i - m..i - 1 : cmdexec[j] = Backslash
            /\ i - m = 1 \/ cmdexec[i - m - 1] # Backslash
      BY <2>3 DEF Escaped
    <3>2. m \in Nat /\ n \in Nat /\ 1 <= m /\ m <= i - 1 /\ 1 <= n /\ n <= i
      BY <1>0
    <3>3. CASE i + 1 - n < i - m
      <4>1. i - m - 1 \in i + 1 - n..i /\ i - m # 1
        BY <1>0, <3>2, <3>3
      <4> QED BY <2>1, <3>1, <4>1
    <3>4. CASE i + 1 - n > i - m
      <4>1. i + 1 - n - 1 \in i - m..i - 1 /\ i + 1 - n # 1
        BY <1>0, <3>2, <3>4
      <4> QED BY <2>1, <3>1, <4>1
    <3>5. CASE i + 1 - n = i - m
      <4>1. n = m + 1
        BY <1>0, <3>2, <3>5
      <4> QED BY <2>1, <3>1, <3>2, <4>1
    <3> QED BY <1>0, <3>2, <3>3, <3>4, <3>5
  <2> QED BY <2>2, <2>3
<1>2. ASSUME cmdexec[i] = Backslash, ~Escaped(i) PROVE Escaped(i + 1)
  <2> DEFINE A == {a \in 1..i : \A j \in a..i : cmdexec[j] = Backslash}
  <2>1. i \in A /\ A \in SUBSET Nat
    BY <1>0, <1>2
  <2>2. PICK a \in A : \A b \in A : a <= b
    BY <2>1, LeastIs
  <2>3. a \in 1..i /\ \A j \in a..i : cmdexec[j] = Backslash
    OBVIOUS
  <2>4. a \in Nat /\ 1 <= a /\ a <= i
    BY <1>0, <2>3
  <2>5. a = 1 \/ cmdexec[a - 1] # Backslash
    <3> SUFFICES ASSUME a # 1, cmdexec[a - 1] = Backslash PROVE FALSE
      OBVIOUS
    <3>1. a - 1 \in 1..i
      BY <1>0, <2>4
    <3>2. ASSUME NEW j \in a - 1..i PROVE cmdexec[j] = Backslash
      <4>1. j = a - 1 \/ j \in a..i
        BY <1>0, <2>4
      <4> QED BY <2>3, <4>1
    <3>3. a - 1 \in A
      BY <3>1, <3>2
    <3> QED BY <2>2, <2>4, <3>3
  <2> HIDE DEF A
  <2>6. CASE (i + 1 - a) % 2 = 1
    <3> DEFINE n == i + 1 - a
    <3>1. n \in 1..(i + 1) - 1 /\ (i + 1) - n = a /\ (i + 1) - 1 = i
      BY <1>0, <2>4
    <3>2. n % 2 = 1
      BY <2>6
    <3> HIDE DEF n
    <3>3. \A j \in (i + 1) - n..(i + 1) - 1 : cmdexec[j] = Backslash
      BY <2>3, <3>1
    <3> QED BY <2>5, <3>1, <3>2, <3>3 DEF Escaped
  <2>7. CASE (i + 1 - a) % 2 # 1
    <3> DEFINE n == i - a
    <3>1. i # a /\ n \in Nat
      BY <1>0, <2>4, <2>7
    <3>2. n % 2 = 1
      BY <1>0, <2>4, <2>7
    <3>3. n \in 1..i - 1 /\ i - n = a
      BY <1>0, <2>4, <3>1
    <3> HIDE DEF n
    <3>4. \A j \in i - n..i - 1 : cmdexec[j] = Backslash
      <4>1. \A j \in a..i - 1 : j \in a..i
        BY <1>0, <2>4
      <4> QED BY <2>3, <3>3, <4>1
    <3> QED BY <1>2, <2>5, <3>2, <3>3, <3>4 DEF Escaped
  <2> QED BY <2>6, <2>7
<1> QED BY <1>1, <1>2

LEMMA FirstUnescaped == ~Escaped(1)
BY DEF Escaped

\* Spaces that follow an unescaped position are unescaped, and so is what
\* follows them: neither they belong to a word nor are they copied.
LEMMA SpacesUnescaped ==
    ASSUME cmdexec \in Seq(Chars), NEW a \in 1..Nul, NEW q \in a..Nul,
           ~Escaped(a), \A i \in a..q - 1 : IsSpace(i)
    PROVE  /\ ~Escaped(q)
           /\ \A i \in a..q - 1 : ~Escaped(i) /\ ~InWord(i) /\ ~Copied(i)
<1>0. Len(cmdexec) \in Nat /\ Nul = Len(cmdexec) + 1 /\ a \in Nat /\ q \in Nat /\ 1 <= a /\ a <= q /\ q <= Nul
  BY DEF Nul
<1>1. ASSUME NEW i \in a..q PROVE ~Escaped(i)
  <2>1. CASE i = a
    BY <2>1
  <2>2. CASE i # a
    <3>1. i - 1 \in a..q - 1 /\ i - 1 \in 1..Len(cmdexec) /\ (i - 1) + 1 = i
      BY <1>0, <2>2
    <3>2. cmdexec[i - 1] # Backslash
      BY <3>1, CharsAssumption DEF IsSpace
    <3> QED BY <3>1, <3>2, EscapedAfter
  <2> QED BY <2>1, <2>2
<1>2. \A i \in a..q - 1 : i \in a..q
  BY <1>0
<1>3. q \in a..q
  BY <1>0
<1> QED BY <1>1, <1>2, <1>3 DEF InWord, Copied

\* A number behind a set is the last of it and disturbs no other's rank.
LEMMA RankMore ==
    ASSUME NEW C \in SUBSET Nat, IsFiniteSet(C), NEW p \in Nat, \A i \in C : i < p
    PROVE  /\ Cardinality(C) \in Nat
           /\ IsFiniteSet(C \cup {p}) /\ Cardinality(C \cup {p}) = Cardinality(C) + 1
           /\ {j \in C \cup {p} : j <= p} = C \cup {p}
           /\ \A i \in C : {j \in C \cup {p} : j <= i} = {j \in C : j <= i}
<1>1. p \notin C
  OBVIOUS
<1>2. \A i \in C : i \in Nat /\ i < p /\ ~(p <= i)
  OBVIOUS
<1>3. \A i \in C : {j \in C \cup {p} : j <= i} = {j \in C : j <= i}
  BY <1>2
<1>4. \A j \in C \cup {p} : j <= p
  BY <1>2
<1>5. {j \in C \cup {p} : j <= p} = C \cup {p}
  BY <1>4
<1> QED BY <1>1, <1>3, <1>5, FS_AddElement, FS_CardinalityType

LEMMA RankIn ==
    ASSUME NEW C \in SUBSET Nat, IsFiniteSet(C), NEW i \in C
    PROVE  /\ Cardinality({j \in C : j <= i}) \in 1..Cardinality(C)
           /\ (\E j \in C : i < j) => Cardinality({j \in C : j <= i}) < Cardinality(C)
<1> DEFINE D == {j \in C : j <= i}
<1>1. D \in SUBSET C /\ i \in D
  OBVIOUS
<1>2. (\E j \in C : i < j) => D # C
  OBVIOUS
<1> HIDE DEF D
<1>3. IsFiniteSet(D) /\ Cardinality(D) <= Cardinality(C) /\ (Cardinality(C) = Cardinality(D) => C = D)
  BY <1>1, FS_Subset
<1>4. Cardinality(D) \in Nat /\ Cardinality(C) \in Nat /\ Cardinality(D) # 0
  BY <1>1, <1>3, FS_CardinalityType, FS_EmptySet
<1>5. Cardinality(D) \in 1..Cardinality(C)
  BY <1>3, <1>4
<1>6. (\E j \in C : i < j) => Cardinality(D) < Cardinality(C)
  BY <1>2, <1>3, <1>4
<1> QED BY <1>5, <1>6 DEF D

LEMMA CopiedFinite ==
    ASSUME NEW s \in Nat, NEW e \in Nat
    PROVE  CopiedIn(s, e) \in SUBSET Nat /\ IsFiniteSet(CopiedIn(s, e))
<1>1. CopiedIn(s, e) \in SUBSET (s..e - 1) /\ s \in Int /\ e - 1 \in Int
  BY DEF CopiedIn
<1>2. IsFiniteSet(s..e - 1)
  BY <1>1, FS_Interval
<1> QED BY <1>1, <1>2, FS_Subset

\* One more character is copied.
LEMMA SpellsOne ==
    ASSUME NEW s \in Nat, NEW e \in Nat, NEW f \in Nat, NEW p \in Nat, e <= p,
           CopiedIn(s, f) = CopiedIn(s, e) \cup {p},
           NEW arg \in Seq(Chars), cmdexec[p] \in Chars, Spells(arg, s, e)
    PROVE  Spells(Append(arg, cmdexec[p]), s, f)
<1> DEFINE C == CopiedIn(s, e)
           D == CopiedIn(s, f)
           more == Append(arg, cmdexec[p])
<1>1. C \in SUBSET Nat /\ IsFiniteSet(C) /\ D = C \cup {p}
  BY CopiedFinite
<1>2. \A i \in C : i < p
  BY DEF CopiedIn
<1>3. /\ Len(more) = Len(arg) + 1 /\ more[Len(arg) + 1] = cmdexec[p]
      /\ \A k \in 1..Len(arg) : more[k] = arg[k]
  BY AppendProperties
<1>4. Len(arg) = Cardinality(C) /\ \A i \in C : arg[Cardinality({j \in C : j <= i})] = cmdexec[i]
  BY DEF Spells
<1> HIDE DEF C, D, more
<1>5. /\ Cardinality(D) = Cardinality(C) + 1
      /\ {j \in D : j <= p} = D
      /\ \A i \in C : {j \in D : j <= i} = {j \in C : j <= i}
  BY <1>1, <1>2, RankMore
<1>6. \A i \in C : Cardinality({j \in C : j <= i}) \in 1..Cardinality(C)
  BY <1>1, RankIn
<1>7. ASSUME NEW i \in D PROVE more[Cardinality({j \in D : j <= i})] = cmdexec[i]
  <2>1. CASE i = p
    BY <1>3, <1>4, <1>5, <2>1
  <2>2. CASE i \in C
    BY <1>3, <1>4, <1>5, <1>6, <2>2
  <2> QED BY <1>1, <2>1, <2>2
<1> QED BY <1>3, <1>4, <1>5, <1>7 DEF C, D, more, Spells

\* What is typed of the split.
LEMMA SplitTypes ==
    ASSUME FitInv
    PROVE  /\ Len(cmdexec) \in Nat /\ Nul = Len(cmdexec) + 1 /\ cmdexec \in Seq(Chars)
           /\ ptr \in Nat /\ 1 <= ptr /\ ptr <= Nul /\ ptr \in 1..Nul
           /\ cur_arg \in Seq(Chars) /\ cmd_args \in Seq(Seq(Chars))
           /\ begins \in SUBSET Nat /\ begins \subseteq 1..Len(cmdexec) /\ IsFiniteSet(begins)
           /\ Cardinality(begins) = Len(cmd_args) + (IF at = "inner" THEN 1 ELSE 0)
           /\ PartedStarts \subseteq 1..Len(cmdexec)
BY LineType DEF FitInv, LineTypeOK, CountOK, PartedStarts

\* Nothing about the line changes when the line does not.
LEMMA LineStays ==
    ASSUME UNCHANGED cmdexec
    PROVE  /\ Nul' = Nul /\ PartedStarts' = PartedStarts
           /\ \A i : /\ IsSpace(i)' = IsSpace(i) /\ Escaped(i)' = Escaped(i)
                     /\ Parted(i)' = Parted(i) /\ InWord(i)' = InWord(i) /\ Copied(i)' = Copied(i)
           /\ \A s, e : CopiedIn(s, e)' = CopiedIn(s, e)
<1>1. Nul' = Nul
  BY DEF Nul
<1>2. \A i : IsSpace(i)' = IsSpace(i)
  BY <1>1 DEF IsSpace
<1>3. \A i : Escaped(i)' = Escaped(i)
  BY DEF Escaped
<1> QED BY <1>1, <1>2, <1>3 DEF Parted, InWord, Copied, PartedStarts, CopiedIn

LEMMA SpeltNext ==
    ASSUME UNCHANGED cmdexec,
           \A s \in begins' : \A e \in 1..Nul : IsEnd(s, e)' => Spells(ArgOf(s)', s, e)
    PROVE  ArgsSpelt'
<1>1. Nul' = Nul /\ \A s, e : CopiedIn(s, e)' = CopiedIn(s, e)
  BY LineStays
<1> SUFFICES ASSUME NEW s \in begins', NEW e \in 1..Nul, IsEnd(s, e)'
             PROVE  Spells(ArgOf(s), s, e)'
  BY <1>1 DEF ArgsSpelt
<1>2. Spells(ArgOf(s)', s, e)
  OBVIOUS
<1> QED BY <1>1, <1>2 DEF Spells

\* Before the first word there is nothing to compare.
LEMMA InitWords == SplitInit => WordInv
<1> SUFFICES ASSUME SplitInit PROVE WordInv
  OBVIOUS
<1>1. FitInv
  BY InitFits
<1>2. PtrOK
  BY FirstUnescaped DEF SplitInit, PtrOK
<1>3. BeginsAreStarts
  <2>1. \A i \in PartedStarts : ~(i < 1)
    BY <1>1, SplitTypes
  <2> QED BY <2>1 DEF SplitInit, BeginsAreStarts
<1>4. ArgsSpelt
  BY DEF SplitInit, ArgsSpelt
<1> QED BY <1>1, <1>2, <1>3, <1>4 DEF WordInv

\* The outer loop passes spaces that part words and belong to none; where it
\* stops a word begins.
LEMMA NextWordWords == ASSUME WordInv, NextWord PROVE PtrOK' /\ BeginsAreStarts' /\ ArgsSpelt'
<1>0. FitInv /\ PtrOK /\ BeginsAreStarts /\ ArgsSpelt
  BY DEF WordInv
<1>1. PICK q \in ptr..Nul :
        /\ SkipsTo(ptr, q)
        /\ ptr' = q
        /\ IF q = Nul THEN at' = "done" /\ UNCHANGED begins
                      ELSE at' = "inner" /\ begins' = begins \cup {q}
  BY DEF NextWord
<1>2. at = "outer" /\ UNCHANGED <<cmdexec, cur_arg, cmd_args>>
  BY DEF NextWord
<1>t. /\ Len(cmdexec) \in Nat /\ Nul = Len(cmdexec) + 1 /\ cmdexec \in Seq(Chars)
      /\ ptr \in Nat /\ 1 <= ptr /\ ptr <= Nul /\ ptr \in 1..Nul
      /\ begins \in SUBSET Nat /\ PartedStarts \subseteq 1..Len(cmdexec)
  BY <1>0, SplitTypes
<1>3. q \in Nat /\ ptr <= q /\ q <= Nul /\ q \in 1..Nul
  BY <1>1, <1>t
<1>4. ~IsSpace(q) /\ \A i \in ptr..q - 1 : IsSpace(i)
  BY <1>1 DEF SkipsTo
<1>5. (q # Nul => ~Escaped(q)) /\ \A i \in ptr..q - 1 : ~Escaped(i) /\ ~InWord(i) /\ ~Copied(i)
  <2>1. CASE ptr = Nul
    <3>1. q = Nul /\ \A i \in ptr..q - 1 : FALSE
      BY <1>3, <1>t, <2>1
    <3> QED BY <3>1
  <2>2. CASE ptr # Nul
    BY <1>0, <1>3, <1>4, <1>t, <2>2, SpacesUnescaped DEF PtrOK
  <2> QED BY <2>1, <2>2
<1>6. \A i \in PartedStarts : i \in Nat /\ i \in 1..Len(cmdexec) /\ InWord(i) /\ ~(i \in ptr..q - 1)
  BY <1>5, <1>t DEF PartedStarts
<1>7. begins = {i \in PartedStarts : i < ptr} /\ begins = {i \in PartedStarts : i < q}
  <2>1. begins = {i \in PartedStarts : i < ptr}
    BY <1>0, <1>2 DEF BeginsAreStarts
  <2>2. \A i \in PartedStarts : i < ptr <=> i < q
    BY <1>3, <1>6, <1>t
  <2> QED BY <2>1, <2>2
<1>8. \A s \in begins : s \in Nat /\ s < ptr /\ s < q /\ CopiedIn(s, q) = CopiedIn(s, ptr)
  <2> SUFFICES ASSUME NEW s \in begins
               PROVE  s \in Nat /\ s < ptr /\ s < q /\ CopiedIn(s, q) = CopiedIn(s, ptr)
    OBVIOUS
  <2>1. s \in Nat /\ s < ptr /\ s < q
    BY <1>6, <1>7
  <2>2. \A i \in s..q - 1 : Copied(i) => i \in s..ptr - 1
    BY <1>3, <1>5, <1>t, <2>1
  <2>3. \A i \in s..ptr - 1 : i \in s..q - 1
    BY <1>3, <1>t, <2>1
  <2> QED BY <2>1, <2>2, <2>3 DEF CopiedIn
<1>9. CASE q = Nul
  <2>1. at' = "done" /\ ptr' = Nul /\ begins' = begins /\ cmdexec' = cmdexec /\ Nul' = Nul /\ PartedStarts' = PartedStarts
    BY <1>1, <1>2, <1>9, LineStays
  <2>2. PtrOK'
    BY <1>0, <1>2, <2>1 DEF PtrOK
  <2>3. BeginsAreStarts'
    BY <1>7, <1>9, <2>1 DEF BeginsAreStarts
  <2>4. ASSUME NEW s \in begins', NEW e \in 1..Nul, IsEnd(s, e)' PROVE Spells(ArgOf(s)', s, e)
    <3>1. s \in begins /\ Latest(s)' = Latest(s)
      BY <2>1 DEF Latest
    <3>2. ArgOf(s)' = ArgOf(s)
      BY <1>2, <2>1, <3>1 DEF ArgOf, Rank
    <3>3. CASE Latest(s)
      <4>1. e = q
        BY <1>1, <2>4, <3>1, <3>3 DEF IsEnd
      <4>2. Spells(ArgOf(s), s, ptr)
        BY <1>0, <1>t, <3>1, <3>3 DEF IsEnd, ArgsSpelt
      <4> QED BY <1>8, <3>1, <3>2, <4>1, <4>2 DEF Spells
    <3>4. CASE ~Latest(s)
      <4>1. IsEnd(s, e)
        BY <2>1, <2>4, <3>1, <3>4 DEF IsEnd
      <4> QED BY <1>0, <3>1, <3>2, <4>1 DEF ArgsSpelt
    <3> QED BY <3>3, <3>4
  <2>5. ArgsSpelt'
    BY <2>1, <2>4, SpeltNext
  <2> QED BY <2>2, <2>3, <2>5
<1>10. CASE q # Nul
  <2>1. /\ at' = "inner" /\ ptr' = q /\ begins' = begins \cup {q} /\ cmdexec' = cmdexec
        /\ Nul' = Nul /\ PartedStarts' = PartedStarts
        /\ \A i : IsSpace(i)' = IsSpace(i) /\ Escaped(i)' = Escaped(i)
    BY <1>1, <1>2, <1>10, LineStays
  <2>2. PtrOK'
    <3>1. ~Escaped(ptr)'
      <4>1. ~Escaped(q)'
        BY <1>5, <1>10, <2>1
      <4> QED BY <2>1, <4>1 DEF Escaped
    <3>2. \A j \in 1..q - 1 : \E k \in j + 1..q : ~IsSpace(k)
      <4> SUFFICES ASSUME NEW j \in 1..q - 1 PROVE q \in j + 1..q /\ ~IsSpace(q)
        OBVIOUS
      <4> QED BY <1>3, <1>4
    <3>3. \A j \in 1..ptr' - 1 : \E k \in j + 1..ptr' : ~IsSpace(k)'
      BY <2>1, <3>2
    <3> QED BY <2>1, <3>1, <3>3 DEF PtrOK
  <2>3. q \in PartedStarts
    <3>1. q \in 1..Len(cmdexec) /\ InWord(q)
      BY <1>3, <1>4, <1>10, <1>t DEF InWord
    <3>2. ASSUME NEW j \in 1..q - 1, InWord(j) PROVE \E k \in j + 1..q - 1 : Parted(k)
      <4>1. j \in Nat /\ 1 <= j /\ j < ptr
        BY <1>3, <1>5, <1>t, <3>2
      <4>2. Parted(ptr)
        BY <1>0, <1>2, <1>3, <1>10, <1>t, <4>1 DEF PtrOK
      <4>3. ptr # q
        BY <1>4, <4>2 DEF Parted
      <4>4. ptr \in j + 1..q - 1
        BY <1>3, <1>t, <4>1, <4>3
      <4> QED BY <4>2, <4>4
    <3> QED BY <3>1, <3>2 DEF PartedStarts
  <2>4. BeginsAreStarts'
    <3>1. begins' = {i \in PartedStarts : i < q \/ i = q}
      BY <1>7, <2>1, <2>3
    <3>2. \A k \in q + 1..q - 1 : FALSE
      BY <1>3
    <3>3. q \in begins'
      BY <2>1
    <3> QED BY <2>1, <3>1, <3>2, <3>3 DEF BeginsAreStarts
  <2>5. ASSUME NEW s \in begins', NEW e \in 1..Nul, IsEnd(s, e)' PROVE Spells(ArgOf(s)', s, e)
    <3>1. CASE s = q
      <4>1. Latest(s)'
        BY <1>3, <1>8, <2>1, <3>1 DEF Latest
      <4>2. e = q /\ ArgOf(s)' = cur_arg'
        BY <2>1, <2>5, <4>1 DEF IsEnd, ArgOf
      <4>3. cur_arg' = <<>>
        BY <1>0, <1>2 DEF PtrOK
      <4>4. CopiedIn(s, e) = {}
        BY <1>3, <3>1, <4>2 DEF CopiedIn
      <4>5. Len(<<>>) = 0
        OBVIOUS
      <4> QED BY <4>2, <4>3, <4>4, <4>5, FS_EmptySet DEF Spells
    <3>2. CASE s # q
      <4>1. s \in begins /\ s \in Nat /\ s < q /\ q \in begins'
        BY <1>8, <2>1, <3>2
      <4>2. ~Latest(s)'
        BY <1>3, <4>1 DEF Latest
      <4>3. {i \in begins' : i <= s} = {i \in begins : i <= s}
        BY <1>3, <2>1, <4>1
      <4>4. ArgOf(s)' = ArgOf(s)
        BY <1>2, <4>2, <4>3 DEF ArgOf, Rank
      <4>5. s < e /\ e \in begins' /\ \A j \in begins' : s < j => e <= j
        BY <2>5, <4>2 DEF IsEnd
      <4>6. CASE Latest(s)
        <5>1. e = q
          <6>1. e \notin begins
            BY <1>t, <4>1, <4>5, <4>6 DEF Latest
          <6> QED BY <2>1, <4>5, <6>1
        <5>2. Spells(ArgOf(s), s, ptr)
          BY <1>0, <1>t, <4>1, <4>6 DEF IsEnd, ArgsSpelt
        <5> QED BY <1>8, <4>1, <4>4, <5>1, <5>2 DEF Spells
      <4>7. CASE ~Latest(s)
        <5>1. PICK j \in begins : ~(j <= s)
          BY <4>7 DEF Latest
        <5>2. s < j /\ j < q /\ j \in Nat
          BY <1>8, <4>1, <5>1
        <5>3. e <= j /\ e \in Nat
          BY <1>3, <1>t, <2>1, <4>5, <5>1, <5>2
        <5>4. e \in begins
          BY <1>3, <2>1, <4>5, <5>2, <5>3
        <5>5. IsEnd(s, e)
          BY <2>1, <4>5, <4>7, <5>4 DEF IsEnd
        <5> QED BY <1>0, <4>1, <4>4, <5>5 DEF ArgsSpelt
      <4> QED BY <4>6, <4>7
    <3> QED BY <3>1, <3>2
  <2>6. ArgsSpelt'
    BY <2>1, <2>5, SpeltNext
  <2> QED BY <2>2, <2>4, <2>6
<1> QED BY <1>9, <1>10

\* Inside a word the pointer passes one character that is copied, with others
\* that are not and part no words: no word begins there.
LEMMA InnerWords ==
    ASSUME WordInv, at = "inner", UNCHANGED <<cmdexec, at, cmd_args, begins>>,
           NEW p \in Nat, NEW f \in Nat, ptr <= p, p < f, f <= Nul, p \in 1..Len(cmdexec),
           ptr' = f, cur_arg' = Append(cur_arg, cmdexec[p]),
           \A i \in ptr..f - 1 : ~Parted(i) /\ (Copied(i) <=> i = p)
    PROVE  BeginsAreStarts' /\ ArgsSpelt'
<1>0. FitInv /\ PtrOK /\ BeginsAreStarts /\ ArgsSpelt
  BY DEF WordInv
<1>t. /\ Len(cmdexec) \in Nat /\ Nul = Len(cmdexec) + 1 /\ cmdexec \in Seq(Chars)
      /\ ptr \in Nat /\ 1 <= ptr /\ ptr <= Nul /\ ptr \in 1..Nul
      /\ begins \in SUBSET Nat /\ PartedStarts \subseteq 1..Len(cmdexec) /\ cur_arg \in Seq(Chars)
  BY <1>0, SplitTypes
<1>1. Nul' = Nul /\ PartedStarts' = PartedStarts /\ \A i : Parted(i)' = Parted(i)
  BY LineStays
<1>2. begins = {i \in PartedStarts : i <= ptr}
  <2>1. begins = {i \in PartedStarts : i < ptr \/ i = ptr}
    BY <1>0 DEF BeginsAreStarts
  <2>2. \A i \in PartedStarts : i < ptr \/ i = ptr <=> i <= ptr
    BY <1>t
  <2> QED BY <2>1, <2>2
<1>3. PICK b \in begins : \A k \in b + 1..ptr - 1 : ~Parted(k)
  BY <1>0 DEF BeginsAreStarts
<1>4. b \in Nat /\ 1 <= b /\ b <= ptr /\ InWord(b)
  BY <1>2, <1>t DEF PartedStarts
<1>5. \A k \in b + 1..f - 1 : ~Parted(k)
  <2> SUFFICES ASSUME NEW k \in b + 1..f - 1 PROVE ~Parted(k)
    OBVIOUS
  <2>1. k \in b + 1..ptr - 1 \/ k \in ptr..f - 1
    BY <1>4, <1>t
  <2> QED BY <1>3, <2>1
<1>6. ASSUME NEW i \in PartedStarts PROVE i < f \/ i = f <=> i <= ptr
  <2>1. i \in Nat /\ i \in 1..Len(cmdexec)
    BY <1>t
  <2>2. ASSUME i > ptr, i <= f PROVE FALSE
    <3>1. b \in 1..i - 1
      BY <1>4, <1>t, <2>1, <2>2
    <3>2. PICK k \in b + 1..i - 1 : Parted(k)
      BY <1>4, <3>1 DEF PartedStarts
    <3>3. k \in b + 1..f - 1
      BY <1>4, <2>1, <2>2
    <3> QED BY <1>5, <3>2, <3>3
  <2> QED BY <1>t, <2>1, <2>2
<1>7. BeginsAreStarts'
  <2>1. begins' = {i \in PartedStarts : i < f \/ i = f}
    BY <1>2, <1>6
  <2>2. \E a \in begins' : \A k \in a + 1..f - 1 : ~Parted(k)'
    BY <1>1, <1>5
  <2> QED BY <1>1, <2>1, <2>2 DEF BeginsAreStarts
<1>8. ASSUME NEW s \in begins', NEW e \in 1..Nul, IsEnd(s, e)' PROVE Spells(ArgOf(s)', s, e)
  <2>1. s \in begins /\ s \in Nat /\ s <= ptr /\ Latest(s)' = Latest(s)
    BY <1>2, <1>t DEF Latest
  <2>2. CASE Latest(s)
    <3>1. e = f /\ ArgOf(s)' = Append(cur_arg, cmdexec[p])
      BY <1>8, <2>1, <2>2 DEF IsEnd, ArgOf
    <3>2. Spells(cur_arg, s, ptr)
      BY <1>0, <1>t, <2>1, <2>2 DEF IsEnd, ArgOf, ArgsSpelt
    <3>3. CopiedIn(s, f) = CopiedIn(s, ptr) \cup {p}
      <4>1. \A i \in s..f - 1 : Copied(i) <=> (i \in s..ptr - 1 /\ Copied(i)) \/ i = p
        <5> SUFFICES ASSUME NEW i \in s..f - 1
                     PROVE  Copied(i) <=> (i \in s..ptr - 1 /\ Copied(i)) \/ i = p
          OBVIOUS
        <5>1. CASE i < ptr
          <6>1. i \in s..ptr - 1 /\ i # p
            BY <1>t, <2>1, <5>1
          <6> QED BY <6>1
        <5>2. CASE ~(i < ptr)
          <6>1. i \in ptr..f - 1 /\ i \notin s..ptr - 1
            BY <1>t, <2>1, <5>2
          <6> QED BY <6>1
        <5> QED BY <5>1, <5>2
      <4>2. p \in s..f - 1 /\ \A i \in s..ptr - 1 : i \in s..f - 1
        BY <1>t, <2>1
      <4> QED BY <4>1, <4>2 DEF CopiedIn
    <3>4. cmdexec[p] \in Chars
      BY <1>t
    <3> QED BY <1>t, <2>1, <3>1, <3>2, <3>3, <3>4, SpellsOne
  <2>3. CASE ~Latest(s)
    <3>1. IsEnd(s, e)
      BY <1>8, <2>1, <2>3 DEF IsEnd
    <3>2. ArgOf(s)' = ArgOf(s)
      BY <2>1, <2>3 DEF ArgOf, Rank
    <3> QED BY <1>0, <2>1, <3>1, <3>2 DEF ArgsSpelt
  <2> QED BY <2>2, <2>3
<1>9. ArgsSpelt'
  BY <1>8, SpeltNext
<1> QED BY <1>7, <1>9

\* A character that stands for itself.
LEMMA CopyWords == ASSUME WordInv, Copy PROVE PtrOK' /\ BeginsAreStarts' /\ ArgsSpelt'
<1>0. FitInv /\ PtrOK
  BY DEF WordInv
<1>t. /\ Len(cmdexec) \in Nat /\ Nul = Len(cmdexec) + 1 /\ cmdexec \in Seq(Chars)
      /\ ptr \in Nat /\ 1 <= ptr /\ ptr <= Nul
  BY <1>0, SplitTypes
<1>1. /\ at = "inner" /\ ptr # Nul /\ ~IsSpace(ptr) /\ cmdexec[ptr] # Backslash
      /\ cur_arg' = Append(cur_arg, cmdexec[ptr]) /\ ptr' = ptr + 1
      /\ UNCHANGED <<cmdexec, at, cmd_args, begins>>
  BY DEF Copy
<1>2. ptr \in 1..Len(cmdexec) /\ ~Escaped(ptr)
  BY <1>0, <1>1, <1>t DEF PtrOK
<1>3. ~Escaped(ptr + 1)
  BY <1>1, <1>2, <1>t, EscapedAfter
<1>4. \A i \in ptr..(ptr + 1) - 1 : ~Parted(i) /\ (Copied(i) <=> i = ptr)
  <2>1. \A i \in ptr..(ptr + 1) - 1 : i = ptr
    BY <1>t
  <2> QED BY <1>1, <2>1 DEF Parted, Copied
<1>5. PtrOK'
  <2>1. /\ Nul' = Nul
        /\ \A i : IsSpace(i)' = IsSpace(i) /\ Escaped(i)' = Escaped(i)
    BY <1>1, LineStays
  <2>2. ~Escaped(ptr)'
    BY <1>1, <1>3, <2>1 DEF Escaped
  <2>3. ASSUME NEW j \in 1..ptr, Escaped(j), cmdexec[j] # Backslash
        PROVE  \E k \in j + 1..ptr + 1 : ~IsSpace(k)
    <3>1. j \in 1..ptr - 1
      BY <1>2, <1>t, <2>3
    <3>2. PICK k \in j + 1..ptr : ~IsSpace(k)
      BY <1>0, <1>1, <2>3, <3>1 DEF PtrOK
    <3>3. k \in j + 1..ptr + 1
      BY <1>t
    <3> QED BY <3>2, <3>3
  <2>4. ASSUME NEW j \in 1..ptr' - 1, Escaped(j)', cmdexec'[j] # Backslash
        PROVE  \E k \in j + 1..ptr' : ~IsSpace(k)'
    <3>1. j \in 1..ptr
      BY <1>1, <1>t
    <3> QED BY <1>1, <2>1, <2>3, <2>4, <3>1
  <2> QED BY <1>1, <2>2, <2>4 DEF PtrOK
<1>6. ptr + 1 \in Nat /\ ptr < ptr + 1 /\ ptr + 1 <= Nul /\ ptr <= ptr
  BY <1>2, <1>t
<1> QED BY <1>1, <1>2, <1>4, <1>5, <1>6, <1>t, InnerWords

\* An escape, with the spaces that it swallows.
LEMMA EscapeWords == ASSUME WordInv, Escape PROVE PtrOK' /\ BeginsAreStarts' /\ ArgsSpelt'
<1>0. FitInv /\ PtrOK
  BY DEF WordInv
<1>t. /\ Len(cmdexec) \in Nat /\ Nul = Len(cmdexec) + 1 /\ cmdexec \in Seq(Chars)
      /\ ptr \in Nat /\ 1 <= ptr /\ ptr <= Nul
  BY <1>0, SplitTypes
<1>1. /\ at = "inner" /\ ptr < Len(cmdexec) /\ cmdexec[ptr] = Backslash
      /\ cur_arg' = Append(cur_arg, cmdexec[ptr + 1])
      /\ UNCHANGED <<cmdexec, at, cmd_args, begins>>
  BY DEF Escape
<1>2. ptr \in 1..Len(cmdexec) /\ ptr + 1 \in 1..Len(cmdexec) /\ ptr # Nul /\ ptr + 1 \in Nat
  BY <1>1, <1>t
<1>3. ~Escaped(ptr) /\ Escaped(ptr + 1)
  BY <1>0, <1>1, <1>2, <1>t, EscapedAfter DEF PtrOK
<1>4. ~Escaped(ptr + 2)
  <2>1. (ptr + 1) + 1 = ptr + 2
    BY <1>t
  <2> QED BY <1>2, <1>3, <1>t, <2>1, EscapedAfter
<1>5. /\ ~Parted(ptr) /\ ~Copied(ptr) /\ ~Parted(ptr + 1) /\ Copied(ptr + 1)
  BY <1>1, <1>3, CharsAssumption DEF Parted, Copied, IsSpace
<1>6. PICK f \in Nat :
        /\ ptr' = f /\ ptr + 2 <= f /\ f <= Nul
        /\ f = Nul \/ ~Escaped(f)
        /\ \A i \in ptr + 2..f - 1 : ~Parted(i) /\ ~Copied(i)
        /\ cmdexec[ptr + 1] # Backslash => ~IsSpace(f)
        /\ cmdexec[ptr + 1] = Backslash => f = ptr + 2
  <2>1. CASE cmdexec[ptr + 1] # Backslash
    <3>1. PICK q \in ptr + 2..Nul : SkipsTo(ptr + 2, q) /\ ptr' = q
      BY <2>1 DEF Escape, Swallows
    <3>2. ~IsSpace(q) /\ \A i \in ptr + 2..q - 1 : IsSpace(i)
      BY <3>1 DEF SkipsTo
    <3>3. ptr + 2 \in 1..Nul /\ q \in Nat /\ ptr + 2 <= q /\ q <= Nul
      BY <1>1, <1>t
    <3>4. ~Escaped(q) /\ \A i \in ptr + 2..q - 1 : ~Escaped(i) /\ ~Copied(i)
      BY <1>4, <1>t, <3>2, <3>3, SpacesUnescaped
    <3>5. ASSUME NEW i \in ptr + 2..q - 1 PROVE ~Parted(i)
      <4>1. ptr + 1 \in 1..i - 1
        BY <1>t, <3>3
      <4>2. \A k \in (ptr + 1) + 1..i - 1 : k \in ptr + 2..q - 1
        BY <1>t, <3>3
      <4>3. ~ \E k \in (ptr + 1) + 1..i - 1 : ~IsSpace(k)
        BY <3>2, <4>2
      <4> QED BY <1>3, <2>1, <4>1, <4>3 DEF Parted
    <3> QED BY <2>1, <3>1, <3>2, <3>3, <3>4, <3>5
  <2>2. CASE cmdexec[ptr + 1] = Backslash
    <3>1. ptr' = ptr + 2
      BY <2>2 DEF Escape, Swallows
    <3>2. \A i \in ptr + 2..(ptr + 2) - 1 : FALSE
      BY <1>t
    <3>3. ptr + 2 \in Nat /\ ptr + 2 <= Nul
      BY <1>1, <1>t
    <3> QED BY <1>4, <2>2, <3>1, <3>2, <3>3
  <2> QED BY <2>1, <2>2
<1>7. \A i \in ptr..f - 1 : ~Parted(i) /\ (Copied(i) <=> i = ptr + 1)
  <2> SUFFICES ASSUME NEW i \in ptr..f - 1 PROVE ~Parted(i) /\ (Copied(i) <=> i = ptr + 1)
    OBVIOUS
  <2>1. CASE i = ptr
    <3>1. i # ptr + 1
      BY <1>t, <2>1
    <3> QED BY <1>5, <2>1, <3>1
  <2>2. CASE i = ptr + 1
    BY <1>5, <2>2
  <2>3. CASE i # ptr /\ i # ptr + 1
    <3>1. i \in ptr + 2..f - 1
      BY <1>6, <1>t, <2>3
    <3> QED BY <1>6, <2>3, <3>1
  <2> QED BY <2>1, <2>2, <2>3
<1>8. PtrOK'
  <2>1. /\ Nul' = Nul
        /\ \A i : IsSpace(i)' = IsSpace(i) /\ Escaped(i)' = Escaped(i)
    BY <1>1, LineStays
  <2>2. ptr' # Nul' => ~Escaped(ptr)'
    BY <1>1, <1>6, <2>1 DEF Escaped
  <2>3. ASSUME NEW j \in 1..f - 1, Escaped(j), cmdexec[j] # Backslash
        PROVE  \E k \in j + 1..f : ~IsSpace(k)
    <3>1. CASE cmdexec[ptr + 1] # Backslash
      <4>1. f \in j + 1..f
        BY <1>6
      <4> QED BY <1>6, <3>1, <4>1
    <3>2. CASE cmdexec[ptr + 1] = Backslash
      <4>1. j # ptr /\ j # ptr + 1 /\ f = ptr + 2
        BY <1>3, <1>6, <2>3, <3>2
      <4>2. j \in 1..ptr - 1
        BY <1>t, <4>1
      <4>3. PICK k \in j + 1..ptr : ~IsSpace(k)
        BY <1>0, <1>1, <2>3, <4>2 DEF PtrOK
      <4>4. k \in j + 1..f
        BY <1>t, <4>1
      <4> QED BY <4>3, <4>4
    <3> QED BY <3>1, <3>2
  <2>4. ASSUME NEW j \in 1..ptr' - 1, Escaped(j)', cmdexec'[j] # Backslash
        PROVE  \E k \in j + 1..ptr' : ~IsSpace(k)'
    BY <1>1, <1>6, <2>1, <2>3, <2>4
  <2> QED BY <1>1, <2>2, <2>4 DEF PtrOK
<1>9. ptr <= ptr + 1 /\ ptr + 1 < f
  BY <1>6, <1>t
<1> QED BY <1>1, <1>2, <1>6, <1>7, <1>8, <1>9, InnerWords

\* A word ends: what was copied is its argument, and the pointer is at the space
\* that parts it from the next word, or behind the line.
LEMMA EndWordWords == ASSUME WordInv, EndWord PROVE PtrOK' /\ BeginsAreStarts' /\ ArgsSpelt'
<1>0. FitInv /\ PtrOK /\ BeginsAreStarts /\ ArgsSpelt
  BY DEF WordInv
<1>t. /\ Len(cmdexec) \in Nat /\ Nul = Len(cmdexec) + 1 /\ cmdexec \in Seq(Chars)
      /\ ptr \in Nat /\ 1 <= ptr /\ ptr <= Nul /\ ptr \in 1..Nul
      /\ begins \in SUBSET Nat /\ IsFiniteSet(begins) /\ PartedStarts \subseteq 1..Len(cmdexec)
      /\ cur_arg \in Seq(Chars) /\ cmd_args \in Seq(Seq(Chars))
  BY <1>0, SplitTypes
<1>1. /\ at = "inner" /\ at' = "outer"
      /\ ptr = Nul \/ IsSpace(ptr) \/ (ptr = Len(cmdexec) /\ cmdexec[ptr] = Backslash)
      /\ ptr' = Behind
      /\ cmd_args' = Append(cmd_args, cur_arg) /\ cur_arg' = <<>>
      /\ UNCHANGED <<cmdexec, begins>>
  BY DEF EndWord
<1>2. /\ Nul' = Nul /\ PartedStarts' = PartedStarts
      /\ \A i : Escaped(i)' = Escaped(i) /\ Parted(i)' = Parted(i)
  BY <1>1, LineStays
<1>3. \/ IsSpace(ptr) /\ ptr # Nul /\ ptr' = ptr
      \/ ptr = Nul /\ ptr' = Nul
      \/ ptr = Len(cmdexec) /\ cmdexec[ptr] = Backslash /\ ptr # Nul /\ ~IsSpace(ptr) /\ ptr' = Nul
  BY <1>1, <1>t DEF Behind, IsSpace
<1>4. IsSpace(ptr) /\ ptr # Nul => Parted(ptr) /\ ptr \notin PartedStarts
  <2> SUFFICES ASSUME IsSpace(ptr), ptr # Nul PROVE Parted(ptr) /\ ptr \notin PartedStarts
    OBVIOUS
  <2>1. ~Escaped(ptr)
    BY <1>0 DEF PtrOK
  <2>2. ASSUME NEW j \in 1..ptr - 1, Escaped(j), cmdexec[j] # Backslash
        PROVE  \E k \in j + 1..ptr - 1 : ~IsSpace(k)
    <3>1. PICK k \in j + 1..ptr : ~IsSpace(k)
      BY <1>0, <1>1, <2>2 DEF PtrOK
    <3>2. k \in j + 1..ptr - 1
      BY <1>t, <3>1
    <3> QED BY <3>1, <3>2
  <2> QED BY <2>1, <2>2 DEF Parted, PartedStarts, InWord
<1>5. PtrOK'
  <2>1. ptr' # Nul' => ~Escaped(ptr)'
    BY <1>0, <1>1, <1>2, <1>3 DEF PtrOK, Escaped
  <2>2. ptr' = 1 \/ ptr' = Nul' \/ Parted(ptr)'
    <3>1. CASE IsSpace(ptr) /\ ptr # Nul
      <4>1. ptr' = ptr /\ Parted(ptr)
        BY <1>3, <1>4, <1>t, <3>1
      <4>2. \A i : IsSpace(i)' = IsSpace(i) /\ Escaped(i)' = Escaped(i)
        BY <1>1, LineStays
      <4> QED BY <1>1, <4>1, <4>2 DEF Parted, IsSpace, Escaped, Nul
    <3>2. CASE ~(IsSpace(ptr) /\ ptr # Nul)
      BY <1>2, <1>3, <3>2
    <3> QED BY <3>1, <3>2
  <2> QED BY <1>1, <2>1, <2>2 DEF PtrOK
<1>6. ASSUME NEW i \in PartedStarts PROVE i < ptr \/ i = ptr <=> i < ptr'
  <2>1. i \in Nat /\ i <= Len(cmdexec)
    BY <1>t
  <2> QED BY <1>3, <1>4, <1>t, <2>1
<1>7. BeginsAreStarts'
  <2>1. begins' = {i \in PartedStarts : i < ptr \/ i = ptr}
    BY <1>0, <1>1 DEF BeginsAreStarts
  <2>2. begins' = {i \in PartedStarts : i < ptr'}
    BY <1>6, <2>1
  <2> QED BY <1>1, <1>2, <2>2 DEF BeginsAreStarts
<1>8. /\ Len(cmd_args) \in Nat /\ Cardinality(begins) = Len(cmd_args) + 1
      /\ cmd_args'[Len(cmd_args) + 1] = cur_arg
      /\ \A k \in 1..Len(cmd_args) : cmd_args'[k] = cmd_args[k]
  <2>1. cmd_args \in Seq(Seq(Chars)) /\ Cardinality(begins) = Len(cmd_args) + 1
    BY <1>0, <1>1, SplitTypes
  <2> QED BY <1>1, <1>t, <2>1, AppendProperties
<1>9. ASSUME NEW s \in begins', NEW e \in 1..Nul, IsEnd(s, e)' PROVE Spells(ArgOf(s)', s, e)
  <2>1. s \in begins /\ s \in Nat /\ Latest(s)' = Latest(s) /\ Rank(s)' = Rank(s)
    BY <1>1, <1>t DEF Latest, Rank
  <2>2. ArgOf(s)' = cmd_args'[Rank(s)]
    BY <1>1, <2>1 DEF ArgOf
  <2>3. CASE Latest(s)
    <3>1. {i \in begins : i <= s} = begins
      BY <2>3 DEF Latest
    <3>2. ArgOf(s)' = cur_arg
      BY <1>8, <2>2, <3>1 DEF Rank
    <3>3. Spells(cur_arg, s, ptr)
      BY <1>0, <1>1, <1>t, <2>1, <2>3 DEF IsEnd, ArgOf, ArgsSpelt
    <3>4. e = ptr'
      BY <1>9, <2>1, <2>3 DEF IsEnd
    <3>5. CopiedIn(s, e) = CopiedIn(s, ptr)
      <4>1. CASE ptr' = ptr
        BY <3>4, <4>1
      <4>2. CASE ptr' # ptr
        <5>1. ptr = Len(cmdexec) /\ cmdexec[ptr] = Backslash /\ ptr # Nul /\ e = ptr + 1
          BY <1>3, <1>t, <3>4, <4>2
        <5>2. ~Copied(ptr)
          BY <1>0, <5>1 DEF PtrOK, Copied
        <5>3. \A i : i \in s..e - 1 /\ Copied(i) <=> i \in s..ptr - 1 /\ Copied(i)
          <6> SUFFICES ASSUME NEW i, Copied(i) PROVE i \in s..e - 1 <=> i \in s..ptr - 1
            OBVIOUS
          <6>1. i # ptr
            BY <5>2
          <6> QED BY <1>t, <2>1, <5>1, <6>1
        <5> QED BY <5>3 DEF CopiedIn
      <4> QED BY <4>1, <4>2
    <3> QED BY <3>2, <3>3, <3>5 DEF Spells
  <2>4. CASE ~Latest(s)
    <3>1. PICK j \in begins : ~(j <= s)
      BY <2>4 DEF Latest
    <3>2. s < j
      BY <1>t, <2>1, <3>1
    <3>3. Rank(s) \in 1..Cardinality(begins) /\ Rank(s) < Cardinality(begins)
      BY <1>t, <2>1, <3>2, RankIn DEF Rank
    <3>4. Rank(s) \in 1..Len(cmd_args)
      BY <1>8, <3>3
    <3>5. ArgOf(s)' = ArgOf(s)
      BY <1>8, <2>2, <2>4, <3>4 DEF ArgOf
    <3>6. IsEnd(s, e)
      BY <1>1, <1>9, <2>1, <2>4 DEF IsEnd
    <3> QED BY <1>0, <2>1, <3>5, <3>6 DEF ArgsSpelt
  <2> QED BY <2>3, <2>4
<1>10. ArgsSpelt'
  BY <1>1, <1>9, SpeltNext
<1> QED BY <1>5, <1>7, <1>10

\* Every step of the second pass keeps the words.
LEMMA NextWords == WordInv /\ [SplitNext]_splitVars => WordInv'
<1> SUFFICES ASSUME WordInv, [SplitNext]_splitVars PROVE WordInv'
  OBVIOUS
<1>1. FitInv'
  BY NextFits DEF WordInv
<1>2. CASE UNCHANGED splitVars
  <2>1. /\ UNCHANGED <<cmdexec, at, ptr, cur_arg, cmd_args, begins>>
        /\ PtrOK /\ BeginsAreStarts /\ ArgsSpelt
    BY <1>2 DEF splitVars, WordInv
  <2>2. PtrOK'
    BY <2>1 DEF PtrOK, Nul, IsSpace, Escaped, Parted
  <2>3. PartedStarts' = PartedStarts /\ \A i : Parted(i)' = Parted(i)
    BY <2>1, LineStays
  <2>4. BeginsAreStarts'
    BY <2>1, <2>3 DEF BeginsAreStarts
  <2>5. \A s : ArgOf(s)' = ArgOf(s) /\ \A e : IsEnd(s, e)' = IsEnd(s, e)
    BY <2>1 DEF ArgOf, Rank, Latest, IsEnd
  <2>6. ArgsSpelt'
    <3>1. \A s \in begins' : \A e \in 1..Nul : IsEnd(s, e)' => Spells(ArgOf(s)', s, e)
      BY <2>1, <2>5 DEF ArgsSpelt
    <3> QED BY <2>1, <3>1, SpeltNext
  <2> QED BY <1>1, <2>2, <2>4, <2>6 DEF WordInv
<1> QED
  BY <1>1, <1>2, NextWordWords, CopyWords, EscapeWords, EndWordWords DEF SplitNext, WordInv

\* Where no spaces are passed over, the loops part the words that the note above
\* cmdline_split parts.
LEMMA PartedAsPromised ==
    ASSUME FitInv, NoneSwallowed
    PROVE  PartedStarts = WordStarts
<1>1. Len(cmdexec) \in Nat
  BY LineType DEF FitInv
<1>2. ASSUME NEW i \in 1..Len(cmdexec) PROVE Parted(i) <=> Parts(i)
  <2>1. Parted(i) => Parts(i)
    BY DEF Parted, Parts
  <2>2. ASSUME Parts(i), NEW j \in 1..i - 1, Escaped(j), cmdexec[j] # Backslash
        PROVE  \E k \in j + 1..i - 1 : ~IsSpace(k)
    <3>1. j \in 1..Len(cmdexec) /\ j \in Int /\ i \in Int
      BY <1>1
    <3>2. ~IsSpace(j + 1)
      BY <2>2, <3>1 DEF NoneSwallowed
    <3>3. j + 1 # i
      BY <2>2, <3>2 DEF Parts
    <3>4. j + 1 \in j + 1..i - 1
      BY <3>1, <3>3
    <3> QED BY <3>2, <3>4
  <2>3. Parts(i) => Parted(i)
    BY <2>2 DEF Parted, Parts
  <2> QED BY <2>1, <2>3
<1>3. ASSUME NEW i \in 1..Len(cmdexec), NEW j \in 1..i - 1
      PROVE  (\E k \in j + 1..i - 1 : Parted(k)) <=> (\E k \in j + 1..i - 1 : Parts(k))
  <2>1. \A k \in j + 1..i - 1 : k \in 1..Len(cmdexec)
    BY <1>1
  <2> QED BY <1>2, <2>1
<1> QED BY <1>3 DEF PartedStarts, WordStarts

\* For every line where no space comes right after an escaped character other
\* than a backslash: when cmdline_split is done (unix.c 140-182) the arguments are
\* the words of the line in their order, each with the characters that it is made
\* of, none lost to an escape.
THEOREM ArgumentsAreWords == SplitSpec => []ArgsAreWords
<1>1. WordInv => ArgsAreWords
  <2> SUFFICES ASSUME WordInv, at = "done", NoneSwallowed PROVE ArgsAreWords
    BY DEF ArgsAreWords
  <2>0. FitInv /\ PtrOK /\ BeginsAreStarts /\ ArgsSpelt
    BY DEF WordInv
  <2>t. /\ Len(cmdexec) \in Nat /\ Nul = Len(cmdexec) + 1
        /\ PartedStarts \subseteq 1..Len(cmdexec) /\ Cardinality(begins) = Len(cmd_args) + 0
        /\ cmd_args \in Seq(Seq(Chars))
    BY <2>0, SplitTypes
  <2>1. ptr = Nul
    BY <2>0 DEF PtrOK
  <2>2. begins = PartedStarts
    <3>1. begins = {i \in PartedStarts : i < ptr}
      BY <2>0 DEF BeginsAreStarts
    <3>2. \A i \in PartedStarts : i < ptr
      BY <2>1, <2>t
    <3> QED BY <3>1, <3>2
  <2>3. Len(cmd_args) = Cardinality(PartedStarts)
    BY <2>2, <2>t
  <2>4. ASSUME NEW s \in PartedStarts
        PROVE  LET nth    == Cardinality({i \in PartedStarts : i <= s})
                   rest   == {i \in PartedStarts : i > s}
                   end    == IF rest = {} THEN Len(cmdexec)
                             ELSE CHOOSE i \in rest : \A j \in rest : i <= j
                   copied == {i \in s..end : Copied(i) /\ (i < end \/ rest = {})}
               IN  /\ Len(cmd_args[nth]) = Cardinality(copied)
                   /\ \A i \in copied :
                        cmd_args[nth][Cardinality({j \in copied : j <= i})] = cmdexec[i]
    <3> DEFINE nth    == Cardinality({i \in PartedStarts : i <= s})
               rest   == {i \in PartedStarts : i > s}
               end    == IF rest = {} THEN Len(cmdexec)
                         ELSE CHOOSE i \in rest : \A j \in rest : i <= j
               copied == {i \in s..end : Copied(i) /\ (i < end \/ rest = {})}
    <3>1. s \in Nat /\ s <= Len(cmdexec) /\ s \in begins
      BY <2>2, <2>t
    <3>2. ArgOf(s) = cmd_args[nth]
      BY <2>2 DEF ArgOf, Rank
    <3>3. \E e \in 1..Nul : IsEnd(s, e) /\ copied = CopiedIn(s, e)
      <4>1. CASE rest = {}
        <5>1. Latest(s)
          <6> SUFFICES ASSUME NEW i \in begins PROVE i <= s
            BY DEF Latest
          <6>1. i \in Nat /\ i \in PartedStarts
            BY <2>2, <2>t
          <6>2. ~(i > s)
            BY <4>1, <6>1
          <6> HIDE DEF end, copied, rest
          <6> QED BY <3>1, <6>1, <6>2
        <5>2. IsEnd(s, Nul)
          BY <2>1, <5>1 DEF IsEnd
        <5>3. end = Nul - 1
          BY <2>t, <4>1
        <5>4. copied = CopiedIn(s, Nul)
          BY <4>1, <5>3 DEF CopiedIn
        <5>5. Nul \in 1..Nul
          BY <2>t
        <5> QED BY <5>2, <5>4, <5>5
      <4>2. CASE rest # {}
        <5>a. \A i \in PartedStarts : i \in Nat /\ i \in 1..Nul
          BY <2>t
        <5>1. rest \in SUBSET Nat
          BY <5>a
        <5>2. \E i \in rest : \A j \in rest : i <= j
          BY <4>2, <5>1, LeastIs
        <5>3. end \in rest /\ \A j \in rest : end <= j
          BY <4>2, <5>2
        <5>4. end \in begins /\ s < end /\ end \in 1..Nul /\ end \in Nat
          <6>1. end \in PartedStarts /\ end > s
            BY <5>3
          <6> HIDE DEF end
          <6> QED BY <2>2, <3>1, <5>a, <6>1
        <5>5. ~Latest(s)
          BY <3>1, <5>4 DEF Latest
        <5>6. IsEnd(s, end)
          BY <2>2, <5>3, <5>4, <5>5 DEF IsEnd
        <5>7. \A i \in s..end : i < end <=> i \in s..end - 1
          BY <3>1, <5>4
        <5>8. \A i \in s..end - 1 : i \in s..end
          BY <3>1, <5>4
        <5>9. copied = CopiedIn(s, end)
          <6> HIDE DEF end, rest
          <6> QED BY <4>2, <5>7, <5>8 DEF CopiedIn
        <5> QED BY <5>4, <5>6, <5>9
      <4> QED BY <4>1, <4>2
    <3> HIDE DEF copied, nth
    <3>4. /\ Len(cmd_args[nth]) = Cardinality(copied)
          /\ \A i \in copied : cmd_args[nth][Cardinality({j \in copied : j <= i})] = cmdexec[i]
      BY <2>0, <3>1, <3>2, <3>3 DEF ArgsSpelt, Spells
    <3> QED BY <3>4 DEF copied, nth
  <2>5. PartedStarts = WordStarts
    BY <2>0, PartedAsPromised
  <2> DEFINE Spelt(W) ==
                 /\ Len(cmd_args) = Cardinality(W)
                 /\ \A s \in W :
                      LET nth    == Cardinality({i \in W : i <= s})
                          rest   == {i \in W : i > s}
                          end    == IF rest = {} THEN Len(cmdexec)
                                    ELSE CHOOSE i \in rest : \A j \in rest : i <= j
                          copied == {i \in s..end : Copied(i) /\ (i < end \/ rest = {})}
                      IN  /\ Len(cmd_args[nth]) = Cardinality(copied)
                          /\ \A i \in copied :
                               cmd_args[nth][Cardinality({j \in copied : j <= i})] = cmdexec[i]
  <2>6. Spelt(PartedStarts)
    BY <2>3, <2>4
  <2>7. Spelt(WordStarts)
    <3> HIDE DEF Spelt
    <3> QED BY <2>5, <2>6
  <2> QED BY <2>7 DEF ArgsAreWords
<1> QED BY <1>1, InitWords, NextWords, PTL DEF SplitSpec
=============================================================================
