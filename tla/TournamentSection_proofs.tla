---------------------- MODULE TournamentSection_proofs ----------------------
(***************************************************************************)
(* What is proved of a section: that its rounds are sound and its pairing  *)
(* numbers stay, with any number of players and of requests that           *)
(* interleave and die, and that the tables of the engine that pairs it are *)
(* complete for any number of players.                                     *)
(*                                                                         *)
(* First come the tables, then the state of the section.  The points of    *)
(* the standings are folds over the boards and left to TLC.                *)
(***************************************************************************)
EXTENDS TournamentSection, FiniteSetTheorems, SequenceTheorems, TLAPS

-----------------------------------------------------------------------------
(* The Berger tables. *)

\* The remainder of what is less than one turn from 0..m-1.
LEMMA Around ==
  ASSUME NEW m \in Nat \ {0}, NEW x \in (-m)..(2 * m - 1)
  PROVE  x % m = IF x < 0 THEN x + m ELSE IF x >= m THEN x - m ELSE x
<1>1. CASE x < 0
  <2>. DEFINE y == x + m
  <2>1. y \in 0..(m - 1) /\ x = y - m
    BY <1>1
  <2>2. (y - m) % m = y
    BY <2>1, Z3
  <2>. QED
    BY <1>1, <2>1, <2>2
<1>2. CASE x >= m
  <2>. DEFINE y == x - m
  <2>1. y \in 0..(m - 1) /\ x = y + m
    BY <1>2
  <2>2. (y + m) % m = y
    BY <2>1, Z3
  <2>. QED
    BY <1>2, <2>1, <2>2
<1>3. CASE x \in 0..(m - 1)
  BY <1>3
<1>. QED
  BY <1>1, <1>2, <1>3

\* So once around the circle is enough.
LEMMA WrapOK ==
  ASSUME NEW m \in Nat \ {0}, NEW v \in (1 - m)..(2 * m)
  PROVE  WrapSeat(v, m) = IF v < 1 THEN v + m ELSE IF v > m THEN v - m ELSE v
<1>. DEFINE x == v - 1
<1>1. x \in (-m)..(2 * m - 1)
  OBVIOUS
<1>2. x % m = IF x < 0 THEN x + m ELSE IF x >= m THEN x - m ELSE x
  BY <1>1, Around
<1>. QED
  BY <1>2 DEF WrapSeat

LEMMA TableSizeEven ==
  ASSUME NEW n \in Nat
  PROVE  \E h \in Nat : TableSize(n) = 2 * h /\ n \in {2 * h, 2 * h - 1}
<1>1. n = 2 * (n \div 2) + (n % 2) /\ n % 2 \in {0, 1} /\ n \div 2 \in Nat
  OBVIOUS
<1>2. CASE n % 2 = 0
  <2>. WITNESS n \div 2 \in Nat
  <2>. QED
    BY <1>1, <1>2 DEF TableSize
<1>3. CASE n % 2 = 1
  <2>. WITNESS n \div 2 + 1 \in Nat
  <2>. QED
    BY <1>1, <1>3 DEF TableSize
<1>. QED
  BY <1>1, <1>2, <1>3

LEMMA LeaderOK ==
  ASSUME NEW h \in Nat \ {0}, NEW round \in Nat \ {0}
  PROVE  /\ Leader(2 * h, round) \in 1..(2 * h - 1)
         /\ (2 * h) \div 2 = h
<1>1. (2 * h) \div 2 = h
  OBVIOUS
<1>. DEFINE x == (round - 1) * h
<1>2. x \in Int
  OBVIOUS
<1>3. x % (2 * h - 1) \in 0..(2 * h - 2)
  BY <1>2
<1>. QED
  BY <1>1, <1>3 DEF Leader

\* Two tables that share no seat.
Disjoint(a, b) == {a[1], a[2]} \cap {b[1], b[2]} = {}

\* No seat is at two tables of a round, or twice at one.
LEMMA BergerOK ==
  ASSUME NEW h \in Nat \ {0}, NEW round \in Nat \ {0}
  PROVE  LET B == BergerRound(2 * h, round) IN
         /\ DOMAIN B = 1..h
         /\ \A t \in 1..h : B[t] \in (1..(2 * h)) \X (1..(2 * h)) /\ B[t][1] # B[t][2]
         /\ \A t, u \in 1..h : t # u => Disjoint(B[t], B[u])
<1>. DEFINE B == BergerRound(2 * h, round)
            m == 2 * h - 1
            leader == Leader(2 * h, round)
<1>1. leader \in 1..m /\ m \in Nat \ {0} /\ (2 * h) \div 2 = h
  BY LeaderOK
<1>2. DOMAIN B = 1..h
  BY <1>1 DEF BergerRound
<1>3. B[1] = <<leader, 2 * h>> \/ B[1] = <<2 * h, leader>>
  BY <1>1 DEF BergerRound, FirstTable
<1>4. ASSUME NEW t \in 2..h
      PROVE  /\ B[t] = <<WrapSeat(leader + (t - 1), m), WrapSeat(leader - (t - 1), m)>>
  BY <1>1 DEF BergerRound
<1>. DEFINE Up(t) == IF leader + (t - 1) > m THEN leader + (t - 1) - m ELSE leader + (t - 1)
            Down(t) == IF leader - (t - 1) < 1 THEN leader - (t - 1) + m ELSE leader - (t - 1)
<1>5. ASSUME NEW t \in 2..h
      PROVE  B[t] = <<Up(t), Down(t)>>
  <2>1. leader + (t - 1) \in (1 - m)..(2 * m) /\ leader - (t - 1) \in (1 - m)..(2 * m)
    BY <1>1
  <2>2. /\ WrapSeat(leader + (t - 1), m) = Up(t)
        /\ WrapSeat(leader - (t - 1), m) = Down(t)
    BY <1>1, <2>1, WrapOK
  <2>. QED
    BY <1>4, <2>2
<1>6. ASSUME NEW t \in 2..h
      PROVE  /\ Up(t) \in 1..m /\ Down(t) \in 1..m
             /\ Up(t) # Down(t) /\ Up(t) # leader /\ Down(t) # leader
  BY <1>1
<1>7. ASSUME NEW t \in 2..h, NEW u \in 2..h, t # u
      PROVE  Up(t) # Up(u) /\ Up(t) # Down(u) /\ Down(t) # Down(u)
  BY <1>1, <1>7
<1>. HIDE DEF Up, Down, B, leader, m
<1>8. ASSUME NEW t \in 1..h
      PROVE  B[t] \in (1..(2 * h)) \X (1..(2 * h)) /\ B[t][1] # B[t][2]
  <2>1. 2 * h \in 1..(2 * h) /\ 2 * h \notin 1..m /\ \A x \in 1..m : x \in 1..(2 * h)
    BY DEF m
  <2>2. CASE t = 1
    BY <2>1, <2>2, <1>1, <1>3
  <2>3. CASE t \in 2..h
    BY <2>1, <2>3, <1>5, <1>6
  <2>. QED
    BY <2>2, <2>3
<1>9. ASSUME NEW t \in 1..h, NEW u \in 1..h, t # u
      PROVE  Disjoint(B[t], B[u])
  <2>1. ASSUME NEW v \in 2..h PROVE Disjoint(B[1], B[v]) /\ Disjoint(B[v], B[1])
    BY <1>1, <1>3, <1>5, <1>6 DEF Disjoint, m
  <2>2. CASE t \in 2..h /\ u \in 2..h
    BY <2>2, <1>5, <1>7, <1>9 DEF Disjoint
  <2>. QED
    BY <2>1, <2>2, <1>9
<1>. QED
  BY <1>2, <1>8, <1>9 DEF B

\* The places in a finite set of numbers are 1, 2, 3, ..., and rise with the numbers.
LEMMA PlaceOK ==
  ASSUME NEW S \in SUBSET Int, IsFiniteSet(S)
  PROVE  /\ \A m \in S : Place(S, m) \in 1..Cardinality(S)
         /\ \A m, k \in S : m < k => Place(S, m) < Place(S, k)
         /\ \A i \in 1..Cardinality(S) : \E m \in S : Place(S, m) = i
<1>. DEFINE Upto(m) == {k \in S : k <= m}
<1>0. \A m \in S : m \in Int
  OBVIOUS
<1>1. Cardinality(S) \in Nat
  BY FS_CardinalityType
<1>2. ASSUME NEW m \in S
      PROVE  IsFiniteSet(Upto(m)) /\ Place(S, m) = Cardinality(Upto(m)) /\ Place(S, m) \in 1..Cardinality(S)
  <2>1. Upto(m) \in SUBSET S /\ m \in Upto(m)
    OBVIOUS
  <2>2. IsFiniteSet(Upto(m)) /\ Cardinality(Upto(m)) <= Cardinality(S)
    BY <2>1, FS_Subset
  <2>3. Cardinality(Upto(m)) \in Nat /\ Cardinality(Upto(m)) # 0
    BY <2>1, <2>2, FS_CardinalityType, FS_EmptySet
  <2>. QED
    BY <1>1, <2>2, <2>3 DEF Place
<1>3. ASSUME NEW m \in S, NEW k \in S, m < k
      PROVE  Place(S, m) < Place(S, k)
  <2>0. m \in Int /\ k \in Int
    BY <1>0
  <2>1. Upto(m) \in SUBSET Upto(k) /\ k \in Upto(k) /\ k \notin Upto(m)
    <3>1. ASSUME NEW n \in S, n <= m PROVE n <= k
      BY <1>0, <1>3, <2>0, <3>1
    <3>2. k <= k /\ ~(k <= m)
      BY <1>3, <2>0
    <3>. QED
      BY <3>1, <3>2
  <2>2. Cardinality(Upto(m)) <= Cardinality(Upto(k)) /\ Cardinality(Upto(k)) # Cardinality(Upto(m))
    BY <2>1, <1>2, FS_Subset
  <2>. HIDE DEF Upto
  <2>. QED
    BY <1>1, <1>2, <2>2
<1>. HIDE DEF Upto
<1>4. \A m \in S : Place(S, m) \in 1..Cardinality(S)
  BY <1>2
<1>5. \A i \in 1..Cardinality(S) : \E m \in S : Place(S, m) = i
  <2>. DEFINE T == 1..Cardinality(S)
              f == [m \in S |-> Place(S, m)]
  <2>1. f \in Injection(S, T)
    <3>1. f \in [S -> T]
      BY <1>2
    <3>2. \A m, k \in S : f[m] = f[k] => m = k
      <4>. SUFFICES ASSUME NEW m \in S, NEW k \in S, Place(S, m) = Place(S, k)
                    PROVE  m = k
        OBVIOUS
      <4>0. Place(S, m) \in Int /\ Place(S, k) \in Int
        BY <1>1, <1>4
      <4>1. (m < k => Place(S, m) < Place(S, k)) /\ (k < m => Place(S, k) < Place(S, m))
        BY <1>3
      <4>. QED
        BY <1>0, <4>0, <4>1
    <3>. QED
      BY <3>1, <3>2 DEF Injection, IsInjective
  <2>2. IsFiniteSet(T) /\ Cardinality(T) = Cardinality(S)
    BY <1>1, FS_Interval
  <2>3. f \in Surjection(S, T)
    BY <2>1, <2>2, FS_Injection
  <2>. QED
    BY <2>3 DEF Surjection
<1>. QED
  BY <1>3, <1>4, <1>5

LEMMA AscendingOK ==
  ASSUME NEW S \in SUBSET Int, IsFiniteSet(S)
  PROVE  /\ Cardinality(S) \in Nat
         /\ Ascending(S) \in [1..Cardinality(S) -> S]
         /\ \A i, j \in 1..Cardinality(S) : Ascending(S)[i] = Ascending(S)[j] => i = j
<1>1. Cardinality(S) \in Nat
  BY FS_CardinalityType
<1>2. ASSUME NEW i \in 1..Cardinality(S)
      PROVE  Ascending(S)[i] \in S /\ Place(S, Ascending(S)[i]) = i
  BY PlaceOK DEF Ascending
<1>3. DOMAIN Ascending(S) = 1..Cardinality(S) /\ Ascending(S) = [i \in 1..Cardinality(S) |-> Ascending(S)[i]]
  BY DEF Ascending
<1>. QED
  BY <1>1, <1>2, <1>3

\* So are the tables of both legs ...
LEMMA ScheduleOK ==
  ASSUME NEW n \in Nat, n >= 2, NEW round \in Nat \ {0}
  PROVE  \E h \in Nat \ {0} :
           LET S == ScheduledRound(n, round) IN
           /\ DOMAIN S = 1..h
           /\ n <= 2 * h
           /\ \A t \in 1..h : S[t] \in (1..(2 * h)) \X (1..(2 * h)) /\ S[t][1] # S[t][2]
           /\ \A t, u \in 1..h : t # u => Disjoint(S[t], S[u])
<1>1. PICK h \in Nat : TableSize(n) = 2 * h /\ n \in {2 * h, 2 * h - 1}
  BY TableSizeEven
<1>2. h \in Nat \ {0} /\ n <= 2 * h /\ RoundsPerLeg(n) \in Nat \ {0}
  BY <1>1 DEF RoundsPerLeg
<1>. DEFINE leg == ((round - 1) % RoundsPerLeg(n)) + 1
            B == BergerRound(2 * h, leg)
            S == ScheduledRound(n, round)
<1>3. leg \in Nat \ {0}
  BY <1>2
<1>. HIDE DEF leg
<1>4. /\ DOMAIN B = 1..h
      /\ \A t \in 1..h : B[t] \in (1..(2 * h)) \X (1..(2 * h)) /\ B[t][1] # B[t][2]
      /\ \A t, u \in 1..h : t # u => Disjoint(B[t], B[u])
  BY <1>2, <1>3, BergerOK
<1>5. S = IF round > RoundsPerLeg(n) THEN [t \in DOMAIN B |-> Turned(B[t])] ELSE B
  BY <1>1 DEF ScheduledRound, leg
<1>. HIDE DEF B, S
<1>6. DOMAIN S = 1..h /\ \A t \in 1..h : S[t] = B[t] \/ S[t] = <<B[t][2], B[t][1]>>
  BY <1>4, <1>5 DEF Turned
<1>7. \A t \in 1..h : S[t] \in (1..(2 * h)) \X (1..(2 * h)) /\ S[t][1] # S[t][2]
  BY <1>4, <1>6
<1>8. \A t, u \in 1..h : t # u => Disjoint(S[t], S[u])
  BY <1>4, <1>6 DEF Disjoint
<1>9. WITNESS h \in Nat \ {0}
<1>. QED
  BY <1>2, <1>6, <1>7, <1>8 DEF S

\* ... and the round the engine makes of them when some of the seats are empty.
LEMMA EngineOK ==
  ASSUME NEW n \in Nat, n >= 2, NEW round \in Nat \ {0}, NEW active \in SUBSET (1..n)
  PROVE  LET games == Games(n, round, active)
             byes  == Byes(n, round, active)
         IN
         /\ games \in Seq(active \X active) /\ byes \in Seq(active)
         /\ \A i \in DOMAIN games : games[i][1] # games[i][2]
         /\ \A i, j \in DOMAIN games : i # j => Disjoint(games[i], games[j])
         /\ \A i, j \in DOMAIN byes : i # j => byes[i] # byes[j]
         /\ \A i \in DOMAIN games, j \in DOMAIN byes : byes[j] \notin {games[i][1], games[i][2]}
<1>. DEFINE S == ScheduledRound(n, round)
            T == {t \in DOMAIN S : {S[t][1], S[t][2]} \subseteq active}
            U == {t \in DOMAIN S : (S[t][1] \in active) # (S[t][2] \in active)}
            games == Games(n, round, active)
            byes == Byes(n, round, active)
<1>1. PICK h \in Nat \ {0} :
        /\ DOMAIN S = 1..h
        /\ n <= 2 * h
        /\ \A t \in 1..h : S[t] \in (1..(2 * h)) \X (1..(2 * h)) /\ S[t][1] # S[t][2]
        /\ \A t, u \in 1..h : t # u => Disjoint(S[t], S[u])
  BY ScheduleOK
<1>2. /\ T \in SUBSET Int /\ IsFiniteSet(T) /\ U \in SUBSET Int /\ IsFiniteSet(U)
      /\ T \subseteq DOMAIN S /\ U \subseteq DOMAIN S /\ T \cap U = {}
  <2>1. IsFiniteSet(1..h)
    BY FS_Interval
  <2>2. T \in SUBSET (1..h) /\ U \in SUBSET (1..h) /\ T \cap U = {}
    BY <1>1
  <2>3. IsFiniteSet(T) /\ IsFiniteSet(U)
    BY <2>1, <2>2, FS_Subset
  <2>. QED
    BY <1>1, <2>2, <2>3
<1>3. /\ games = [i \in DOMAIN Ascending(T) |-> S[Ascending(T)[i]]]
      /\ byes = [i \in DOMAIN Ascending(U) |->
                    CHOOSE seat \in active : seat \in {S[Ascending(U)[i]][1], S[Ascending(U)[i]][2]}]
  BY DEF Games, Byes
<1>4. ASSUME NEW t \in T PROVE S[t] \in active \X active /\ S[t][1] # S[t][2]
  BY <1>1
<1>5. ASSUME NEW t \in U PROVE \E seat \in active : seat \in {S[t][1], S[t][2]}
  BY <1>1
<1>6. \A t, u \in T \cup U : t # u => Disjoint(S[t], S[u])
  BY <1>1, <1>2
<1>. HIDE DEF T, U, S, games, byes
<1>7. /\ Cardinality(T) \in Nat /\ Ascending(T) \in [1..Cardinality(T) -> T]
      /\ \A i, j \in 1..Cardinality(T) : Ascending(T)[i] = Ascending(T)[j] => i = j
  BY <1>2, AscendingOK
<1>8. /\ Cardinality(U) \in Nat /\ Ascending(U) \in [1..Cardinality(U) -> U]
      /\ \A i, j \in 1..Cardinality(U) : Ascending(U)[i] = Ascending(U)[j] => i = j
  BY <1>2, AscendingOK
<1>9. /\ DOMAIN games = 1..Cardinality(T)
      /\ \A i \in DOMAIN games : \E t \in T : t = Ascending(T)[i] /\ games[i] = S[t]
  BY <1>3, <1>7
<1>10. /\ DOMAIN byes = 1..Cardinality(U)
       /\ \A i \in DOMAIN byes : \E t \in U :
            t = Ascending(U)[i] /\ byes[i] \in active /\ byes[i] \in {S[t][1], S[t][2]}
  <2>1. DOMAIN byes = 1..Cardinality(U)
    BY <1>3, <1>8
  <2>2. ASSUME NEW i \in DOMAIN byes
        PROVE  \E t \in U : t = Ascending(U)[i] /\ byes[i] \in active /\ byes[i] \in {S[t][1], S[t][2]}
    <3>. DEFINE t == Ascending(U)[i]
    <3>1. t \in U
      BY <1>8, <2>1
    <3>2. byes[i] = CHOOSE seat \in active : seat \in {S[t][1], S[t][2]}
      BY <1>3
    <3>. HIDE DEF t
    <3>3. byes[i] \in active /\ byes[i] \in {S[t][1], S[t][2]}
      BY <1>5, <3>1, <3>2
    <3>. QED
      BY <3>1, <3>3 DEF t
  <2>. QED
    BY <2>1, <2>2
<1>11. games \in Seq(active \X active) /\ \A i \in DOMAIN games : games[i][1] # games[i][2]
  <2>1. games = [i \in 1..Cardinality(T) |-> games[i]]
    BY <1>3, <1>7
  <2>2. \A i \in 1..Cardinality(T) : games[i] \in active \X active /\ games[i][1] # games[i][2]
    BY <1>4, <1>9
  <2>. QED
    BY <1>7, <1>9, <2>1, <2>2
<1>12. byes \in Seq(active)
  <2>1. byes = [i \in 1..Cardinality(U) |-> byes[i]]
    BY <1>3, <1>8
  <2>2. \A i \in 1..Cardinality(U) : byes[i] \in active
    BY <1>10
  <2>. QED
    BY <1>8, <2>1, <2>2
<1>13. \A i, j \in DOMAIN games : i # j => Disjoint(games[i], games[j])
  BY <1>6, <1>7, <1>9
<1>14. ASSUME NEW i \in DOMAIN byes, NEW j \in DOMAIN byes, i # j
       PROVE  byes[i] # byes[j]
  <2>1. PICK t \in U : t = Ascending(U)[i] /\ byes[i] \in {S[t][1], S[t][2]}
    BY <1>10
  <2>2. PICK u \in U : u = Ascending(U)[j] /\ byes[j] \in {S[u][1], S[u][2]}
    BY <1>10
  <2>3. Disjoint(S[t], S[u])
    BY <1>6, <1>8, <1>10, <1>14, <2>1, <2>2
  <2>. QED
    BY <2>1, <2>2, <2>3 DEF Disjoint
<1>15. ASSUME NEW i \in DOMAIN games, NEW j \in DOMAIN byes
       PROVE  byes[j] \notin {games[i][1], games[i][2]}
  <2>1. PICK t \in T : games[i] = S[t]
    BY <1>9
  <2>2. PICK u \in U : byes[j] \in {S[u][1], S[u][2]}
    BY <1>10
  <2>3. Disjoint(S[t], S[u])
    BY <1>2, <1>6
  <2>. QED
    BY <2>1, <2>2, <2>3 DEF Disjoint
<1>. QED
  BY <1>11, <1>12, <1>13, <1>14, <1>15 DEF games, byes
\* Any number of turns around the circle.
LEMMA ModOf ==
  ASSUME NEW m \in Nat \ {0}, NEW k \in Nat, NEW c \in 0..(m - 1)
  PROVE  (k * m + c) % m = c
<1>. DEFINE x == k * m + c
            q == x \div m
            s == x % m
<1>1. x \in Nat
  OBVIOUS
<1>2. x = q * m + s /\ s \in 0..(m - 1) /\ q \in Nat
  BY <1>1
<1>. HIDE DEF q, s
<1>3. (k - q) * m = s - c
  BY <1>2
<1>4. s - c < m /\ c - s < m
  BY <1>2
<1>5. k - q >= 1 => (k - q) * m >= m
  BY <1>2
<1>6. q - k >= 1 => (q - k) * m >= m
  BY <1>2
<1>7. (q - k) * m = c - s
  BY <1>2
<1>8. k = q
  BY <1>2, <1>3, <1>4, <1>5, <1>6, <1>7
<1>. QED
  BY <1>2, <1>8 DEF s

\* Twice the seat that meets the fixed one is the round's number and one, around
\* the circle.
LEMMA LeaderIs ==
  ASSUME NEW h \in Nat \ {0}, NEW round \in 1..(2 * h - 1)
  PROVE  /\ Leader(2 * h, round) \in 1..(2 * h - 1)
         /\ 2 * Leader(2 * h, round) \in {round + 1, round + 2 * h}
<1>. DEFINE m == 2 * h - 1
<1>0. m \in Nat \ {0} /\ (2 * h) \div 2 = h
  OBVIOUS
<1>1. PICK k \in Nat : round = 2 * k + 1 \/ round = 2 * k + 2
  <2>1. round - 1 = 2 * ((round - 1) \div 2) + ((round - 1) % 2)
        /\ (round - 1) % 2 \in {0, 1} /\ (round - 1) \div 2 \in Nat
    OBVIOUS
  <2>. QED
    BY <2>1
<1>2. CASE round = 2 * k + 1
  <2>1. (round - 1) * h = k * m + k /\ k \in 0..(m - 1)
    BY <1>2
  <2>2. ((round - 1) * h) % m = k
    BY <1>0, <2>1, ModOf
  <2>3. Leader(2 * h, round) = k + 1
    BY <1>0, <2>2 DEF Leader
  <2>. QED
    BY <1>2, <2>1, <2>3
<1>3. CASE round = 2 * k + 2
  <2>1. (round - 1) * h = k * m + (k + h) /\ k + h \in 0..(m - 1)
    BY <1>3
  <2>2. ((round - 1) * h) % m = k + h
    BY <1>0, <2>1, ModOf
  <2>3. Leader(2 * h, round) = k + h + 1
    BY <1>0, <2>2 DEF Leader
  <2>. QED
    BY <1>3, <2>1, <2>3
<1>. QED
  BY <1>1, <1>2, <1>3

\* The round in which two seats meet, and whether a's is the white one.
Meet(h, round, a, b) == \E t \in 1..h : BergerRound(2 * h, round)[t] = <<a, b>>

\* The tables of a round, without remainders.
LEMMA TablesAre ==
  ASSUME NEW h \in Nat \ {0}, NEW round \in 1..(2 * h - 1)
  PROVE  LET m == 2 * h - 1
             L == Leader(2 * h, round)
             B == BergerRound(2 * h, round)
         IN
         /\ B[1] \in {<<L, 2 * h>>, <<2 * h, L>>}
         /\ \A t \in 2..h :
              B[t] = <<IF L + (t - 1) > m THEN L + (t - 1) - m ELSE L + (t - 1),
                       IF L - (t - 1) < 1 THEN L - (t - 1) + m ELSE L - (t - 1)>>
<1>. DEFINE m == 2 * h - 1
            L == Leader(2 * h, round)
            B == BergerRound(2 * h, round)
<1>1. L \in 1..m /\ m \in Nat \ {0} /\ (2 * h) \div 2 = h
  BY LeaderOK
<1>2. B[1] \in {<<L, 2 * h>>, <<2 * h, L>>}
  BY <1>1 DEF BergerRound, FirstTable
<1>3. ASSUME NEW t \in 2..h
      PROVE  B[t] = <<IF L + (t - 1) > m THEN L + (t - 1) - m ELSE L + (t - 1),
                      IF L - (t - 1) < 1 THEN L - (t - 1) + m ELSE L - (t - 1)>>
  <2>1. B[t] = <<WrapSeat(L + (t - 1), m), WrapSeat(L - (t - 1), m)>>
    BY <1>1 DEF BergerRound
  <2>2. L + (t - 1) \in (1 - m)..(2 * m) /\ L - (t - 1) \in (1 - m)..(2 * m)
    BY <1>1
  <2>3. /\ WrapSeat(L + (t - 1), m) = IF L + (t - 1) > m THEN L + (t - 1) - m ELSE L + (t - 1)
        /\ WrapSeat(L - (t - 1), m) = IF L - (t - 1) < 1 THEN L - (t - 1) + m ELSE L - (t - 1)
    BY <1>1, <2>2, WrapOK
  <2>. QED
    BY <2>1, <2>3
<1>. QED
  BY <1>2, <1>3

\* Two seats meet in the one round whose number is their sum and one less, around
\* the circle.
LEMMA MeetOnce ==
  ASSUME NEW h \in Nat \ {0}, NEW a \in 1..(2 * h), NEW b \in 1..(2 * h), a # b
  PROVE  \E round \in 1..(2 * h - 1) :
           /\ Meet(h, round, a, b) <=> ~Meet(h, round, b, a)
           /\ \A r \in 1..(2 * h - 1) : Meet(h, r, a, b) \/ Meet(h, r, b, a) => r = round
<1>. DEFINE m == 2 * h - 1
            Sum(x, y) == IF x = 2 * h THEN 2 * y ELSE IF y = 2 * h THEN 2 * x ELSE x + y
            s == Sum(a, b)
            round == IF s - 1 <= m THEN s - 1 ELSE s - 1 - m
            At(r, t) == \/ BergerRound(2 * h, r)[t] = <<a, b>>
                        \/ BergerRound(2 * h, r)[t] = <<b, a>>
<1>1. round \in 1..m
  OBVIOUS
\* Around the circle the seats of a table have the same sum.
<1>2. ASSUME NEW r \in 1..m, NEW t \in 1..h, At(r, t) PROVE r = round
  <2>. DEFINE L == Leader(2 * h, r)
  <2>1. L \in 1..m /\ 2 * L \in {r + 1, r + 2 * h}
    BY LeaderIs
  <2>2. CASE t = 1
    <3>1. BergerRound(2 * h, r)[1] \in {<<L, 2 * h>>, <<2 * h, L>>}
      BY TablesAre
    <3>. HIDE DEF L
    <3>2. (a = L /\ b = 2 * h) \/ (a = 2 * h /\ b = L)
      BY <1>2, <2>2, <3>1
    <3>3. s = 2 * L
      BY <2>1, <3>2
    <3>. QED
      BY <2>1, <3>3
  <2>3. CASE t \in 2..h
    <3>. DEFINE u == IF L + (t - 1) > m THEN L + (t - 1) - m ELSE L + (t - 1)
                d == IF L - (t - 1) < 1 THEN L - (t - 1) + m ELSE L - (t - 1)
    <3>1. BergerRound(2 * h, r)[t] = <<u, d>>
      BY <2>3, TablesAre
    <3>2. u \in 1..m /\ d \in 1..m /\ u + d \in {2 * L, 2 * L - m, 2 * L + m}
      BY <2>1, <2>3
    <3>3. u + d \in 2..(2 * m)
      BY <3>2
    <3>. HIDE DEF L, u, d
    <3>4. (a = u /\ b = d) \/ (a = d /\ b = u)
      BY <1>2, <3>1
    <3>5. s = u + d
      BY <3>2, <3>4
    <3>. QED
      BY <2>1, <3>2, <3>4, <3>5
  <2>. QED
    BY <2>2, <2>3
<1>3. \E t \in 1..h : At(round, t)
  <2>. DEFINE L == Leader(2 * h, round)
  <2>1. L \in 1..m /\ 2 * L \in {round + 1, round + 2 * h}
    BY <1>1, LeaderIs
  <2>2. /\ BergerRound(2 * h, round)[1] \in {<<L, 2 * h>>, <<2 * h, L>>}
        /\ \A t \in 2..h :
             BergerRound(2 * h, round)[t] =
               <<IF L + (t - 1) > m THEN L + (t - 1) - m ELSE L + (t - 1),
                 IF L - (t - 1) < 1 THEN L - (t - 1) + m ELSE L - (t - 1)>>
    BY <1>1, TablesAre
  <2>. HIDE DEF L
  <2>3. CASE a = 2 * h \/ b = 2 * h
    <3>1. a = 2 * h => b = L
      BY <2>1
    <3>2. b = 2 * h => a = L
      BY <2>1
    <3>3. At(round, 1)
      BY <2>2, <2>3, <3>1, <3>2
    <3>. QED
      BY <3>3
  <2>4. CASE a # 2 * h /\ b # 2 * h
    <3>. DEFINE e == IF a >= L THEN a - L ELSE a - L + m
                t == IF e < h THEN e + 1 ELSE m - e + 1
    <3>0. s = a + b /\ a \in 1..m /\ b \in 1..m
      BY <2>4
    <3>1. a + b \in {2 * L, 2 * L - m, 2 * L + m}
      BY <1>1, <2>1, <3>0
    <3>2. a # L
      BY <2>1, <3>0, <3>1
    <3>3. t \in 2..h
      BY <2>1, <3>0, <3>2
    <3>4. IF e < h
          THEN /\ a = IF L + (t - 1) > m THEN L + (t - 1) - m ELSE L + (t - 1)
               /\ b = IF L - (t - 1) < 1 THEN L - (t - 1) + m ELSE L - (t - 1)
          ELSE /\ b = IF L + (t - 1) > m THEN L + (t - 1) - m ELSE L + (t - 1)
               /\ a = IF L - (t - 1) < 1 THEN L - (t - 1) + m ELSE L - (t - 1)
      BY <2>1, <3>0, <3>1, <3>2, <3>3
    <3>5. At(round, t)
      BY <2>2, <3>3, <3>4
    <3>. QED
      BY <3>3, <3>5
  <2>. QED
    BY <2>3, <2>4
<1>. HIDE DEF round
<1>4. Meet(h, round, a, b) \/ Meet(h, round, b, a)
  BY <1>3 DEF Meet
<1>5. ~(Meet(h, round, a, b) /\ Meet(h, round, b, a))
  <2>. SUFFICES ASSUME NEW t \in 1..h, NEW u \in 1..h, BergerRound(2 * h, round)[t] = <<a, b>>,
                       BergerRound(2 * h, round)[u] = <<b, a>>
                PROVE  FALSE
    BY DEF Meet
  <2>1. t # u
    OBVIOUS
  <2>2. Disjoint(BergerRound(2 * h, round)[t], BergerRound(2 * h, round)[u])
    <3>1. round \in Nat \ {0}
      BY <1>1
    <3>2. \A v, w \in 1..h : v # w => Disjoint(BergerRound(2 * h, round)[v], BergerRound(2 * h, round)[w])
      BY <3>1, BergerOK
    <3>. QED
      BY <2>1, <3>2
  <2>3. Disjoint(<<a, b>>, <<b, a>>)
    BY <2>2
  <2>. QED
    BY <2>3 DEF Disjoint
<1>6. \A r \in 1..m : Meet(h, r, a, b) \/ Meet(h, r, b, a) => r = round
  BY <1>2 DEF Meet
<1>. QED
  BY <1>1, <1>4, <1>5, <1>6

\* The rounds of both legs.
LEMMA ScheduledIs ==
  ASSUME NEW h \in Nat \ {0}, NEW n \in {2 * h, 2 * h - 1}, TableSize(n) = 2 * h,
         NEW round \in 1..(2 * (2 * h - 1))
  PROVE  IF round <= 2 * h - 1
         THEN ScheduledRound(n, round) = BergerRound(2 * h, round)
         ELSE ScheduledRound(n, round) =
                [t \in 1..h |-> Turned(BergerRound(2 * h, round - (2 * h - 1))[t])]
<1>. DEFINE m == 2 * h - 1
<1>1. m \in Nat \ {0} /\ RoundsPerLeg(n) = m
  BY DEF RoundsPerLeg
<1>2. (round - 1) % m = IF round <= m THEN round - 1 ELSE round - 1 - m
  <2>. DEFINE x == round - 1
  <2>1. x \in (-m)..(2 * m - 1) /\ x >= 0
    BY <1>1
  <2>2. x % m = IF x < 0 THEN x + m ELSE IF x >= m THEN x - m ELSE x
    BY <1>1, <2>1, Around
  <2>. QED
    BY <1>1, <2>1, <2>2
<1>3. CASE round <= m
  <2>1. ((round - 1) % RoundsPerLeg(n)) + 1 = round /\ ~(round > RoundsPerLeg(n))
    BY <1>1, <1>2, <1>3
  <2>. QED
    BY <1>3, <2>1 DEF ScheduledRound
<1>4. CASE round > m
  <2>. DEFINE r == round - m
  <2>1. ((round - 1) % RoundsPerLeg(n)) + 1 = r /\ round > RoundsPerLeg(n) /\ r \in Nat \ {0}
    BY <1>1, <1>2, <1>4
  <2>2. DOMAIN BergerRound(2 * h, r) = 1..h
    BY <2>1, BergerOK
  <2>. HIDE DEF r
  <2>3. ScheduledRound(n, round) = [t \in 1..h |-> Turned(BergerRound(2 * h, r)[t])]
    BY <2>1, <2>2 DEF ScheduledRound
  <2>. QED
    BY <1>1, <1>4, <2>3 DEF r
<1>. QED
  BY <1>1, <1>3, <1>4

\* However many players there are, in one leg every two of them meet exactly once,
\* and in two legs once with each colour (generateBergerTables, pair).
THEOREM TablesAreComplete == \A n \in Nat : n >= 2 => EveryPairMeets(n)
<1>. SUFFICES ASSUME NEW n \in Nat, n >= 2, NEW a \in 1..n, NEW b \in 1..n, a # b
              PROVE  /\ Cardinality(Meetings(n, 1, a, b) \cup Meetings(n, 1, b, a)) = 1
                     /\ Cardinality(Meetings(n, 2, a, b)) = 1
  BY DEF EveryPairMeets
<1>1. PICK h \in Nat : TableSize(n) = 2 * h /\ n \in {2 * h, 2 * h - 1}
  BY TableSizeEven
<1>. DEFINE m == 2 * h - 1
<1>2. /\ h \in Nat \ {0} /\ a \in 1..(2 * h) /\ b \in 1..(2 * h)
      /\ RoundsPerLeg(n) = m /\ TableSize(n) \div 2 = h
  BY <1>1 DEF RoundsPerLeg
<1>3. PICK round \in 1..m :
        /\ Meet(h, round, a, b) <=> ~Meet(h, round, b, a)
        /\ \A r \in 1..m : Meet(h, r, a, b) \/ Meet(h, r, b, a) => r = round
  BY <1>2, MeetOnce
<1>4. \A r \in 1..(2 * m) :
        IF r <= m THEN ScheduledRound(n, r) = BergerRound(2 * h, r)
        ELSE ScheduledRound(n, r) = [t \in 1..h |-> Turned(BergerRound(2 * h, r - m)[t])]
  BY <1>1, <1>2, ScheduledIs
<1>5. ASSUME NEW c \in 1..n, NEW d \in 1..n
      PROVE  /\ Meetings(n, 1, c, d) = {r \in 1..m : Meet(h, r, c, d)}
             /\ Meetings(n, 2, c, d) = {r \in 1..(2 * m) :
                                           IF r <= m THEN Meet(h, r, c, d) ELSE Meet(h, r - m, d, c)}
  <2>1. ASSUME NEW r \in 1..m
        PROVE  (\E t \in 1..h : ScheduledRound(n, r)[t] = <<c, d>>) <=> Meet(h, r, c, d)
    <3>1. r \in 1..(2 * m) /\ r <= m
      BY <1>2
    <3>. QED
      BY <1>4, <3>1 DEF Meet
  <2>2. ASSUME NEW r \in (m + 1)..(2 * m)
        PROVE  (\E t \in 1..h : ScheduledRound(n, r)[t] = <<c, d>>) <=> Meet(h, r - m, d, c)
    <3>1. r \in 1..(2 * m) /\ ~(r <= m) /\ r - m \in Nat \ {0}
      BY <1>2
    <3>2. \A t \in 1..h : ScheduledRound(n, r)[t] = Turned(BergerRound(2 * h, r - m)[t])
      BY <1>4, <3>1
    <3>3. \A t \in 1..h : BergerRound(2 * h, r - m)[t] \in (1..(2 * h)) \X (1..(2 * h))
      BY <1>2, <3>1, BergerOK
    <3>4. ASSUME NEW t \in 1..h
          PROVE  ScheduledRound(n, r)[t] = <<c, d>> <=> BergerRound(2 * h, r - m)[t] = <<d, c>>
      <4>. DEFINE x == BergerRound(2 * h, r - m)[t]
      <4>1. x \in (1..(2 * h)) \X (1..(2 * h)) /\ ScheduledRound(n, r)[t] = <<x[2], x[1]>>
        BY <3>2, <3>3 DEF Turned
      <4>. HIDE DEF x
      <4>2. <<x[2], x[1]>> = <<c, d>> <=> x = <<d, c>>
        BY <4>1
      <4>. QED
        BY <4>1, <4>2 DEF x
    <3>. QED
      BY <3>4 DEF Meet
  <2>3. 1 * RoundsPerLeg(n) = m /\ 2 * RoundsPerLeg(n) = 2 * m
    BY <1>2
  <2>4. Meetings(n, 1, c, d) = {r \in 1..m : Meet(h, r, c, d)}
    BY <1>2, <2>1, <2>3 DEF Meetings
  <2>5. Meetings(n, 2, c, d) = {r \in 1..(2 * m) :
                                   IF r <= m THEN Meet(h, r, c, d) ELSE Meet(h, r - m, d, c)}
    <3>1. ASSUME NEW r \in 1..(2 * m)
          PROVE  (\E t \in 1..h : ScheduledRound(n, r)[t] = <<c, d>>)
                   <=> IF r <= m THEN Meet(h, r, c, d) ELSE Meet(h, r - m, d, c)
      <4>1. CASE r <= m
        <5>1. r \in 1..m
          BY <4>1
        <5>2. (\E t \in 1..h : ScheduledRound(n, r)[t] = <<c, d>>) <=> Meet(h, r, c, d)
          BY <2>1, <5>1
        <5>. QED
          BY <4>1, <5>2
      <4>2. CASE r > m
        <5>1. r \in (m + 1)..(2 * m) /\ ~(r <= m)
          BY <1>2, <4>2
        <5>2. (\E t \in 1..h : ScheduledRound(n, r)[t] = <<c, d>>) <=> Meet(h, r - m, d, c)
          BY <2>2, <5>1
        <5>. QED
          BY <5>1, <5>2
      <4>. QED
        BY <1>2, <4>1, <4>2
    <3>. QED
      BY <1>2, <2>3, <3>1 DEF Meetings
  <2>. QED
    BY <2>4, <2>5
<1>6. Meetings(n, 1, a, b) \cup Meetings(n, 1, b, a) = {round}
  <2>1. \A r \in 1..m : (Meet(h, r, a, b) \/ Meet(h, r, b, a)) <=> r = round
    BY <1>3
  <2>2. Meetings(n, 1, a, b) \cup Meetings(n, 1, b, a)
          = {r \in 1..m : Meet(h, r, a, b) \/ Meet(h, r, b, a)}
    BY <1>5
  <2>. QED
    BY <2>1, <2>2
<1>7. \E r \in Nat : Meetings(n, 2, a, b) = {r}
  <2>1. CASE Meet(h, round, a, b)
    <3>1. Meetings(n, 2, a, b) = {round}
      <4>. SUFFICES \A r \in 1..(2 * m) :
                      (IF r <= m THEN Meet(h, r, a, b) ELSE Meet(h, r - m, b, a)) <=> r = round
        <5>1. round \in 1..(2 * m)
          BY <1>2
        <5>. QED
          BY <1>5, <5>1
      <4>. TAKE r \in 1..(2 * m)
      <4>1. CASE r <= m
        BY <1>3, <2>1, <4>1
      <4>2. CASE r > m
        <5>1. r - m \in 1..m /\ r # round /\ ~(r <= m)
          BY <1>2, <4>2
        <5>2. ~Meet(h, r - m, b, a)
          BY <1>3, <2>1, <5>1
        <5>. QED
          BY <5>1, <5>2
      <4>. QED
        BY <1>2, <4>1, <4>2
    <3>. QED
      BY <3>1
  <2>2. CASE ~Meet(h, round, a, b)
    <3>1. Meetings(n, 2, a, b) = {round + m}
      <4>. SUFFICES \A r \in 1..(2 * m) :
                      (IF r <= m THEN Meet(h, r, a, b) ELSE Meet(h, r - m, b, a)) <=> r = round + m
        <5>. DEFINE q == round + m
        <5>1. q \in 1..(2 * m)
          BY <1>2
        <5>. HIDE DEF q
        <5>2. (\A r \in 1..(2 * m) :
                 (IF r <= m THEN Meet(h, r, a, b) ELSE Meet(h, r - m, b, a)) <=> r = q)
              => Meetings(n, 2, a, b) = {q}
          BY <1>5, <5>1
        <5>. QED
          BY <5>2 DEF q
      <4>. TAKE r \in 1..(2 * m)
      <4>0. Meet(h, round, b, a)
        BY <1>3, <2>2 DEF Meet
      <4>1. CASE r <= m
        BY <1>2, <1>3, <2>2, <4>1
      <4>2. CASE r > m
        <5>1. r - m \in 1..m /\ (r = round + m <=> r - m = round)
          BY <1>2, <4>2
        <5>. QED
          BY <1>2, <1>3, <4>0, <4>2, <5>1
      <4>. QED
        BY <1>2, <4>1, <4>2
    <3>. QED
      BY <1>2, <3>1
  <2>. QED
    BY <2>1, <2>2
<1>. QED
  BY <1>6, <1>7, FS_Singleton

-----------------------------------------------------------------------------
(* The invariant. *)

LocOK(l) ==
  l \in [player : Players \cup {Nobody}, to : DOMAIN Successors, round : Nat, board : Nat,
         result : Results, reason : BOOLEAN, seen : Results, open : BOOLEAN, who : SUBSET Players,
         boards : Seq(Board), scores : {l.scores}]

\* Everything but the points of the standings, which folds over the boards count.
TablesOK ==
  /\ tstatus \in DOMAIN Successors
  /\ DOMAIN regs \subseteq Players
  /\ regs \in [DOMAIN regs -> [confirmed : BOOLEAN, withdrawn : BOOLEAN, number : Nat]]
  /\ rounds \in Seq(Round)
  /\ Len(rounds) <= MaxRounds
  /\ announced \in [1..MaxRounds -> Nat]
  /\ RoundsAreSound

Settled(i) == i \in DOMAIN rounds /\ AllPlayed(i)
Done(i) == i \in DOMAIN rounds /\ rounds[i].status = "COMPLETED"

\* What a request has read and relies on when it goes on.
OpeningOK(l) == l.round \in 1..MaxRounds /\ \A i \in 1..(l.round - 1) : Done(i)
ResultOK(l) ==
  /\ l.round \in DOMAIN rounds
  /\ l.board \in DOMAIN rounds[l.round].boards
  /\ l.result # "UNPLAYED"

RequestOK(r) ==
  /\ pc[r] \in {"count", "register", "withdraw"} => loc[r].player \in Players
  /\ pc[r] \in {"active", "unnumbered", "numbers", "seats", "create"} => OpeningOK(loc[r])
  /\ pc[r] = "numbers" => loc[r].who \subseteq DOMAIN regs
  /\ pc[r] = "create" => OnceEach(loc[r].boards)
  /\ pc[r] \in {"check", "before", "enter"} => ResultOK(loc[r])
  /\ pc[r] = "close" /\ loc[r].open => Settled(loc[r].round)
  /\ pc[r] = "complete" => Settled(loc[r].round)

RequestsOK ==
  /\ pc \in [Requests -> Labels]
  /\ loc = [r \in Requests |-> loc[r]]
  /\ \A r \in Requests : LocOK(loc[r]) /\ RequestOK(r)

IInv == TablesOK /\ RequestsOK

\* The pairing numbers are 1, 2, 3, ..., each one player's.
NumbersOK ==
  /\ \A p, q \in Numbered : regs[p].number = regs[q].number => p = q
  /\ \A p \in Numbered : \A i \in 1..regs[p].number : \E q \in Numbered : regs[q].number = i

\* What no step takes back: a registration, a round, its boards, that they all have
\* a result, that it is completed.
Lasting ==
  /\ DOMAIN regs \subseteq DOMAIN regs'
  /\ \A i \in DOMAIN rounds :
       /\ i \in DOMAIN rounds'
       /\ DOMAIN rounds'[i].boards = DOMAIN rounds[i].boards
       /\ AllPlayed(i) => AllPlayed(i)'
       /\ rounds[i].status = "COMPLETED" => rounds'[i].status = "COMPLETED"

LEMMA ResultsAre ==
  /\ Results = {"WHITE_WIN", "BLACK_WIN", "DRAW", "WHITE_WIN_FORFEIT", "BLACK_WIN_FORFEIT",
                "DOUBLE_FORFEIT", "BYE_FULL", "BYE_HALF", "BYE_ZERO", "UNPLAYED"}
  /\ \A result \in GameResults \cup ByeResults : result \in Results /\ result # "UNPLAYED"
  /\ DOMAIN Successors = {"DRAFT", "REGISTRATION_OPEN", "REGISTRATION_CLOSED", "IN_PROGRESS",
                          "COMPLETED", "CANCELLED"}
<1>1. Results = {"WHITE_WIN", "BLACK_WIN", "DRAW", "WHITE_WIN_FORFEIT", "BLACK_WIN_FORFEIT",
                 "DOUBLE_FORFEIT", "BYE_FULL", "BYE_HALF", "BYE_ZERO", "UNPLAYED"}
  BY DEF Results, WhiteScore
<1>2. \A result \in GameResults \cup ByeResults : result \in Results /\ result # "UNPLAYED"
  BY <1>1, SectionResults DEF AllGameResults, AllByeResults, Results
<1>. QED
  BY <1>1, <1>2 DEF Successors

LEMMA BlankOK == LocOK(Blank) /\ Blank.round = 0 /\ Blank.who = {} /\ Blank.boards = <<>>
<1>1. <<>> \in Seq(Board) /\ {} \in SUBSET Players
  OBVIOUS
<1>2. /\ "UNPLAYED" \in Results /\ "DRAFT" \in DOMAIN Successors
      /\ Nobody \in Players \cup {Nobody}
  BY ResultsAre
<1>. QED
  BY <1>1, <1>2 DEF LocOK, Blank

\* A request moves on while the others stay where they are.
LEMMA OneMoves ==
  ASSUME IInv, NEW r \in Requests, TablesOK', Lasting,
         pc' = [pc EXCEPT ![r] = pc'[r]], loc' = [loc EXCEPT ![r] = loc'[r]],
         pc'[r] \in Labels, LocOK(loc[r])', RequestOK(r)'
  PROVE  IInv'
<1>1. pc' \in [Requests -> Labels] /\ loc' = [q \in Requests |-> loc'[q]]
  BY DEF IInv, RequestsOK
<1>2. ASSUME NEW q \in Requests, q # r
      PROVE  LocOK(loc[q])' /\ RequestOK(q)'
  <2>1. pc'[q] = pc[q] /\ loc'[q] = loc[q] /\ LocOK(loc[q]) /\ RequestOK(q)
    BY <1>2 DEF IInv, RequestsOK
  <2>2. LocOK(loc[q])'
    BY <2>1 DEF LocOK
  <2>3. OpeningOK(loc[q]) => OpeningOK(loc[q])'
    BY <2>1 DEF OpeningOK, Done, Lasting
  <2>4. ResultOK(loc[q]) => ResultOK(loc[q])'
    BY <2>1 DEF ResultOK, Lasting
  <2>5. Settled(loc[q].round) => Settled(loc[q].round)'
    BY <2>1 DEF Settled, Lasting
  <2>6. loc[q].who \subseteq DOMAIN regs => loc'[q].who \subseteq DOMAIN regs'
    BY <2>1 DEF Lasting
  <2>7. OnceEach(loc[q].boards) => OnceEach(loc[q].boards)'
    BY <2>1 DEF OnceEach
  <2>. QED
    BY <2>1, <2>2, <2>3, <2>4, <2>5, <2>6, <2>7 DEF RequestOK
<1>. QED
  BY <1>1, <1>2 DEF IInv, RequestsOK

\* ... and the tables with them.
LEMMA LocalStep ==
  ASSUME IInv, NEW r \in Requests, UNCHANGED tables,
         pc' = [pc EXCEPT ![r] = pc'[r]], loc' = [loc EXCEPT ![r] = loc'[r]],
         pc'[r] \in Labels, LocOK(loc[r])', RequestOK(r)'
  PROVE  IInv'
<1>1. TablesOK'
  BY DEF IInv, TablesOK, tables, RoundsAreSound, RoundsInOrder, AllPlayed, OnceEach
<1>2. Lasting
  BY DEF Lasting, tables, AllPlayed
<1>. QED
  BY <1>1, <1>2, OneMoves

LEMMA GotoIs ==
  ASSUME IInv, NEW r \in Requests, NEW label, NEW l, Goto(r, label, l)
  PROVE  /\ pc' = [pc EXCEPT ![r] = pc'[r]] /\ loc' = [loc EXCEPT ![r] = loc'[r]]
         /\ pc'[r] = label /\ loc'[r] = l
BY DEF Goto, IInv, RequestsOK

\* A request that has replied relies on nothing.
LEMMA ReplyOK ==
  ASSUME IInv, NEW r \in Requests, Reply(r)
  PROVE  /\ pc' = [pc EXCEPT ![r] = pc'[r]] /\ loc' = [loc EXCEPT ![r] = loc'[r]]
         /\ pc'[r] \in Labels /\ LocOK(loc[r])' /\ RequestOK(r)'
<1>1. /\ pc' = [pc EXCEPT ![r] = pc'[r]] /\ loc' = [loc EXCEPT ![r] = loc'[r]]
      /\ pc'[r] = "idle" /\ loc'[r] = Blank
  BY DEF Reply, Goto, IInv, RequestsOK
<1>2. LocOK(loc[r])'
  BY <1>1, BlankOK DEF LocOK
<1>. QED
  BY <1>1, <1>2 DEF RequestOK, Labels

\* So does one that is to compute the standings.
LEMMA ParticipantsOK ==
  ASSUME IInv, NEW r \in Requests, Goto(r, "participants", Blank)
  PROVE  /\ pc' = [pc EXCEPT ![r] = pc'[r]] /\ loc' = [loc EXCEPT ![r] = loc'[r]]
         /\ pc'[r] \in Labels /\ LocOK(loc[r])' /\ RequestOK(r)'
<1>1. /\ pc' = [pc EXCEPT ![r] = pc'[r]] /\ loc' = [loc EXCEPT ![r] = loc'[r]]
      /\ pc'[r] = "participants" /\ loc'[r] = Blank
  BY DEF Goto, IInv, RequestsOK
<1>2. LocOK(loc[r])'
  BY <1>1, BlankOK DEF LocOK
<1>. QED
  BY <1>1, <1>2 DEF RequestOK, Labels

LEMMA InitOK == Init => IInv /\ NumbersOK
<1>. SUFFICES ASSUME Init PROVE IInv /\ NumbersOK
  OBVIOUS
<1>1. DOMAIN regs = {} /\ DOMAIN rounds = {} /\ Len(rounds) = 0
  BY DEF Init
<1>2. TablesOK
  <2>1. tstatus \in DOMAIN Successors
    BY ResultsAre DEF Init
  <2>2. regs \in [DOMAIN regs -> [confirmed : BOOLEAN, withdrawn : BOOLEAN, number : Nat]]
    BY <1>1 DEF Init
  <2>3. announced \in [1..MaxRounds -> Nat] /\ rounds \in Seq(Round)
    BY DEF Init
  <2>4. 0 <= MaxRounds
    BY SectionBounds
  <2>. QED
    BY <1>1, <2>1, <2>2, <2>3, <2>4 DEF TablesOK, RoundsAreSound, RoundsInOrder
<1>3. RequestsOK
  BY BlankOK DEF Init, RequestsOK, RequestOK, Labels
<1>4. NumbersOK
  BY <1>1 DEF NumbersOK, Numbered
<1>. QED
  BY <1>2, <1>3, <1>4 DEF IInv

LEMMA Parts ==
  ASSUME IInv, NEW r \in Requests
  PROVE  TablesOK /\ LocOK(loc[r]) /\ RequestOK(r)
BY DEF IInv, RequestsOK

LEMMA RegistrationOK ==
  ASSUME IInv, NEW r \in Requests, CountRegistrations(r) \/ BeginRegister(r) \/ BeginWithdraw(r)
  PROVE  IInv'
<1>1. CASE BeginRegister(r)
  <2>1. PICK p \in Players : Goto(r, "count", [Blank EXCEPT !.player = p]) /\ UNCHANGED tables
    BY <1>1 DEF BeginRegister, Begin, Local
  <2>2. LocOK([Blank EXCEPT !.player = p])
    BY BlankOK DEF LocOK
  <2>3. LocOK(loc[r])' /\ pc'[r] \in Labels /\ RequestOK(r)'
    BY <2>1, <2>2, GotoIs DEF LocOK, Labels, RequestOK, Blank
  <2>. QED
    BY <2>1, <2>3, GotoIs, LocalStep
<1>2. CASE CountRegistrations(r)
  <2>1. CASE Reply(r)
    BY <1>2, <2>1, ReplyOK, LocalStep DEF CountRegistrations, Local
  <2>2. CASE Goto(r, "register", loc[r])
    <3>1. LocOK(loc[r])' /\ pc'[r] \in Labels /\ RequestOK(r)'
      BY <1>2, <2>2, GotoIs, Parts DEF LocOK, Labels, RequestOK, CountRegistrations
    <3>. QED
      BY <1>2, <2>2, <3>1, GotoIs, LocalStep DEF CountRegistrations, Local
  <2>. QED
    BY <1>2, <2>1, <2>2 DEF CountRegistrations
<1>3. CASE BeginWithdraw(r)
  <2>1. PICK p \in DOMAIN regs : Goto(r, "withdraw", [Blank EXCEPT !.player = p]) /\ UNCHANGED tables
    BY <1>3 DEF BeginWithdraw, Begin, Local
  <2>0. p \in Players
    BY <2>1, Parts DEF TablesOK
  <2>2. LocOK([Blank EXCEPT !.player = p])
    BY <2>0, BlankOK DEF LocOK
  <2>3. LocOK(loc[r])' /\ pc'[r] \in Labels /\ RequestOK(r)'
    BY <2>0, <2>1, <2>2, GotoIs DEF LocOK, Labels, RequestOK, Blank
  <2>. QED
    BY <2>1, <2>3, GotoIs, LocalStep
<1>. QED
  BY <1>1, <1>2, <1>3

\* A step that writes registrations and replies.
LEMMA RegsStep ==
  ASSUME IInv, NEW r \in Requests, UNCHANGED <<tstatus, rounds, announced>>,
         DOMAIN regs \subseteq DOMAIN regs', DOMAIN regs' \subseteq Players,
         regs' \in [DOMAIN regs' -> [confirmed : BOOLEAN, withdrawn : BOOLEAN, number : Nat]]
  PROVE  TablesOK' /\ Lasting
<1>1. TablesOK'
  BY DEF IInv, TablesOK, RoundsAreSound, RoundsInOrder, AllPlayed, OnceEach
<1>. QED
  BY <1>1 DEF Lasting, AllPlayed

LEMMA RegisterOK ==
  ASSUME IInv, NEW r \in Requests, Register(r)
  PROVE  IInv'
<1>. DEFINE p == loc[r].player
<1>1. p \in Players
  BY Parts DEF Register, RequestOK
<1>2. /\ DOMAIN regs \subseteq DOMAIN regs' /\ DOMAIN regs' \subseteq Players
      /\ regs' \in [DOMAIN regs' -> [confirmed : BOOLEAN, withdrawn : BOOLEAN, number : Nat]]
  <2>0. /\ DOMAIN regs \subseteq Players
        /\ regs \in [DOMAIN regs -> [confirmed : BOOLEAN, withdrawn : BOOLEAN, number : Nat]]
    BY DEF IInv, TablesOK
  <2>1. CASE p \in DOMAIN regs
    BY <2>0, <2>1 DEF Register
  <2>2. CASE p \notin DOMAIN regs
    <3>1. [confirmed |-> ~HasFee, withdrawn |-> FALSE, number |-> 0]
            \in [confirmed : BOOLEAN, withdrawn : BOOLEAN, number : Nat]
      BY SectionFee
    <3>2. regs' = [q \in DOMAIN regs \cup {p} |->
                     IF q = p THEN [confirmed |-> ~HasFee, withdrawn |-> FALSE, number |-> 0] ELSE regs[q]]
      BY <2>2 DEF Register
    <3>. HIDE DEF p
    <3>. QED
      BY <1>1, <2>0, <3>1, <3>2
  <2>. QED
    BY <2>1, <2>2
<1>3. TablesOK' /\ Lasting
  BY <1>2, RegsStep DEF Register
<1>. QED
  BY <1>3, ReplyOK, OneMoves DEF Register

LEMMA WithdrawOK ==
  ASSUME IInv, NEW r \in Requests, Withdraw(r)
  PROVE  IInv'
<1>. DEFINE Row == [confirmed : BOOLEAN, withdrawn : BOOLEAN, number : Nat]
<1>1. DOMAIN regs \subseteq Players /\ regs \in [DOMAIN regs -> Row]
  BY DEF IInv, TablesOK
<1>2. regs' = [regs EXCEPT ![loc[r].player].withdrawn = TRUE]
  BY DEF Withdraw
<1>3. DOMAIN regs' = DOMAIN regs /\ regs' \in [DOMAIN regs -> Row]
  BY <1>1, <1>2
<1>4. TablesOK' /\ Lasting
  BY <1>1, <1>3, RegsStep DEF Withdraw
<1>. QED
  BY <1>4, ReplyOK, OneMoves DEF Withdraw

LEMMA ConfirmOK ==
  ASSUME IInv, NEW p \in Players, Confirm(p)
  PROVE  IInv'
<1>. DEFINE Row == [confirmed : BOOLEAN, withdrawn : BOOLEAN, number : Nat]
<1>1. DOMAIN regs \subseteq Players /\ regs \in [DOMAIN regs -> Row]
  BY DEF IInv, TablesOK
<1>2. regs' = [regs EXCEPT ![p].confirmed = TRUE]
  BY DEF Confirm
<1>3. DOMAIN regs' = DOMAIN regs /\ regs' \in [DOMAIN regs -> Row]
  BY <1>1, <1>2
<1>4. TablesOK'
  BY <1>1, <1>3 DEF Confirm, IInv, TablesOK, RoundsAreSound, RoundsInOrder, AllPlayed, OnceEach
<1>5. ASSUME NEW r \in Requests PROVE LocOK(loc[r])' /\ RequestOK(r)'
  BY <1>3, Parts DEF Confirm, LocOK, RequestOK, OpeningOK, ResultOK, Done, Settled, AllPlayed, OnceEach
<1>. QED
  BY <1>4, <1>5 DEF Confirm, IInv, RequestsOK

LEMMA StatusOK ==
  ASSUME IInv, NEW r \in Requests, BeginStatus(r) \/ ChangeStatus(r)
  PROVE  IInv'
<1>1. CASE BeginStatus(r)
  <2>1. PICK to \in Successors[tstatus] :
          Goto(r, "status", [Blank EXCEPT !.to = to]) /\ UNCHANGED tables
    BY <1>1 DEF BeginStatus, Begin, Local
  <2>2. tstatus \in DOMAIN Successors
    BY Parts DEF TablesOK
  <2>3. to \in DOMAIN Successors
    BY <2>1, <2>2, ResultsAre DEF Successors
  <2>4. LocOK([Blank EXCEPT !.to = to])
    BY <2>3, BlankOK DEF LocOK
  <2>5. LocOK(loc[r])' /\ pc'[r] \in Labels /\ RequestOK(r)'
    BY <2>1, <2>4, GotoIs DEF LocOK, Labels, RequestOK
  <2>. QED
    BY <2>1, <2>5, GotoIs, LocalStep
<1>2. CASE ChangeStatus(r)
  <2>1. tstatus' \in DOMAIN Successors
    BY <1>2, Parts DEF ChangeStatus, LocOK
  <2>2. TablesOK'
    BY <1>2, <2>1 DEF ChangeStatus, IInv, TablesOK, RoundsAreSound, RoundsInOrder, AllPlayed, OnceEach
  <2>3. Lasting
    BY <1>2 DEF ChangeStatus, Lasting, AllPlayed
  <2>. QED
    BY <1>2, <2>2, <2>3, ReplyOK, OneMoves DEF ChangeStatus
<1>. QED
  BY <1>1, <1>2

LEMMA OpenOK ==
  ASSUME IInv, NEW r \in Requests,
         BeginGenerate(r) \/ ReadLatest(r) \/ ReadActive(r) \/ ReadUnnumbered(r)
  PROVE  IInv'
<1>1. CASE BeginGenerate(r)
  <2>1. Goto(r, "latest", Blank) /\ UNCHANGED tables
    BY <1>1 DEF BeginGenerate, Begin, Local
  <2>2. LocOK(loc[r])' /\ pc'[r] \in Labels /\ RequestOK(r)'
    BY <2>1, BlankOK, GotoIs DEF LocOK, Labels, RequestOK
  <2>. QED
    BY <2>1, <2>2, GotoIs, LocalStep
<1>2. CASE ReadLatest(r)
  <2>1. CASE Reply(r)
    BY <1>2, <2>1, ReplyOK, LocalStep DEF ReadLatest, Local
  <2>2. CASE /\ LatestDone /\ Len(rounds) < MaxRounds
             /\ Goto(r, "active", [loc[r] EXCEPT !.round = Len(rounds) + 1])
    <3>1. rounds \in Seq(Round) /\ Len(rounds) \in Nat /\ DOMAIN rounds = 1..Len(rounds) /\ MaxRounds \in Nat
      BY Parts, SectionBounds DEF TablesOK
    <3>2. LocOK([loc[r] EXCEPT !.round = Len(rounds) + 1])
      BY <3>1, Parts DEF LocOK
    <3>3. \A i \in 1..Len(rounds) : rounds[i].status = "COMPLETED"
      <4>1. \A i \in 1..Len(rounds) : i < Len(rounds) => rounds[i].status = "COMPLETED"
        BY <3>1, Parts DEF TablesOK, RoundsAreSound, RoundsInOrder
      <4>2. Len(rounds) > 0 => rounds[Len(rounds)].status = "COMPLETED"
        BY <2>2, <3>1 DEF LatestDone
      <4>. QED
        BY <3>1, <4>1, <4>2
    <3>4. /\ loc'[r] = [loc[r] EXCEPT !.round = Len(rounds) + 1] /\ pc'[r] = "active"
          /\ rounds' = rounds
      BY <1>2, <2>2, GotoIs DEF ReadLatest, Local, tables
    <3>5. loc'[r].round = Len(rounds) + 1
      BY <3>4, Parts DEF LocOK
    <3>6. OpeningOK(loc[r])'
      BY <2>2, <3>1, <3>3, <3>4, <3>5 DEF OpeningOK, Done
    <3>7. LocOK(loc[r])' /\ pc'[r] \in Labels /\ RequestOK(r)'
      BY <3>2, <3>4, <3>6 DEF LocOK, Labels, RequestOK
    <3>. QED
      BY <1>2, <2>2, <3>7, GotoIs, LocalStep DEF ReadLatest, Local
  <2>. QED
    BY <1>2, <2>1, <2>2 DEF ReadLatest
<1>3. ASSUME pc[r] \in {"active", "unnumbered"}, NEW label \in {"unnumbered", "seats"},
             Goto(r, label, loc[r]), UNCHANGED tables
      PROVE  IInv'
  <2>1. pc'[r] = label /\ loc'[r] = loc[r] /\ rounds' = rounds
    BY <1>3, GotoIs DEF tables
  <2>2. OpeningOK(loc[r])'
    BY <1>3, <2>1, Parts DEF RequestOK, OpeningOK, Done
  <2>3. LocOK(loc[r])' /\ pc'[r] \in Labels /\ RequestOK(r)'
    BY <2>1, <2>2, Parts DEF LocOK, Labels, RequestOK
  <2>. QED
    BY <1>3, <2>3, GotoIs, LocalStep
<1>4. CASE ReadActive(r)
  BY <1>3, <1>4 DEF ReadActive, Local
<1>5. CASE ReadUnnumbered(r)
  <2>1. CASE Reply(r)
    BY <1>5, <2>1, ReplyOK, LocalStep DEF ReadUnnumbered, Local
  <2>2. CASE Goto(r, "seats", loc[r])
    BY <1>3, <1>5, <2>2 DEF ReadUnnumbered, Local
  <2>3. CASE Goto(r, "numbers", [loc[r] EXCEPT !.who = Active])
    <3>1. Active \subseteq DOMAIN regs /\ Active \subseteq Players
      BY Parts DEF TablesOK, Active
    <3>2. LocOK([loc[r] EXCEPT !.who = Active])
      BY <3>1, Parts DEF LocOK
    <3>3. loc'[r] = [loc[r] EXCEPT !.who = Active] /\ pc'[r] = "numbers" /\ UNCHANGED tables
      BY <1>5, <2>3, GotoIs DEF ReadUnnumbered, Local
    <3>4. loc'[r].who = Active /\ loc'[r].round = loc[r].round /\ rounds' = rounds /\ regs' = regs
      BY <3>3, Parts DEF LocOK, tables
    <3>5. OpeningOK(loc[r])'
      BY <1>5, <3>4, Parts DEF ReadUnnumbered, RequestOK, OpeningOK, Done
    <3>6. LocOK(loc[r])' /\ pc'[r] \in Labels /\ RequestOK(r)'
      BY <3>1, <3>2, <3>3, <3>4, <3>5 DEF LocOK, Labels, RequestOK
    <3>. QED
      BY <2>3, <3>3, <3>6, GotoIs, LocalStep
  <2>. QED
    BY <1>5, <2>1, <2>2, <2>3 DEF ReadUnnumbered
<1>. QED
  BY <1>1, <1>2, <1>4, <1>5

\* Players are numbered by their place among those who are given a number.
LEMMA WhoOK ==
  ASSUME NEW who \in SUBSET Players
  PROVE  /\ IsFiniteSet(who) /\ who \in SUBSET Int /\ Cardinality(who) \in Nat
         /\ \A p \in who : Place(who, p) \in 1..Cardinality(who)
         /\ \A p, q \in who : Place(who, p) = Place(who, q) => p = q
         /\ \A i \in 1..Cardinality(who) : \E p \in who : Place(who, p) = i
<1>0. IsFiniteSet(Players) /\ \A p \in Players : p \in Int
  BY FS_Interval, SectionNumbers DEF Players
<1>1. IsFiniteSet(who) /\ who \in SUBSET Int
  BY <1>0, FS_Subset
<1>2. Cardinality(who) \in Nat
  BY <1>1, FS_CardinalityType
<1>3. /\ \A p \in who : Place(who, p) \in 1..Cardinality(who)
      /\ \A p, q \in who : p < q => Place(who, p) < Place(who, q)
      /\ \A i \in 1..Cardinality(who) : \E p \in who : Place(who, p) = i
  BY <1>1, PlaceOK
<1>4. ASSUME NEW p \in who, NEW q \in who, Place(who, p) = Place(who, q) PROVE p = q
  <2>1. p \in Int /\ q \in Int /\ Place(who, p) \in Int /\ Place(who, q) \in Int
    BY <1>1, <1>2, <1>3
  <2>2. (p < q => Place(who, p) < Place(who, q)) /\ (q < p => Place(who, q) < Place(who, p))
    BY <1>3
  <2>. QED
    BY <1>4, <2>1, <2>2
<1>. QED
  BY <1>1, <1>2, <1>3, <1>4

LEMMA AssignOK ==
  ASSUME IInv, NEW r \in Requests, AssignNumbers(r)
  PROVE  IInv'
<1>. DEFINE who == loc[r].who
            Row == [confirmed : BOOLEAN, withdrawn : BOOLEAN, number : Nat]
<1>1. CASE Reply(r) /\ UNCHANGED regs
  BY <1>1, ReplyOK, LocalStep DEF AssignNumbers, tables
<1>2. CASE /\ regs' = [p \in DOMAIN regs |->
                         IF p \in who THEN [regs[p] EXCEPT !.number = Place(who, p)] ELSE regs[p]]
           /\ Goto(r, "seats", [loc[r] EXCEPT !.who = {}])
  <2>1. DOMAIN regs \subseteq Players /\ regs \in [DOMAIN regs -> Row] /\ who \in SUBSET Players
    BY Parts DEF TablesOK, LocOK
  <2>2. \A p \in who : Place(who, p) \in Nat
    <3>1. Cardinality(who) \in Nat /\ \A p \in who : Place(who, p) \in 1..Cardinality(who)
      BY <2>1, WhoOK
    <3>. QED
      BY <3>1
  <2>3. ASSUME NEW p \in DOMAIN regs PROVE regs'[p] \in Row
    <3>1. regs[p] \in Row
      BY <2>1
    <3>2. CASE p \in who
      <4>1. regs'[p] = [regs[p] EXCEPT !.number = Place(who, p)] /\ Place(who, p) \in Nat
        BY <1>2, <2>2, <3>2
      <4>. HIDE DEF who
      <4>. QED
        BY <3>1, <4>1
    <3>3. CASE p \notin who
      BY <1>2, <3>1, <3>3
    <3>. QED
      BY <3>2, <3>3
  <2>4. DOMAIN regs' = DOMAIN regs /\ regs' \in [DOMAIN regs' -> Row]
    <3>1. DOMAIN regs' = DOMAIN regs /\ regs' = [p \in DOMAIN regs |-> regs'[p]]
      BY <1>2
    <3>. QED
      BY <2>3, <3>1
  <2>5. TablesOK' /\ Lasting
    BY <2>1, <2>4, RegsStep DEF AssignNumbers
  <2>6. loc'[r] = [loc[r] EXCEPT !.who = {}] /\ pc'[r] = "seats" /\ rounds' = rounds
    BY <1>2, GotoIs DEF AssignNumbers
  <2>7. LocOK([loc[r] EXCEPT !.who = {}]) /\ loc'[r].round = loc[r].round
    BY <2>6, Parts DEF LocOK
  <2>8. OpeningOK(loc[r])'
    BY <2>6, <2>7, Parts DEF AssignNumbers, RequestOK, OpeningOK, Done
  <2>9. LocOK(loc[r])' /\ pc'[r] \in Labels /\ RequestOK(r)'
    BY <2>6, <2>7, <2>8 DEF LocOK, Labels, RequestOK
  <2>. QED
    BY <1>2, <2>5, <2>9, GotoIs, OneMoves
<1>. QED
  BY <1>1, <1>2 DEF AssignNumbers

\* Whoever has a number has a seat, and one seat only.
LEMMA SeatsOK ==
  ASSUME TablesOK
  PROVE  /\ Len(Seats) \in Nat /\ DOMAIN Seats = 1..Len(Seats)
         /\ \A s \in DOMAIN Seats : Seats[s] \in Numbered
         /\ \A s, t \in DOMAIN Seats : Seats[s] = Seats[t] => s = t
         /\ Numbered \subseteq Players
<1>. DEFINE N == {regs[p].number : p \in Numbered}
            numbers == Ascending(N)
<1>1. Numbered \subseteq Players /\ \A p \in Numbered : regs[p].number \in Nat
  BY DEF TablesOK, Numbered
<1>2. IsFiniteSet(Numbered)
  <2>1. IsFiniteSet(Players)
    BY FS_Interval, SectionNumbers DEF Players
  <2>. QED
    BY <1>1, <2>1, FS_Subset
<1>3. N \in SUBSET Int /\ IsFiniteSet(N)
  <2>. DEFINE f == [p \in Numbered |-> regs[p].number]
  <2>0. f \in Surjection(Numbered, N)
    BY DEF Surjection
  <2>1. IsFiniteSet(N)
    BY <1>2, <2>0, FS_Surjection
  <2>. QED
    BY <1>1, <2>1
<1>4. /\ Cardinality(N) \in Nat /\ numbers \in [1..Cardinality(N) -> N]
      /\ \A i, j \in 1..Cardinality(N) : numbers[i] = numbers[j] => i = j
  BY <1>3, AscendingOK
<1>5. Seats = [i \in DOMAIN numbers |-> CHOOSE p \in Numbered : regs[p].number = numbers[i]]
  BY DEF Seats
<1>6. ASSUME NEW i \in 1..Cardinality(N)
      PROVE  Seats[i] \in Numbered /\ regs[Seats[i]].number = numbers[i]
  <2>1. \E p \in Numbered : regs[p].number = numbers[i]
    BY <1>4
  <2>. QED
    BY <1>4, <1>5, <2>1
<1>7. DOMAIN Seats = 1..Cardinality(N) /\ Len(Seats) = Cardinality(N)
  BY <1>4, <1>5
<1>. QED
  BY <1>1, <1>4, <1>6, <1>7

\* The boards of a new round: those of the engine's tables, then its byes.
LEMMA BoardsOK ==
  ASSUME TablesOK, NEW round \in Nat \ {0}, NEW active \in SUBSET (DOMAIN Seats),
         CanPair(Len(Seats), Legs, round, active)
  PROVE  LET games  == Games(Len(Seats), round, active)
             byes   == Byes(Len(Seats), round, active)
             boards == [b \in DOMAIN games |-> GameBoard(Seats[games[b][1]], Seats[games[b][2]])]
                       \o [b \in DOMAIN byes |-> ByeBoard(Seats[byes[b]])]
         IN  boards \in Seq(Board) /\ OnceEach(boards)
<1>. DEFINE n == Len(Seats)
            games == Games(n, round, active)
            byes == Byes(n, round, active)
            played == [b \in DOMAIN games |-> GameBoard(Seats[games[b][1]], Seats[games[b][2]])]
            free == [b \in DOMAIN byes |-> ByeBoard(Seats[byes[b]])]
            boards == played \o free
<1>1. /\ n \in Nat /\ DOMAIN Seats = 1..n /\ n >= 2
      /\ \A s \in DOMAIN Seats : Seats[s] \in Players
      /\ \A s, t \in DOMAIN Seats : Seats[s] = Seats[t] => s = t
  BY SeatsOK DEF CanPair
<1>2. /\ games \in Seq(active \X active) /\ byes \in Seq(active)
      /\ \A i \in DOMAIN games : games[i][1] # games[i][2]
      /\ \A i, j \in DOMAIN games : i # j => Disjoint(games[i], games[j])
      /\ \A i, j \in DOMAIN byes : i # j => byes[i] # byes[j]
      /\ \A i \in DOMAIN games, j \in DOMAIN byes : byes[j] \notin {games[i][1], games[i][2]}
  BY <1>1, EngineOK
<1>3. \A p \in Players : p # Nobody
  BY DEF Players, Nobody
<1>. DEFINE g == Len(games)
            f == Len(byes)
            seat == Seats
<1>4. g \in Nat /\ DOMAIN games = 1..g /\ f \in Nat /\ DOMAIN byes = 1..f
  BY <1>2, LenProperties
<1>5. \A i \in 1..g : games[i] \in active \X active
  BY <1>2, <1>4
<1>6. \A i \in 1..f : byes[i] \in active
  BY <1>2, <1>4
<1>7. /\ played = [b \in 1..g |-> GameBoard(seat[games[b][1]], seat[games[b][2]])]
      /\ free = [b \in 1..f |-> ByeBoard(seat[byes[b]])]
  BY <1>4
<1>8. /\ active \subseteq 1..n
      /\ \A s \in 1..n : seat[s] \in Players
      /\ \A s, t \in 1..n : seat[s] = seat[t] => s = t
  BY <1>1
<1>. HIDE DEF games, byes, played, free, seat, n, g, f
<1>9. ASSUME NEW b \in 1..g
      PROVE  /\ played[b] \in Board
             /\ played[b].white = seat[games[b][1]] /\ played[b].black = seat[games[b][2]]
  <2>1. played[b] = GameBoard(seat[games[b][1]], seat[games[b][2]])
    BY <1>7
  <2>2. seat[games[b][1]] \in Players /\ seat[games[b][2]] \in Players
    BY <1>5, <1>8
  <2>. QED
    BY <2>1, <2>2, ResultsAre DEF GameBoard, Board
<1>10. ASSUME NEW b \in 1..f
       PROVE  /\ free[b] \in Board
              /\ free[b].white = seat[byes[b]] /\ free[b].black = Nobody
  <2>1. free[b] = ByeBoard(seat[byes[b]])
    BY <1>7
  <2>2. seat[byes[b]] \in Players
    BY <1>6, <1>8
  <2>. QED
    BY <2>1, <2>2, ResultsAre DEF ByeBoard, Board
<1>11. played \in Seq(Board) /\ Len(played) = g
  BY <1>4, <1>7, <1>9
<1>12. free \in Seq(Board) /\ Len(free) = f
  BY <1>4, <1>7, <1>10
<1>13. /\ boards \in Seq(Board) /\ DOMAIN boards = 1..(g + f)
       /\ \A i \in 1..g : boards[i] = played[i]
       /\ \A i \in (g + 1)..(g + f) : boards[i] = free[i - g]
  <2>1. /\ boards \in Seq(Board) /\ Len(boards) = g + f
        /\ \A i \in 1..(g + f) : boards[i] = IF i <= g THEN played[i] ELSE free[i - g]
    BY <1>11, <1>12, ConcatProperties
  <2>2. DOMAIN boards = 1..(g + f)
    BY <2>1, LenProperties
  <2>. HIDE DEF boards
  <2>. QED
    BY <1>4, <2>1, <2>2
<1>. HIDE DEF boards
<1>14. ASSUME NEW b \in 1..(g + f)
       PROVE  boards[b].white # boards[b].black
  <2>1. CASE b \in 1..g
    <3>1. games[b][1] \in 1..n /\ games[b][2] \in 1..n /\ games[b][1] # games[b][2]
      BY <1>2, <1>4, <1>5, <1>8, <2>1
    <3>. QED
      BY <1>8, <1>9, <1>13, <2>1, <3>1
  <2>2. CASE b \in (g + 1)..(g + f)
    <3>1. b - g \in 1..f
      BY <1>4, <2>2
    <3>2. byes[b - g] \in 1..n
      BY <1>6, <1>8, <3>1
    <3>. QED
      BY <1>3, <1>8, <1>10, <1>13, <2>2, <3>1, <3>2
  <2>. QED
    BY <1>4, <2>1, <2>2
<1>15. ASSUME NEW b \in 1..g, NEW c \in 1..g, b # c
       PROVE  {boards[b].white, boards[b].black} \cap {boards[c].white, boards[c].black} = {}
  <2>1. /\ games[b][1] \in 1..n /\ games[b][2] \in 1..n /\ games[c][1] \in 1..n /\ games[c][2] \in 1..n
        /\ Disjoint(games[b], games[c])
    BY <1>2, <1>4, <1>5, <1>8, <1>15
  <2>2. /\ boards[b].white = seat[games[b][1]] /\ boards[b].black = seat[games[b][2]]
        /\ boards[c].white = seat[games[c][1]] /\ boards[c].black = seat[games[c][2]]
    BY <1>9, <1>13
  <2>. QED
    BY <1>8, <2>1, <2>2 DEF Disjoint
<1>16. ASSUME NEW b \in 1..g, NEW c \in (g + 1)..(g + f)
       PROVE  {boards[b].white, boards[b].black} \cap {boards[c].white, boards[c].black} \subseteq {Nobody}
  <2>0. c - g \in 1..f
    BY <1>4
  <2>1. /\ games[b][1] \in 1..n /\ games[b][2] \in 1..n /\ byes[c - g] \in 1..n
        /\ byes[c - g] \notin {games[b][1], games[b][2]}
    BY <1>2, <1>4, <1>5, <1>6, <1>8, <2>0
  <2>2. /\ boards[b].white = seat[games[b][1]] /\ boards[b].black = seat[games[b][2]]
        /\ boards[c].white = seat[byes[c - g]] /\ boards[c].black = Nobody
    BY <1>9, <1>10, <1>13, <2>0
  <2>. QED
    BY <1>8, <2>1, <2>2
<1>17. ASSUME NEW b \in (g + 1)..(g + f), NEW c \in (g + 1)..(g + f), b # c
       PROVE  {boards[b].white, boards[b].black} \cap {boards[c].white, boards[c].black} \subseteq {Nobody}
  <2>0. b - g \in 1..f /\ c - g \in 1..f /\ b - g # c - g
    BY <1>4, <1>17
  <2>1. byes[b - g] \in 1..n /\ byes[c - g] \in 1..n /\ byes[b - g] # byes[c - g]
    BY <1>2, <1>4, <1>6, <1>8, <2>0
  <2>2. /\ boards[b].white = seat[byes[b - g]] /\ boards[b].black = Nobody
        /\ boards[c].white = seat[byes[c - g]] /\ boards[c].black = Nobody
    BY <1>10, <1>13, <2>0
  <2>. QED
    BY <1>3, <1>8, <2>1, <2>2
<1>18. OnceEach(boards)
  <2>1. \A b \in 1..(g + f) : b \in 1..g \/ b \in (g + 1)..(g + f)
    BY <1>4
  <2>2. ASSUME NEW b \in 1..(g + f), NEW c \in 1..(g + f), b # c
        PROVE  {boards[b].white, boards[b].black} \cap {boards[c].white, boards[c].black} \subseteq {Nobody}
    <3>1. CASE b \in 1..g /\ c \in 1..g
      BY <1>15, <2>2, <3>1
    <3>2. CASE b \in 1..g /\ c \in (g + 1)..(g + f)
      BY <1>16, <3>2
    <3>3. CASE c \in 1..g /\ b \in (g + 1)..(g + f)
      BY <1>16, <3>3
    <3>4. CASE b \in (g + 1)..(g + f) /\ c \in (g + 1)..(g + f)
      BY <1>17, <2>2, <3>4
    <3>. QED
      BY <2>1, <3>1, <3>2, <3>3, <3>4
  <2>. QED
    BY <1>13, <1>14, <2>2 DEF OnceEach
<1>. QED
  BY <1>13, <1>18 DEF boards, played, free, games, byes, n

LEMMA ReadSeatsOK ==
  ASSUME IInv, NEW r \in Requests, ReadSeats(r)
  PROVE  IInv'
<1>. DEFINE n == Len(Seats)
            active == {s \in DOMAIN Seats : ~regs[Seats[s]].withdrawn}
            round == loc[r].round
            games == Games(n, round, active)
            byes == Byes(n, round, active)
            boards == [b \in DOMAIN games |-> GameBoard(Seats[games[b][1]], Seats[games[b][2]])]
                      \o [b \in DOMAIN byes |-> ByeBoard(Seats[byes[b]])]
<1>1. CASE Reply(r)
  BY <1>1, ReplyOK, LocalStep DEF ReadSeats, Local
<1>2. CASE CanPair(n, Legs, round, active) /\ Goto(r, "create", [loc[r] EXCEPT !.boards = boards])
  <2>1. OpeningOK(loc[r]) /\ round \in Nat \ {0}
    <3>1. pc[r] = "seats" /\ RequestOK(r) /\ MaxRounds \in Nat
      BY Parts, SectionBounds DEF ReadSeats
    <3>. QED
      BY <3>1 DEF RequestOK, OpeningOK
  <2>2. boards \in Seq(Board) /\ OnceEach(boards)
    BY <1>2, <2>1, BoardsOK, Parts
  <2>. HIDE DEF boards, active
  <2>3. /\ loc'[r] = [loc[r] EXCEPT !.boards = boards] /\ pc'[r] = "create"
        /\ UNCHANGED tables /\ rounds' = rounds
    BY <1>2, GotoIs DEF ReadSeats, Local, tables
  <2>4. LocOK([loc[r] EXCEPT !.boards = boards])
    BY <2>2, Parts DEF LocOK
  <2>5. loc'[r].boards = boards /\ loc'[r].round = loc[r].round
    BY <2>3, Parts DEF LocOK
  <2>6. OpeningOK(loc[r])' /\ OnceEach(loc[r].boards)'
    BY <2>1, <2>2, <2>3, <2>5 DEF OpeningOK, Done, OnceEach
  <2>7. LocOK(loc[r])' /\ pc'[r] \in Labels /\ RequestOK(r)'
    BY <2>3, <2>4, <2>6 DEF LocOK, Labels, RequestOK
  <2>. QED
    BY <1>2, <2>3, <2>7, GotoIs, LocalStep
<1>. QED
  BY <1>1, <1>2 DEF ReadSeats

LEMMA CreateOK ==
  ASSUME IInv, NEW r \in Requests, CreateRound(r)
  PROVE  IInv'
<1>1. CASE Reply(r) /\ UNCHANGED rounds
  BY <1>1, ReplyOK, LocalStep DEF CreateRound, tables
<1>2. CASE /\ RoundFree(loc[r].round)
           /\ rounds' = Append(rounds, [status |-> "PAIRED", boards |-> loc[r].boards])
           /\ Goto(r, "participants", Blank)
  <2>. DEFINE n == Len(rounds)
              new == [status |-> "PAIRED", boards |-> loc[r].boards]
  <2>1. /\ rounds \in Seq(Round) /\ n \in Nat /\ DOMAIN rounds = 1..n /\ loc[r].boards \in Seq(Board)
        /\ new \in Round
    <3>1. rounds \in Seq(Round) /\ loc[r].boards \in Seq(Board)
      BY Parts DEF TablesOK, LocOK
    <3>2. new \in Round
      BY <3>1 DEF Round
    <3>. QED
      BY <3>1, <3>2, LenProperties
  <2>2. /\ loc[r].round = n + 1 /\ n + 1 <= MaxRounds /\ OnceEach(loc[r].boards)
        /\ \A i \in 1..n : rounds[i].status = "COMPLETED"
    <3>1. OpeningOK(loc[r]) /\ OnceEach(loc[r].boards) /\ loc[r].round = n + 1
      BY <1>2, Parts DEF CreateRound, RequestOK, RoundFree
    <3>. QED
      BY <2>1, <3>1, SectionBounds DEF OpeningOK, Done
  <2>. HIDE DEF new
  <2>3. /\ rounds' \in Seq(Round) /\ Len(rounds') = n + 1 /\ DOMAIN rounds' = 1..(n + 1)
        /\ \A i \in 1..n : rounds'[i] = rounds[i]
        /\ rounds'[n + 1] = new
    <3>1. rounds' = Append(rounds, new)
      BY <1>2 DEF new
    <3>. QED
      BY <2>1, <3>1, AppendProperties, LenProperties
  <2>4. new.status = "PAIRED" /\ new.boards = loc[r].boards
    BY DEF new
  <2>. HIDE DEF n
  <2>5. RoundsAreSound'
    <3>1. \A i \in DOMAIN rounds : AllPlayed(i) => AllPlayed(i)'
      BY <2>1, <2>3 DEF AllPlayed
    <3>2. RoundsAreSound /\ announced' = announced
      BY Parts DEF TablesOK, CreateRound
    <3>3. RoundsInOrder'
      <4>. SUFFICES ASSUME NEW i \in 1..(n + 1)
                    PROVE  /\ i < n + 1 => rounds'[i].status = "COMPLETED"
                           /\ rounds'[i].status = "COMPLETED" => AllPlayed(i)' /\ announced'[i] > 0
        BY <2>3 DEF RoundsInOrder
      <4>1. CASE i \in 1..n
        BY <2>1, <2>2, <2>3, <3>1, <3>2, <4>1 DEF RoundsAreSound, RoundsInOrder
      <4>2. CASE i = n + 1
        BY <2>1, <2>3, <2>4, <4>2
      <4>. QED
        BY <2>1, <4>1, <4>2
    <3>4. \A i \in DOMAIN rounds' : OnceEach(rounds'[i].boards)
      <4>. SUFFICES ASSUME NEW i \in 1..(n + 1) PROVE OnceEach(rounds'[i].boards)
        BY <2>3
      <4>1. CASE i \in 1..n
        BY <2>1, <2>3, <3>2, <4>1 DEF RoundsAreSound
      <4>2. CASE i = n + 1
        BY <2>2, <2>3, <2>4, <4>2
      <4>. QED
        BY <2>1, <4>1, <4>2
    <3>. QED
      BY <3>3, <3>4 DEF RoundsAreSound, OnceEach
  <2>6. TablesOK'
    BY <2>2, <2>3, <2>5, Parts DEF TablesOK, CreateRound
  <2>7. Lasting
    BY <2>1, <2>3 DEF Lasting, AllPlayed, CreateRound
  <2>. QED
    BY <1>2, <2>6, <2>7, ParticipantsOK, OneMoves
<1>. QED
  BY <1>1, <1>2 DEF CreateRound

\* The round and the board of a request, and their types.
LEMMA BoardTyped ==
  ASSUME TablesOK, NEW i \in DOMAIN rounds
  PROVE  /\ rounds[i] \in Round /\ rounds[i].boards \in Seq(Board)
         /\ \A b \in DOMAIN rounds[i].boards : rounds[i].boards[b] \in Board
<1>1. rounds[i] \in Round
  BY LenProperties, ElementOfSeq DEF TablesOK
<1>2. rounds[i].boards \in Seq(Board)
  BY <1>1 DEF Round
<1>. QED
  BY <1>1, <1>2, LenProperties

LEMMA ResultStepsOK ==
  ASSUME IInv, NEW r \in Requests, BeginResult(r) \/ CheckResult(r) \/ ReadBefore(r)
  PROVE  IInv'
<1>1. CASE BeginResult(r)
  <2>1. PICK i \in DOMAIN rounds : \E b \in DOMAIN rounds[i].boards :
          \E result \in GameResults \cup ByeResults, reason \in BOOLEAN :
            Begin(r, "result", "check",
                  [Blank EXCEPT !.round = i, !.board = b, !.result = result, !.reason = reason,
                                !.seen = rounds[i].boards[b].result])
    BY <1>1 DEF BeginResult
  <2>2. PICK b \in DOMAIN rounds[i].boards, result \in GameResults \cup ByeResults, reason \in BOOLEAN :
            Begin(r, "result", "check",
                  [Blank EXCEPT !.round = i, !.board = b, !.result = result, !.reason = reason,
                                !.seen = rounds[i].boards[b].result])
    BY <2>1
  <2>. DEFINE l == [Blank EXCEPT !.round = i, !.board = b, !.result = result, !.reason = reason,
                                 !.seen = rounds[i].boards[b].result]
  <2>3. rounds[i].boards[b].result \in Results /\ i \in Nat /\ b \in Nat
    <3>1. rounds \in Seq(Round) /\ rounds[i].boards \in Seq(Board) /\ rounds[i].boards[b] \in Board
      BY BoardTyped, Parts DEF TablesOK
    <3>. QED
      BY <3>1, LenProperties DEF Board
  <2>4. result \in Results /\ result # "UNPLAYED"
    BY ResultsAre
  <2>5. LocOK(l) /\ l.round = i /\ l.board = b /\ l.result = result
    BY <2>3, <2>4, BlankOK DEF LocOK, Blank
  <2>6. loc'[r] = l /\ pc'[r] = "check" /\ UNCHANGED tables /\ Goto(r, "check", l) /\ rounds' = rounds
    BY <2>2, GotoIs DEF Begin, Local, tables
  <2>. HIDE DEF l
  <2>7. ResultOK(loc[r])'
    BY <2>4, <2>5, <2>6 DEF ResultOK
  <2>8. LocOK(loc[r])' /\ pc'[r] \in Labels /\ RequestOK(r)'
    BY <2>5, <2>6, <2>7 DEF LocOK, Labels, RequestOK
  <2>. QED
    BY <2>6, <2>8, GotoIs, LocalStep
<1>2. CASE CheckResult(r)
  <2>1. CASE Reply(r)
    BY <1>2, <2>1, ReplyOK, LocalStep DEF CheckResult, Local
  <2>2. CASE Goto(r, "before", loc[r])
    <3>1. loc'[r] = loc[r] /\ pc'[r] = "before" /\ UNCHANGED tables /\ rounds' = rounds
      BY <1>2, <2>2, GotoIs DEF CheckResult, Local, tables
    <3>2. ResultOK(loc[r])'
      BY <1>2, <3>1, Parts DEF CheckResult, RequestOK, ResultOK
    <3>3. LocOK(loc[r])' /\ pc'[r] \in Labels /\ RequestOK(r)'
      BY <3>1, <3>2, Parts DEF LocOK, Labels, RequestOK
    <3>. QED
      BY <2>2, <3>1, <3>3, GotoIs, LocalStep
  <2>. QED
    BY <1>2, <2>1, <2>2 DEF CheckResult
<1>3. CASE ReadBefore(r)
  <2>. DEFINE seen == rounds[loc[r].round].boards[loc[r].board].result
              l == [loc[r] EXCEPT !.seen = seen]
  <2>1. Goto(r, "before", l) \/ Goto(r, "enter", l)
    BY <1>3 DEF ReadBefore
  <2>2. ResultOK(loc[r]) /\ TablesOK
    BY <1>3, Parts DEF ReadBefore, RequestOK
  <2>3. seen \in Results
    BY <2>2, BoardTyped DEF ResultOK, Board
  <2>. HIDE DEF seen
  <2>4. LocOK(l) /\ l.round = loc[r].round /\ l.board = loc[r].board /\ l.result = loc[r].result
    BY <2>3, Parts DEF LocOK
  <2>5. loc'[r] = l /\ pc'[r] = "enter" /\ UNCHANGED tables /\ Goto(r, "enter", l) /\ rounds' = rounds
    BY <1>3, GotoIs DEF ReadBefore, Local, tables, seen
  <2>. HIDE DEF l
  <2>6. ResultOK(loc[r])'
    BY <2>2, <2>4, <2>5 DEF ResultOK
  <2>7. LocOK(loc[r])' /\ pc'[r] \in Labels /\ RequestOK(r)'
    BY <2>4, <2>5, <2>6 DEF LocOK, Labels, RequestOK
  <2>. QED
    BY <2>5, <2>7, GotoIs, LocalStep
<1>. QED
  BY <1>1, <1>2, <1>3

\* A result is entered on a board: the players keep their seats, and no board is
\* without a result again.
LEMMA EnterOK ==
  ASSUME IInv, NEW r \in Requests, EnterResult(r)
  PROVE  IInv'
<1>1. CASE Reply(r) /\ UNCHANGED rounds
  BY <1>1, ReplyOK, LocalStep DEF EnterResult, tables
<1>2. CASE rounds' = [rounds EXCEPT ![loc[r].round].boards[loc[r].board].result = loc[r].result]
           /\ Goto(r, "participants", Blank)
  <2>. DEFINE k == loc[r].round
              d == loc[r].board
              v == loc[r].result
  <2>1. /\ k \in DOMAIN rounds /\ d \in DOMAIN rounds[k].boards /\ v # "UNPLAYED" /\ v \in Results
        /\ rounds \in Seq(Round)
    BY Parts DEF EnterResult, RequestOK, ResultOK, LocOK, TablesOK
  <2>2. /\ rounds' = [rounds EXCEPT ![k] = rounds'[k]] /\ DOMAIN rounds' = DOMAIN rounds
        /\ rounds'[k] = [rounds[k] EXCEPT !.boards[d].result = v]
    BY <1>2, <2>1
  <2>. HIDE DEF k, d, v
  <2>3. rounds[k] \in Round /\ rounds[k].boards \in Seq(Board)
    BY <2>1, BoardTyped, Parts
  <2>4. rounds'[k].boards = [rounds[k].boards EXCEPT ![d].result = v] /\ rounds'[k].status = rounds[k].status
    BY <2>2, <2>3 DEF Round
  <2>5. rounds[k].boards[d] \in Board
    BY <2>1, BoardTyped, Parts
  <2>6. /\ DOMAIN rounds'[k].boards = DOMAIN rounds[k].boards
        /\ \A b \in DOMAIN rounds[k].boards :
             /\ b # d => rounds'[k].boards[b] = rounds[k].boards[b]
             /\ rounds'[k].boards[b].white = rounds[k].boards[b].white
             /\ rounds'[k].boards[b].black = rounds[k].boards[b].black
             /\ b = d => rounds'[k].boards[b].result = v
    BY <2>1, <2>4, <2>5 DEF Board
  <2>7. rounds'[k].boards \in Seq(Board)
    <3>1. rounds'[k].boards = [rounds[k].boards EXCEPT ![d] = [rounds[k].boards[d] EXCEPT !.result = v]]
      BY <2>1, <2>4
    <3>2. [rounds[k].boards[d] EXCEPT !.result = v] \in Board
      BY <2>1, <2>5 DEF Board
    <3>3. d \in 1..Len(rounds[k].boards)
      BY <2>1, <2>3, LenProperties
    <3>. QED
      BY <2>3, <3>1, <3>2, <3>3, ExceptSeq
  <2>8. rounds'[k] \in Round
    <3>1. rounds'[k] = [rounds[k] EXCEPT !.boards = rounds'[k].boards]
      BY <2>2, <2>3, <2>4 DEF Round
    <3>. QED
      BY <2>3, <2>7, <3>1 DEF Round
  <2>9. rounds' \in Seq(Round) /\ Len(rounds') = Len(rounds)
    <3>. DEFINE new == rounds'[k]
    <3>1. k \in 1..Len(rounds)
      BY <2>1, LenProperties
    <3>2. new \in Round /\ rounds' = [rounds EXCEPT ![k] = new]
      BY <2>2, <2>8
    <3>. HIDE DEF new
    <3>3. [rounds EXCEPT ![k] = new] \in Seq(Round) /\ Len([rounds EXCEPT ![k] = new]) = Len(rounds)
      BY <2>1, <3>1, <3>2, ExceptSeq
    <3>. QED
      BY <3>2, <3>3
  <2>10. \A i \in DOMAIN rounds : i # k => rounds'[i] = rounds[i]
    BY <2>2
  <2>11. ASSUME NEW i \in DOMAIN rounds
         PROVE  /\ DOMAIN rounds'[i].boards = DOMAIN rounds[i].boards
                /\ rounds'[i].status = rounds[i].status
                /\ AllPlayed(i) => AllPlayed(i)'
                /\ OnceEach(rounds[i].boards) => OnceEach(rounds'[i].boards)
    <3>1. CASE i = k
      <4>1. AllPlayed(i) => AllPlayed(i)'
        <5>1. AllPlayed(i) => \A b \in DOMAIN rounds'[k].boards : rounds'[k].boards[b].result # "UNPLAYED"
          <6>. SUFFICES ASSUME AllPlayed(i), NEW b \in DOMAIN rounds[k].boards
                        PROVE  rounds'[k].boards[b].result # "UNPLAYED"
            BY <2>6
          <6>1. rounds[k].boards[b].result # "UNPLAYED"
            BY <3>1 DEF AllPlayed
          <6>2. CASE b = d
            BY <2>1, <2>6, <6>2
          <6>3. CASE b # d
            BY <2>6, <6>1, <6>3
          <6>. QED
            BY <6>2, <6>3
        <5>. QED
          BY <3>1, <5>1 DEF AllPlayed
      <4>2. OnceEach(rounds[k].boards) => OnceEach(rounds'[k].boards)
        BY <2>6 DEF OnceEach
      <4>. QED
        BY <2>4, <2>6, <3>1, <4>1, <4>2
    <3>2. CASE i # k
      BY <2>10, <3>2 DEF AllPlayed
    <3>. QED
      BY <3>1, <3>2
  <2>12. Lasting
    BY <2>2, <2>11 DEF Lasting, EnterResult
  <2>13. RoundsAreSound'
    <3>1. RoundsAreSound /\ announced' = announced
      BY Parts DEF TablesOK, EnterResult
    <3>2. RoundsInOrder'
      BY <2>2, <2>9, <2>11, <3>1 DEF RoundsAreSound, RoundsInOrder
    <3>3. \A i \in DOMAIN rounds' : OnceEach(rounds'[i].boards)
      BY <2>2, <2>11, <3>1 DEF RoundsAreSound
    <3>. QED
      BY <3>2, <3>3 DEF RoundsAreSound, OnceEach
  <2>14. TablesOK'
    BY <2>9, <2>13, Parts DEF TablesOK, EnterResult
  <2>. QED
    BY <1>2, <2>12, <2>14, ParticipantsOK, OneMoves
<1>. QED
  BY <1>1, <1>2 DEF EnterResult

LEMMA CompleteOK ==
  ASSUME IInv, NEW r \in Requests, BeginComplete(r) \/ CheckComplete(r) \/ CompleteRound(r)
  PROVE  IInv'
<1>1. CASE BeginComplete(r)
  <2>1. PICK i \in DOMAIN rounds :
          Goto(r, "close", [Blank EXCEPT !.round = i, !.open = Completable(i)]) /\ UNCHANGED tables
    BY <1>1 DEF BeginComplete, Begin, Local
  <2>. DEFINE l == [Blank EXCEPT !.round = i, !.open = Completable(i)]
  <2>2. i \in Nat /\ Completable(i) \in BOOLEAN
    BY Parts, LenProperties DEF TablesOK, Completable, AllPlayed
  <2>3. LocOK(l) /\ l.round = i /\ l.open = Completable(i)
    BY <2>2, BlankOK DEF LocOK, Blank
  <2>4. loc'[r] = l /\ pc'[r] = "close" /\ rounds' = rounds /\ Goto(r, "close", l)
    BY <2>1, GotoIs DEF tables
  <2>. HIDE DEF l
  <2>5. loc'[r].open => Settled(loc[r].round)'
    BY <2>1, <2>3, <2>4 DEF Settled, Completable, AllPlayed
  <2>6. LocOK(loc[r])' /\ pc'[r] \in Labels /\ RequestOK(r)'
    BY <2>3, <2>4, <2>5 DEF LocOK, Labels, RequestOK
  <2>. QED
    BY <2>1, <2>4, <2>6, GotoIs, LocalStep
<1>2. CASE CheckComplete(r)
  <2>1. CASE Reply(r)
    BY <1>2, <2>1, ReplyOK, LocalStep DEF CheckComplete, Local
  <2>2. CASE loc[r].open /\ Goto(r, "complete", loc[r])
    <3>1. loc'[r] = loc[r] /\ pc'[r] = "complete" /\ UNCHANGED tables /\ rounds' = rounds
      BY <1>2, <2>2, GotoIs DEF CheckComplete, Local, tables
    <3>2. Settled(loc[r].round)'
      BY <1>2, <2>2, <3>1, Parts DEF CheckComplete, RequestOK, Settled, AllPlayed
    <3>3. LocOK(loc[r])' /\ pc'[r] \in Labels /\ RequestOK(r)'
      BY <3>1, <3>2, Parts DEF LocOK, Labels, RequestOK
    <3>. QED
      BY <2>2, <3>1, <3>3, GotoIs, LocalStep
  <2>. QED
    BY <1>2, <2>1, <2>2 DEF CheckComplete
<1>3. CASE CompleteRound(r)
  <2>. DEFINE k == loc[r].round
  <2>1. /\ k \in DOMAIN rounds /\ \A b \in DOMAIN rounds[k].boards : rounds[k].boards[b].result # "UNPLAYED"
        /\ rounds \in Seq(Round) /\ Len(rounds) <= MaxRounds
    BY <1>3, Parts DEF CompleteRound, RequestOK, Settled, AllPlayed, TablesOK
  <2>2. /\ rounds' = [rounds EXCEPT ![k].status = "COMPLETED"]
        /\ announced' = [announced EXCEPT ![k] = @ + 1]
        /\ UNCHANGED <<tstatus, regs>>
    BY <1>3 DEF CompleteRound
  <2>. HIDE DEF k
  <2>3. rounds[k] \in Round /\ k \in 1..Len(rounds) /\ Len(rounds) \in Nat
    BY <2>1, BoardTyped, Parts, LenProperties
  <2>4. [rounds[k] EXCEPT !.status = "COMPLETED"] \in Round
    BY <2>3 DEF Round
  <2>5. rounds' = [rounds EXCEPT ![k] = [rounds[k] EXCEPT !.status = "COMPLETED"]]
    BY <2>2
  <2>6. rounds' \in Seq(Round) /\ Len(rounds') = Len(rounds)
    BY <2>1, <2>3, <2>4, <2>5, ExceptSeq
  <2>7. /\ DOMAIN rounds' = DOMAIN rounds
        /\ \A i \in DOMAIN rounds : rounds'[i].boards = rounds[i].boards
        /\ \A i \in DOMAIN rounds : i # k => rounds'[i].status = rounds[i].status
        /\ rounds'[k].status = "COMPLETED"
    <3>1. /\ rounds'[k].boards = rounds[k].boards /\ rounds'[k].status = "COMPLETED"
      BY <2>1, <2>3, <2>5 DEF Round
    <3>2. \A i \in DOMAIN rounds : i # k => rounds'[i] = rounds[i]
      BY <2>5
    <3>. QED
      BY <2>5, <3>1, <3>2
  <2>8. /\ announced' \in [1..MaxRounds -> Nat] /\ announced'[k] > 0
        /\ \A i \in 1..MaxRounds : i # k => announced'[i] = announced[i]
    <3>1. announced \in [1..MaxRounds -> Nat] /\ k \in 1..MaxRounds
      BY <2>1, <2>3, Parts, SectionBounds DEF TablesOK
    <3>2. announced[k] \in Nat
      BY <3>1
    <3>. QED
      BY <2>2, <3>1, <3>2
  <2>9. RoundsAreSound
    BY Parts DEF TablesOK
  <2>10. RoundsInOrder'
    <3>. SUFFICES ASSUME NEW i \in DOMAIN rounds
                  PROVE  /\ i < Len(rounds') => rounds'[i].status = "COMPLETED"
                         /\ rounds'[i].status = "COMPLETED" => AllPlayed(i)' /\ announced'[i] > 0
      BY <2>7 DEF RoundsInOrder
    <3>1. CASE i = k
      BY <2>1, <2>7, <2>8, <3>1 DEF AllPlayed
    <3>2. CASE i # k
      <4>1. i \in 1..MaxRounds
        BY <2>1, LenProperties, SectionBounds
      <4>. QED
        BY <2>6, <2>7, <2>8, <2>9, <3>2, <4>1 DEF AllPlayed, RoundsAreSound, RoundsInOrder
    <3>. QED
      BY <3>1, <3>2
  <2>11. RoundsAreSound'
    BY <2>7, <2>9, <2>10 DEF RoundsAreSound, OnceEach
  <2>12. TablesOK'
    BY <2>1, <2>2, <2>6, <2>8, <2>11, Parts DEF TablesOK
  <2>13. Lasting
    BY <2>2, <2>7 DEF Lasting, AllPlayed
  <2>. QED
    BY <1>3, <2>12, <2>13, ParticipantsOK, OneMoves DEF CompleteRound
<1>. QED
  BY <1>1, <1>2, <1>3

LEMMA StandingsOK ==
  ASSUME IInv, NEW r \in Requests,
         ReadParticipants(r) \/ ReadHistory(r) \/ UpsertStandings(r) \/ Crash(r)
  PROVE  IInv'
<1>1. CASE ReadParticipants(r)
  <2>1. CASE Reply(r)
    BY <1>1, <2>1, ReplyOK, LocalStep DEF ReadParticipants, Local
  <2>2. CASE Goto(r, "history", [Blank EXCEPT !.who = Numbered])
    <3>1. Numbered \subseteq Players
      BY Parts DEF TablesOK, Numbered
    <3>2. LocOK([Blank EXCEPT !.who = Numbered])
      BY <3>1, BlankOK DEF LocOK
    <3>3. LocOK(loc[r])' /\ pc'[r] \in Labels /\ RequestOK(r)'
      BY <2>2, <3>2, GotoIs DEF LocOK, Labels, RequestOK
    <3>. QED
      BY <1>1, <2>2, <3>3, GotoIs, LocalStep DEF ReadParticipants, Local
  <2>. QED
    BY <1>1, <2>1, <2>2 DEF ReadParticipants
<1>2. CASE ReadHistory(r)
  <2>. DEFINE l == [Blank EXCEPT !.scores = [p \in loc[r].who |-> ScoreOf(p)]]
  <2>1. Goto(r, "upsert", l) /\ UNCHANGED tables
    BY <1>2 DEF ReadHistory, Local
  <2>2. LocOK(l)
    BY BlankOK DEF LocOK, Blank
  <2>. HIDE DEF l
  <2>3. LocOK(loc[r])' /\ pc'[r] \in Labels /\ RequestOK(r)'
    BY <2>1, <2>2, GotoIs DEF LocOK, Labels, RequestOK
  <2>. QED
    BY <2>1, <2>3, GotoIs, LocalStep
<1>3. CASE UpsertStandings(r)
  <2>1. TablesOK' /\ Lasting
    <3>1. UNCHANGED <<tstatus, regs, rounds, announced>>
      BY <1>3 DEF UpsertStandings
    <3>. QED
      BY <3>1, RegsStep, Parts DEF TablesOK
  <2>. QED
    BY <1>3, <2>1, ReplyOK, OneMoves DEF UpsertStandings
<1>4. CASE Crash(r)
  BY <1>4, ReplyOK, LocalStep DEF Crash
<1>. QED
  BY <1>1, <1>2, <1>3, <1>4

LEMMA StepKeeps == IInv /\ [Next]_vars => IInv'
<1>. SUFFICES ASSUME IInv, [Next]_vars PROVE IInv'
  OBVIOUS
<1>1. CASE UNCHANGED vars
  BY <1>1 DEF IInv, TablesOK, RequestsOK, LocOK, RequestOK, OpeningOK, ResultOK, Done, Settled,
              RoundsAreSound, RoundsInOrder, AllPlayed, OnceEach, vars
<1>2. ASSUME NEW r \in Requests, Step(r) PROVE IInv'
  BY <1>2, RegistrationOK, RegisterOK, WithdrawOK, StatusOK, OpenOK, AssignOK, ReadSeatsOK, CreateOK,
     ResultStepsOK, EnterOK, CompleteOK, StandingsOK DEF Step
<1>3. ASSUME NEW p \in Players, Confirm(p) PROVE IInv'
  BY <1>3, ConfirmOK
<1>. QED
  BY <1>1, <1>2, <1>3 DEF Next

\* However many players and requests there are, and however they interleave and
\* die: rounds are opened one after the other, a completed round has all its
\* results and is announced, and nobody sits at two boards of one
\* (generateRound, completeRound, enterResult).
THEOREM RoundsAlwaysSound == Spec => []RoundsAreSound
<1>1. IInv => RoundsAreSound
  BY DEF IInv, TablesOK
<1>2. Init => IInv
  BY InitOK
<1>. QED
  BY <1>1, <1>2, StepKeeps, PTL DEF Spec

-----------------------------------------------------------------------------
(* Pairing numbers. *)

\* Who is given a number that another player has already has that number: the
\* unique index lets a second assignment through only if it repeats the first.
LEMMA FreeIsSame ==
  ASSUME IInv, NumbersOK, NEW who \in SUBSET Players, NumbersFree(who)
  PROVE  \A p \in Numbered :
           /\ p \in who => regs[p].number = Place(who, p)
           /\ p \notin who => regs[p].number > Cardinality(who)
<1>. DEFINE n == Cardinality(who)
            num(p) == regs[p].number
            Upto(i) == {p \in Numbered : num(p) <= i}
            First(i) == {p \in who : Place(who, p) <= i}
<1>1. /\ IsFiniteSet(who) /\ n \in Nat
      /\ \A p \in who : Place(who, p) \in 1..n
      /\ \A p, q \in who : Place(who, p) = Place(who, q) => p = q
      /\ \A i \in 1..n : \E p \in who : Place(who, p) = i
  BY WhoOK
<1>2. \A p \in Numbered : num(p) \in Nat \ {0}
  BY Parts DEF IInv, TablesOK, Numbered
<1>3. /\ \A p, q \in Numbered : num(p) = num(q) => p = q
      /\ \A p \in Numbered : \A i \in 1..num(p) : \E q \in Numbered : num(q) = i
  BY DEF NumbersOK
<1>4. \A p \in Numbered : num(p) <= n => p \in who /\ Place(who, p) <= num(p)
  BY DEF NumbersFree
<1>. HIDE DEF num, n
<1>5. ASSUME NEW i \in 1..n PROVE IsFiniteSet(First(i)) /\ Cardinality(First(i)) = i
  <2>. DEFINE f == [p \in First(i) |-> Place(who, p)]
  <2>1. f \in Bijection(First(i), 1..i)
    <3>1. f \in [First(i) -> 1..i]
      BY <1>1
    <3>2. \A p, q \in First(i) : f[p] = f[q] => p = q
      BY <1>1
    <3>3. \A k \in 1..i : \E p \in First(i) : f[p] = k
      <4>. SUFFICES ASSUME NEW k \in 1..i PROVE \E p \in First(i) : f[p] = k
        OBVIOUS
      <4>1. k \in 1..n /\ k <= i
        BY <1>1
      <4>2. PICK p \in who : Place(who, p) = k
        BY <1>1, <4>1
      <4>. QED
        BY <4>1, <4>2
    <3>. HIDE DEF f
    <3>. QED
      BY <3>1, <3>2, <3>3 DEF Bijection, Injection, Surjection, IsInjective
  <2>2. IsFiniteSet(First(i))
    BY <1>1, FS_Subset
  <2>3. Cardinality(1..i) = i
    BY FS_Interval
  <2>. QED
    BY <2>1, <2>2, <2>3, FS_Bijection DEF ExistsBijection
<1>6. ASSUME NEW p \in Numbered, NEW i \in 1..num(p) PROVE IsFiniteSet(Upto(i)) /\ Cardinality(Upto(i)) = i
  <2>. DEFINE f == [q \in Upto(i) |-> num(q)]
  <2>1. f \in Bijection(Upto(i), 1..i)
    <3>1. f \in [Upto(i) -> 1..i]
      BY <1>2
    <3>2. \A q, s \in Upto(i) : f[q] = f[s] => q = s
      BY <1>3
    <3>3. \A k \in 1..i : \E q \in Upto(i) : f[q] = k
      <4>. SUFFICES ASSUME NEW k \in 1..i PROVE \E q \in Upto(i) : f[q] = k
        OBVIOUS
      <4>1. k \in 1..num(p) /\ k <= i
        BY <1>2
      <4>2. PICK q \in Numbered : num(q) = k
        BY <1>3, <4>1
      <4>. QED
        BY <4>1, <4>2
    <3>. HIDE DEF f
    <3>. QED
      BY <3>1, <3>2, <3>3 DEF Bijection, Injection, Surjection, IsInjective
  <2>2. IsFiniteSet(Upto(i))
    <3>1. IsFiniteSet(Players)
      BY FS_Interval, SectionNumbers DEF Players
    <3>2. Upto(i) \in SUBSET Players
      BY DEF IInv, TablesOK, Numbered
    <3>. QED
      BY <3>1, <3>2, FS_Subset
  <2>3. Cardinality(1..i) = i
    BY <1>2, FS_Interval
  <2>. QED
    BY <2>1, <2>2, <2>3, FS_Bijection DEF ExistsBijection
\* The players with the first i numbers are the first i of who.
<1>7. ASSUME NEW p \in Numbered, NEW i \in 1..num(p), i <= n PROVE Upto(i) = First(i)
  <2>1. Upto(i) \in SUBSET First(i)
    <3>. SUFFICES ASSUME NEW q \in Numbered, num(q) <= i PROVE q \in who /\ Place(who, q) <= i
      OBVIOUS
    <3>1. num(q) <= n /\ num(q) \in Nat /\ i \in Nat
      BY <1>1, <1>2, <1>7
    <3>2. q \in who /\ Place(who, q) <= num(q)
      BY <1>4, <3>1
    <3>3. Place(who, q) \in Nat
      BY <1>1, <3>2
    <3>. QED
      BY <3>1, <3>2, <3>3
  <2>2. i \in 1..n
    BY <1>2, <1>7
  <2>3. IsFiniteSet(First(i)) /\ Cardinality(First(i)) = i /\ Cardinality(Upto(i)) = i
    BY <1>5, <1>6, <2>2
  <2>. HIDE DEF Upto, First
  <2>. QED
    BY <2>1, <2>3, FS_Subset
<1>8. ASSUME NEW p \in Numbered, p \in who PROVE num(p) <= n
  <2>. SUFFICES ASSUME num(p) > n PROVE FALSE
    BY <1>1, <1>2
  <2>1. n \in 1..num(p)
    BY <1>1, <1>2, <1>8
  <2>2. p \in First(n) /\ p \notin Upto(n)
    BY <1>1, <1>2, <1>8
  <2>. QED
    BY <1>1, <1>7, <2>1, <2>2
<1>9. ASSUME NEW p \in Numbered, p \in who PROVE num(p) = Place(who, p)
  <2>. DEFINE i == num(p)
  <2>1. i \in 1..num(p) /\ i <= n /\ i \in Nat \ {0}
    BY <1>2, <1>8, <1>9
  <2>2. Place(who, p) <= i /\ Place(who, p) \in Nat \ {0}
    BY <1>1, <1>4, <1>9, <2>1
  <2>3. CASE i = 1
    BY <2>2, <2>3
  <2>4. CASE i > 1
    <3>1. i - 1 \in 1..num(p) /\ i - 1 <= n
      BY <1>1, <2>1, <2>4
    <3>2. Upto(i - 1) = First(i - 1)
      BY <1>7, <3>1
    <3>3. p \notin Upto(i - 1)
      BY <2>1
    <3>4. ~(Place(who, p) <= i - 1)
      BY <1>9, <3>2, <3>3
    <3>. QED
      BY <2>1, <2>2, <3>4
  <2>. QED
    BY <2>1, <2>3, <2>4
<1>. QED
  BY <1>1, <1>2, <1>4, <1>9 DEF num, n

\* One assignment after another.
LEMMA AssignKeeps ==
  ASSUME IInv, NumbersOK, NEW r \in Requests, AssignNumbers(r), NumbersFree(loc[r].who)
  PROVE  NumbersOK' /\ \A p \in Numbered : regs'[p].number = regs[p].number
<1>. DEFINE who == loc[r].who
            n == Cardinality(who)
            Row == [confirmed : BOOLEAN, withdrawn : BOOLEAN, number : Nat]
<1>1. who \in SUBSET Players /\ who \subseteq DOMAIN regs /\ regs \in [DOMAIN regs -> Row]
  BY Parts DEF AssignNumbers, LocOK, RequestOK, TablesOK
<1>2. regs' = [p \in DOMAIN regs |->
                 IF p \in who THEN [regs[p] EXCEPT !.number = Place(who, p)] ELSE regs[p]]
  BY DEF AssignNumbers
<1>. HIDE DEF who
<1>3. /\ n \in Nat
      /\ \A p \in who : Place(who, p) \in 1..n
      /\ \A p, q \in who : Place(who, p) = Place(who, q) => p = q
      /\ \A i \in 1..n : \E p \in who : Place(who, p) = i
  BY <1>1, WhoOK
<1>4. NumbersFree(who)
  BY DEF who
<1>5. \A p \in Numbered : (p \in who => regs[p].number = Place(who, p)) /\ (p \notin who => regs[p].number > n)
  BY <1>1, <1>4, FreeIsSame
<1>6. /\ DOMAIN regs' = DOMAIN regs
      /\ \A p \in who : regs'[p].number = Place(who, p)
      /\ \A p \in DOMAIN regs : p \notin who => regs'[p] = regs[p]
  <2>1. ASSUME NEW p \in who PROVE regs'[p].number = Place(who, p)
    <3>1. p \in DOMAIN regs /\ regs[p] \in Row
      BY <1>1
    <3>2. regs'[p] = [regs[p] EXCEPT !.number = Place(who, p)]
      BY <1>2, <3>1
    <3>. QED
      BY <3>1, <3>2
  <2>. QED
    BY <1>2, <2>1
<1>. HIDE DEF n
<1>7. \A p \in Numbered : regs'[p].number = regs[p].number
  BY <1>5, <1>6 DEF Numbered
<1>8. ASSUME NEW p \in DOMAIN regs
      PROVE  /\ p \in Numbered' => p \in who \/ (p \in Numbered /\ p \notin who)
             /\ p \in who => p \in Numbered'
             /\ p \in Numbered => p \in Numbered'
  BY <1>3, <1>6, <1>7 DEF Numbered
<1>9. Numbered' \subseteq DOMAIN regs
  BY <1>6 DEF Numbered
<1>10. \A p \in Numbered : regs[p].number \in Nat \ {0}
  BY <1>1 DEF Numbered
<1>11. ASSUME NEW p \in Numbered', NEW q \in Numbered', regs'[p].number = regs'[q].number PROVE p = q
  <2>1. CASE p \in who /\ q \in who
    BY <1>3, <1>6, <1>11, <2>1
  <2>2. CASE p \notin who /\ q \notin who
    <3>1. p \in Numbered /\ q \in Numbered /\ regs[p].number = regs[q].number
      BY <1>7, <1>8, <1>9, <1>11, <2>2
    <3>. QED
      BY <3>1 DEF NumbersOK
  <2>3. ASSUME NEW s \in who, NEW t \in Numbered', t \notin who PROVE regs'[s].number # regs'[t].number
    <3>1. regs'[s].number = Place(who, s) /\ Place(who, s) \in 1..n
      BY <1>3, <1>6
    <3>2. t \in Numbered /\ regs'[t].number > n /\ regs'[t].number \in Nat
      BY <1>5, <1>7, <1>8, <1>9, <1>10, <2>3
    <3>. QED
      BY <1>3, <3>1, <3>2
  <2>. QED
    BY <1>11, <2>1, <2>2, <2>3
<1>12. ASSUME NEW p \in Numbered', NEW i \in 1..regs'[p].number
       PROVE  \E q \in Numbered' : regs'[q].number = i
  <2>1. CASE i <= n
    <3>1. regs'[p].number \in Nat
      BY <1>3, <1>6, <1>7, <1>8, <1>9, <1>10
    <3>2. i \in 1..n
      BY <1>3, <2>1, <3>1
    <3>3. PICK q \in who : Place(who, q) = i
      BY <1>3, <3>2
    <3>. QED
      BY <1>1, <1>6, <1>8, <3>3
  <2>2. CASE i > n
    <3>1. p \notin who
      BY <1>3, <1>6, <2>2
    <3>2. p \in Numbered /\ i \in 1..regs[p].number
      BY <1>7, <1>8, <1>9, <3>1
    <3>3. PICK q \in Numbered : regs[q].number = i
      BY <3>2 DEF NumbersOK
    <3>. QED
      BY <1>7, <1>8, <3>3 DEF Numbered
  <2>3. i \in Int /\ n \in Int
    BY <1>3
  <2>. QED
    BY <2>1, <2>2, <2>3
<1>. QED
  BY <1>7, <1>11, <1>12 DEF NumbersOK

\* Whatever else the step does.
LEMMA NumbersKeep ==
  ASSUME IInv, NumbersOK, [Next]_vars
  PROVE  NumbersOK' /\ \A p \in Numbered : regs'[p].number = regs[p].number
<1>. DEFINE Row == [confirmed : BOOLEAN, withdrawn : BOOLEAN, number : Nat]
<1>0. regs \in [DOMAIN regs -> Row]
  BY DEF IInv, TablesOK
<1>1. ASSUME /\ DOMAIN regs \subseteq DOMAIN regs'
             /\ \A p \in DOMAIN regs' :
                  regs'[p].number = IF p \in DOMAIN regs THEN regs[p].number ELSE 0
      PROVE  NumbersOK' /\ \A p \in Numbered : regs'[p].number = regs[p].number
  <2>1. Numbered' = Numbered /\ \A p \in Numbered : regs'[p].number = regs[p].number
    BY <1>1 DEF Numbered
  <2>. QED
    BY <2>1 DEF NumbersOK
<1>2. CASE UNCHANGED regs
  BY <1>1, <1>2
<1>3. ASSUME NEW r \in Requests, Register(r), ~UNCHANGED regs
      PROVE  NumbersOK' /\ \A p \in Numbered : regs'[p].number = regs[p].number
  BY <1>1, <1>3 DEF Register
<1>4. ASSUME NEW r \in Requests, Withdraw(r)
      PROVE  NumbersOK' /\ \A p \in Numbered : regs'[p].number = regs[p].number
  BY <1>0, <1>1, <1>4 DEF Withdraw
<1>5. ASSUME NEW p \in Players, Confirm(p)
      PROVE  NumbersOK' /\ \A q \in Numbered : regs'[q].number = regs[q].number
  BY <1>0, <1>1, <1>5 DEF Confirm
<1>6. ASSUME NEW r \in Requests, AssignNumbers(r)
      PROVE  NumbersOK' /\ \A p \in Numbered : regs'[p].number = regs[p].number
  BY <1>2, <1>6, AssignKeeps DEF AssignNumbers
<1>7. ASSUME NEW r \in Requests, Step(r), ~Register(r), ~Withdraw(r), ~AssignNumbers(r)
      PROVE  UNCHANGED regs
  BY <1>7 DEF Step, BeginRegister, CountRegistrations, BeginWithdraw, BeginStatus, ChangeStatus,
     BeginGenerate, ReadLatest, ReadActive, ReadUnnumbered, ReadSeats, CreateRound, BeginResult,
     CheckResult, ReadBefore, EnterResult, BeginComplete, CheckComplete, CompleteRound,
     ReadParticipants, ReadHistory, UpsertStandings, Crash, Begin, Local, tables
<1>8. CASE UNCHANGED vars
  BY <1>2, <1>8 DEF vars
<1>. QED
  BY <1>2, <1>3, <1>4, <1>5, <1>6, <1>7, <1>8 DEF Next

\* However the requests for a round interleave, the pairing numbers are 1, 2, 3,
\* ..., each one player's, and whoever has one keeps it (assignPairingNumbers).
THEOREM NumbersAlwaysStay == Spec => []NumbersOK /\ NumbersStay
<1>1. Init => IInv /\ NumbersOK
  BY InitOK
<1>2. IInv /\ NumbersOK /\ [Next]_vars => (IInv /\ NumbersOK)'
  BY StepKeeps, NumbersKeep
<1>3. IInv /\ NumbersOK /\ [Next]_vars => [\A p \in Numbered : regs'[p].number = regs[p].number]_vars
  BY NumbersKeep
<1>. QED
  BY <1>1, <1>2, <1>3, PTL DEF Spec, NumbersStay
=============================================================================
