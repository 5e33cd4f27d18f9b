----------------------------- MODULE RoundRobin -----------------------------
(***************************************************************************)
(* The round-robin pairing engine (core/pairing/round-robin.engine): the   *)
(* Berger tables of FIDE C.04.1, built by the circle method, and the round *)
(* the engine makes of them when some of the seats are empty.              *)
(*                                                                         *)
(* A seat is a position in the order of the pairing numbers.  With an odd  *)
(* number of players the last seat of the table is a phantom's.            *)
(*                                                                         *)
(* Of two definitions of one thing the first is a plausible mistake: the   *)
(* second is the code's, and the specification uses no other.              *)
(***************************************************************************)
EXTENDS Integers, Sequences, FiniteSets, SequencesExt

\* 1..modulus, around the circle.
WrapSeat(value, modulus) == ((value - 1) % modulus) + 1

\* The seat that meets the fixed one, and the colour it has against it.
Leader(tableSize, round) == (((round - 1) * (tableSize \div 2)) % (tableSize - 1)) + 1

FirstTable(tableSize, round) ==
  IF round % 2 = 1 THEN <<Leader(tableSize, round), tableSize>>
                   ELSE <<tableSize, Leader(tableSize, round)>>

\* The <<white, black>> seats of one round, table by table.
BergerRound(tableSize, round) ==
  LET modulus == tableSize - 1
      leader  == Leader(tableSize, round)
  IN  [t \in 1..(tableSize \div 2) |->
         IF t = 1 THEN FirstTable(tableSize, round)
         ELSE <<WrapSeat(leader + (t - 1), modulus), WrapSeat(leader - (t - 1), modulus)>>]

TableSize(n) == IF n % 2 = 0 THEN n ELSE n + 1
RoundsPerLeg(n) == TableSize(n) - 1

\* The second leg repeats the first with the colours turned.
Turned(pair) == <<pair[2], pair[1]>>
ScheduledRound(n, round) ==
  LET berger == BergerRound(TableSize(n), ((round - 1) % RoundsPerLeg(n)) + 1)
  IN  IF round > RoundsPerLeg(n) THEN [t \in DOMAIN berger |-> Turned(berger[t])]
                                 ELSE berger

-----------------------------------------------------------------------------
(* pair: `active' is the set of the seats whose player is still in.        *)

CanPair(n, legs, round, active) ==
  /\ n >= 2
  /\ round \in 1..(legs * RoundsPerLeg(n))
  /\ Cardinality(active) >= 2

\* The numbers of a finite set, from the least on.
Place(S, m) == Cardinality({k \in S : k <= m})
Ascending(S) == [i \in 1..Cardinality(S) |-> CHOOSE m \in S : Place(S, m) = i]

Games(n, round, active) ==
  LET schedule == ScheduledRound(n, round)
      tables   == Ascending({t \in DOMAIN schedule : {schedule[t][1], schedule[t][2]} \subseteq active})
  IN  [i \in DOMAIN tables |-> schedule[tables[i]]]

\* Who would have met the phantom or an empty seat has a bye.
Byes(n, round, active) ==
  LET schedule == ScheduledRound(n, round)
      tables   == Ascending({t \in DOMAIN schedule : (schedule[t][1] \in active) # (schedule[t][2] \in active)})
  IN  [i \in DOMAIN tables |-> CHOOSE seat \in active : seat \in {schedule[tables[i]][1], schedule[tables[i]][2]}]

-----------------------------------------------------------------------------
(* What the tables promise. *)

Meetings(n, legs, a, b) ==
  {round \in 1..(legs * RoundsPerLeg(n)) :
     \E t \in 1..(TableSize(n) \div 2) : ScheduledRound(n, round)[t] = <<a, b>>}

Whites(n, legs, a) == UNION {Meetings(n, legs, a, b) : b \in 1..n \ {a}}
Blacks(n, legs, a) == UNION {Meetings(n, legs, b, a) : b \in 1..n \ {a}}

\* In one leg every two players meet exactly once, in two once with each colour.
EveryPairMeets(n) ==
  \A a \in 1..n, b \in 1..n : a # b =>
    /\ Cardinality(Meetings(n, 1, a, b) \cup Meetings(n, 1, b, a)) = 1
    /\ Cardinality(Meetings(n, 2, a, b)) = 1

\* A tournament of n players is complete, and fair: in one leg nobody has one
\* colour much more often than the other.  Whoever is out of a round, each of the
\* others plays or has a bye in it, once.
FairTables(n) ==
  /\ EveryPairMeets(n)
  /\ \A a \in 1..n :
       Cardinality(Whites(n, 1, a)) - Cardinality(Blacks(n, 1, a)) \in -1..1
  /\ \A round \in 1..(2 * RoundsPerLeg(n)), active \in SUBSET (1..n) :
       LET seated == FlattenSeq(Games(n, round, active)) \o Byes(n, round, active)
       IN  ToSet(seated) = active /\ IsInjective(seated)
=============================================================================
