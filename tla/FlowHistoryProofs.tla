-------------------------- MODULE FlowHistoryProofs --------------------------
(***************************************************************************)
(* What the imbalance returns for any snapshots, one-sided and empty ones  *)
(* among them, with resets in between, and any number of tracked levels.   *)
(* The samples follow the published formula, and while the best prices     *)
(* stand the L1 values add up to the change of the two best queues.        *)
(*                                                                         *)
(* The sum says nothing while the best prices move.  The invariant adds    *)
(* that the anchor has the best prices of the last snapshot or is that     *)
(* snapshot, so that an update either continues the sum or starts it.      *)
(***************************************************************************)
EXTENDS FlowHistory, BookLemmas

IsLadder(ladder) ==
  /\ Len(ladder) \in Nat /\ DOMAIN ladder = 1 .. Len(ladder)
  /\ \A k \in DOMAIN ladder : ladder[k].price \in Int /\ ladder[k].quantity \in Int

\* What a caller passes is a sequence of levels.
LEMMA CallersLadder ==
  ASSUME NEW side, NEW depth \in Nat, NEW ladder \in Ladders(side, depth)
  PROVE  IsLadder(ladder)
<1>1. PICK n \in Nat : ladder \in [1 .. n -> [price : Prices, quantity : Quantities]]
  BY DEF Ladders
<1>2. ladder \in Seq([price : Prices, quantity : Quantities]) /\ Len(ladder) = n
  <2> DEFINE Entries == [price : Prices, quantity : Quantities]
  <2>1. \A k \in 1 .. n : ladder[k] \in Entries
    BY <1>1
  <2>2. ladder = [k \in 1 .. n |-> ladder[k]] /\ DOMAIN ladder = 1 .. n
    BY <1>1
  <2> HIDE DEF Entries
  <2>3. ladder \in Seq(Entries)
    BY <2>1, <2>2, IsASeq
  <2>4. Len(ladder) \in Nat /\ 1 .. Len(ladder) = 1 .. n
    BY <2>2, <2>3, LenProperties
  <2>5. ASSUME NEW m \in Nat, 1 .. m = 1 .. n PROVE m = n
    <3>1. (n \in 1 .. n <=> n \in 1 .. m) /\ (m \in 1 .. n <=> m \in 1 .. m)
      BY <2>5
    <3> QED
      BY <2>5, <3>1
  <2> QED
    BY <2>3, <2>4, <2>5 DEF Entries
<1>3. ASSUME NEW k \in 1 .. n
      PROVE  ladder[k].price \in Int /\ ladder[k].quantity \in Int
  <2>1. ladder[k] \in [price : Prices, quantity : Quantities]
    BY <1>1
  <2>2. ladder[k].price \in Prices /\ ladder[k].quantity \in Quantities
    BY <2>1
  <2>3. \A m \in Quantities : m \in Int
    BY QuantitiesAssumption
  <2> QED
    BY <2>2, <2>3, PricesAssumption
<1> QED
  BY <1>1, <1>2, <1>3 DEF IsLadder

\* Snapshots are typed, and the anchor has the best prices of the last one or
\* is the last one.
FlowInv ==
  /\ ~prev.have_prev => prev = NoSnapshot
  /\ IsLadder(prev.bids) /\ IsLadder(prev.asks)
  /\ IsLadder(anchor.bids) /\ IsLadder(anchor.asks)
  /\ SameTouch(anchor, prev) \/ anchor = prev
  /\ flow \in Int
  /\ Telescopes

\* Nothing is remembered at first and after a reset.
LEMMA Forgotten ==
  /\ IsLadder(NoSnapshot.bids) /\ IsLadder(NoSnapshot.asks)
  /\ ~NoSnapshot.have_prev
  /\ \A a : ~SameTouch(a, NoSnapshot)
<1>1. Len(<<>>) = 0 /\ DOMAIN <<>> = {}
  BY EmptySeq
<1> QED
  BY <1>1 DEF IsLadder, NoSnapshot, SameTouch, TwoSided

\* The first state has no snapshot and no history.
LEMMA InitFlow == HistoryInit => FlowInv
BY Forgotten DEF HistoryInit, Init, FlowInv, Telescopes

\* While the best prices stand, an L1 value is the change of the two queues.
LEMMA StandingTouch ==
  ASSUME NEW old, NEW bids, NEW asks, old.have_prev,
         IsLadder(bids), IsLadder(asks), IsLadder(old.bids), IsLadder(old.asks),
         SameTouch(old, Rolled(old, bids, asks))
  PROVE  Sample(old, bids, asks).l1
           = (bids[1].quantity - old.bids[1].quantity)
               - (asks[1].quantity - old.asks[1].quantity)
<1>1. /\ TwoSided(old.bids, old.asks, 1) /\ TwoSided(bids, asks, 1)
      /\ bids[1].price = old.bids[1].price /\ asks[1].price = old.asks[1].price
  BY DEF SameTouch, Rolled
<1>2. Comparable(old, bids, asks, 1) /\ 1 \in 1 .. levels
  BY <1>1, LevelsAssumption DEF Comparable
<1>3. Sample(old, bids, asks).l1
        = bid_e(bids[1], old.bids[1]) - ask_e(asks[1], old.asks[1])
  BY <1>2 DEF Sample, PerLevel
<1>4. /\ bids[1].price \in Int /\ asks[1].price \in Int
      /\ bids[1].quantity \in Int /\ asks[1].quantity \in Int
      /\ old.bids[1].quantity \in Int /\ old.asks[1].quantity \in Int
  BY <1>1 DEF IsLadder, TwoSided
<1> QED
  BY <1>1, <1>3, <1>4 DEF bid_e, ask_e

\* An L1 value is an integer.
LEMMA L1Typed ==
  ASSUME NEW old, NEW bids, NEW asks,
         IsLadder(bids), IsLadder(asks), IsLadder(old.bids), IsLadder(old.asks)
  PROVE  Sample(old, bids, asks).l1 \in Int
<1>1. 1 \in 1 .. levels
  BY LevelsAssumption
<1>2. Sample(old, bids, asks).l1
        = IF Comparable(old, bids, asks, 1)
          THEN bid_e(bids[1], old.bids[1]) - ask_e(asks[1], old.asks[1])
          ELSE 0
  BY <1>1 DEF Sample, PerLevel
<1>3. CASE Comparable(old, bids, asks, 1)
  <2>1. /\ bids[1].quantity \in Int /\ asks[1].quantity \in Int
        /\ old.bids[1].quantity \in Int /\ old.asks[1].quantity \in Int
    BY <1>3 DEF IsLadder, TwoSided, Comparable
  <2>2. /\ bid_e(bids[1], old.bids[1]) \in Int
        /\ ask_e(asks[1], old.asks[1]) \in Int
    BY <2>1 DEF bid_e, ask_e
  <2> QED
    BY <1>2, <1>3, <2>2
<1> QED
  BY <1>2, <1>3

\* Every step keeps the sum exact: the queues of two snapshots with one touch
\* differ by the changes between them, and another touch starts a new sum.
LEMMA StepFlow ==
  ASSUME FlowInv, [HistoryNext]_<<prev, sample, anchor, flow>>
  PROVE  FlowInv'
<1>1. ASSUME NEW bids, NEW asks, IsLadder(bids), IsLadder(asks), update(bids, asks),
             HistoryNext
      PROVE  FlowInv'
  <2>1. /\ prev' = Rolled(prev, bids, asks)
        /\ sample'.l1 = Sample(prev, bids, asks).l1
    BY <1>1 DEF update
  <2>2. /\ prev'.have_prev /\ prev'.bids = bids /\ prev'.asks = asks
        /\ IsLadder(prev'.bids) /\ IsLadder(prev'.asks)
    BY <1>1, <2>1 DEF Rolled
  <2>3. sample'.l1 \in Int
    BY <1>1, <2>1, L1Typed DEF FlowInv
  <2>4. CASE SameTouch(anchor, prev')
    <3>1. anchor' = anchor /\ flow' = flow + sample'.l1
      BY <1>1, <2>4 DEF HistoryNext
    <3>2. SameTouch(anchor, prev)
      BY <2>4 DEF FlowInv, SameTouch
    <3>3. prev.have_prev
      BY <3>2, Forgotten DEF FlowInv
    <3>4. SameTouch(prev, prev')
      BY <2>4, <3>2 DEF SameTouch
    <3>5. sample'.l1 = (bids[1].quantity - prev.bids[1].quantity)
                         - (asks[1].quantity - prev.asks[1].quantity)
      BY <1>1, <2>1, <3>3, <3>4, StandingTouch DEF FlowInv
    <3>6. flow = (prev.bids[1].quantity - anchor.bids[1].quantity)
                   - (prev.asks[1].quantity - anchor.asks[1].quantity)
      BY <3>2 DEF FlowInv, Telescopes
    <3>7. /\ bids[1].quantity \in Int /\ asks[1].quantity \in Int
          /\ prev.bids[1].quantity \in Int /\ prev.asks[1].quantity \in Int
          /\ anchor.bids[1].quantity \in Int /\ anchor.asks[1].quantity \in Int
      BY <2>2, <2>4, <3>2 DEF FlowInv, IsLadder, SameTouch, TwoSided
    <3>8. flow' = (bids[1].quantity - anchor.bids[1].quantity)
                    - (asks[1].quantity - anchor.asks[1].quantity)
      BY <3>1, <3>5, <3>6, <3>7
    <3>9. Telescopes' /\ flow' \in Int
      BY <2>2, <2>3, <3>1, <3>8 DEF Telescopes, FlowInv
    <3> QED
      BY <2>2, <2>4, <3>1, <3>9 DEF FlowInv, IsLadder, SameTouch
  <2>5. CASE ~SameTouch(anchor, prev')
    <3>1. anchor' = prev' /\ flow' = 0
      BY <1>1, <2>5 DEF HistoryNext
    <3>2. Telescopes'
      <4> SUFFICES ASSUME SameTouch(anchor', prev') PROVE Telescopes'
        BY DEF Telescopes, SameTouch
      <4>1. bids[1].quantity \in Int /\ asks[1].quantity \in Int
        BY <2>2 DEF IsLadder, SameTouch, TwoSided
      <4> QED
        BY <2>2, <3>1, <4>1 DEF Telescopes
    <3> QED
      BY <2>2, <3>1, <3>2 DEF FlowInv, IsLadder
  <2> QED
    BY <2>4, <2>5
<1>2. ASSUME reset, HistoryNext PROVE FlowInv'
  <2>1. prev' = NoSnapshot /\ anchor' = prev' /\ flow' = 0
    BY <1>2, Forgotten DEF reset, HistoryNext
  <2> QED
    BY <2>1, Forgotten DEF FlowInv, Telescopes, SameTouch, IsLadder
<1>3. CASE UNCHANGED <<prev, sample, anchor, flow>>
  BY <1>3 DEF FlowInv, Telescopes, SameTouch, IsLadder
<1>4. levels + 1 \in Nat /\ 1 \in Nat
  BY LevelsAssumption
<1>5. CASE HistoryNext
  BY <1>1, <1>2, <1>4, <1>5, CallersLadder DEF HistoryNext, Next
<1> QED
  BY <1>3, <1>5

\* While the best prices stand, the L1 values of any updates, with resets
\* between them, telescope to the change of the best queues.
THEOREM FlowAddsUp == HistorySpec => []Telescopes
<1>1. FlowInv => Telescopes
  BY DEF FlowInv
<1>2. FlowInv /\ [HistoryNext]_<<prev, sample, anchor, flow>> => FlowInv'
  BY StepFlow
<1> QED
  BY <1>1, <1>2, InitFlow, PTL DEF HistorySpec

\* The least of four lengths.
LEMMA LeastOfFour ==
  ASSUME NEW a \in Nat, NEW b \in Nat, NEW c \in Nat, NEW d \in Nat, NEW m \in Nat
  PROVE  m <= Min({a, b, c, d}) <=> m <= a /\ m <= b /\ m <= c /\ m <= d
<1> DEFINE least == CHOOSE x \in {a, b, c, d} : \A y \in {a, b, c, d} : x <= y
<1>1. \E x \in {a, b, c, d} : \A y \in {a, b, c, d} : x <= y
  OBVIOUS
<1>2. least \in {a, b, c, d} /\ \A y \in {a, b, c, d} : least <= y
  BY <1>1
<1>3. Min({a, b, c, d}) = least
  BY DEF Min
<1> HIDE DEF least
<1> QED
  BY <1>2, <1>3

\* The contributions branch where the formula of the class comment has
\* indicators.
LEMMA IndicatorForm ==
  ASSUME NEW cur, NEW old, cur.price \in Int, cur.quantity \in Int,
         old.price \in Int, old.quantity \in Int
  PROVE  /\ bid_e(cur, old) = CksBid(cur, old)
         /\ ask_e(cur, old) = CksAsk(cur, old)
<1>1. \A q \in Int : q * 1 = q /\ q * 0 = 0
  OBVIOUS
<1>2. CASE cur.price > old.price
  BY <1>1, <1>2 DEF bid_e, ask_e, CksBid, CksAsk, Indicator
<1>3. CASE cur.price = old.price
  BY <1>1, <1>3 DEF bid_e, ask_e, CksBid, CksAsk, Indicator
<1>4. CASE cur.price < old.price
  BY <1>1, <1>4 DEF bid_e, ask_e, CksBid, CksAsk, Indicator
<1> QED
  BY <1>2, <1>3, <1>4

\* A sample, level by level.
LEMMA UpdateFollows ==
  ASSUME FlowInv, NEW bids, NEW asks, IsLadder(bids), IsLadder(asks), update(bids, asks)
  PROVE  LET old == prev
             new == prev'
             both == {m \in 1 .. levels :
                        m <= Min({Len(old.bids), Len(old.asks), Len(new.bids), Len(new.asks)})}
         IN /\ \A m \in 1 .. levels :
                 sample'.per_level[m] =
                   IF m \in both
                   THEN CksBid(new.bids[m], old.bids[m]) - CksAsk(new.asks[m], old.asks[m])
                   ELSE 0
            /\ sample'.valid <=> 1 \in both
            /\ sample'.deep = SumFunction(sample'.per_level)
<1> DEFINE both == {m \in 1 .. levels :
                     m <= Min({Len(prev.bids), Len(prev.asks), Len(bids), Len(asks)})}
<1>1. /\ prev' = Rolled(prev, bids, asks) /\ prev'.bids = bids /\ prev'.asks = asks
      /\ sample' = Sample(prev, bids, asks)
  BY DEF update, Rolled
<1>2. /\ IsLadder(prev.bids) /\ IsLadder(prev.asks)
      /\ ~prev.have_prev => Len(prev.bids) = 0
  <2>1. Len(<<>>) = 0
    BY EmptySeq
  <2> QED
    BY <2>1 DEF FlowInv, NoSnapshot
<1>3. ASSUME NEW m \in 1 .. levels
      PROVE  m \in both <=> Comparable(prev, bids, asks, m)
  <2>1. m \in both <=> /\ m <= Len(prev.bids) /\ m <= Len(prev.asks)
                       /\ m <= Len(bids) /\ m <= Len(asks)
    <3>1. /\ Len(prev.bids) \in Nat /\ Len(prev.asks) \in Nat
          /\ Len(bids) \in Nat /\ Len(asks) \in Nat
      BY <1>2 DEF IsLadder
    <3>2. m \in Nat
      BY LevelsAssumption
    <3>3. m \in both <=>
            m <= Min({Len(prev.bids), Len(prev.asks), Len(bids), Len(asks)})
      OBVIOUS
    <3> HIDE DEF both
    <3> QED
      BY <3>1, <3>2, <3>3, LeastOfFour
  <2> QED
    BY <1>2, <2>1 DEF IsLadder, Comparable, TwoSided
<1> HIDE DEF both
<1>4. ASSUME NEW m \in 1 .. levels
      PROVE  sample'.per_level[m] =
               IF m \in both
               THEN CksBid(bids[m], prev.bids[m]) - CksAsk(asks[m], prev.asks[m])
               ELSE 0
  <2>1. sample'.per_level[m] =
          IF m \in both
          THEN bid_e(bids[m], prev.bids[m]) - ask_e(asks[m], prev.asks[m])
          ELSE 0
    BY <1>1, <1>3 DEF Sample, PerLevel
  <2>2. CASE m \in both
    <3>1. /\ m \in DOMAIN prev.bids /\ m \in DOMAIN prev.asks
          /\ m \in DOMAIN bids /\ m \in DOMAIN asks
      BY <1>3, <2>2 DEF Comparable, TwoSided
    <3>2. /\ bid_e(bids[m], prev.bids[m]) = CksBid(bids[m], prev.bids[m])
          /\ ask_e(asks[m], prev.asks[m]) = CksAsk(asks[m], prev.asks[m])
      BY <1>2, <3>1, IndicatorForm DEF IsLadder
    <3> QED
      BY <2>1, <3>2
  <2> QED
    BY <2>1, <2>2
<1>5. sample'.valid <=> 1 \in both
  <2>1. 1 \in 1 .. levels
    BY LevelsAssumption
  <2> QED
    BY <1>1, <1>3, <2>1 DEF Sample
<1>6. sample'.deep = SumFunction(sample'.per_level)
  BY <1>1 DEF Sample
<1> QED
  BY <1>1, <1>4, <1>5, <1>6 DEF both

\* Whatever snapshots come, one-sided and empty ones and resets among them,
\* each sample is the published formula of the last two.
THEOREM SamplesFollowFormula == HistorySpec => FollowsFormula
<1> DEFINE Follows ==
      prev'.have_prev =>
        LET old == prev
            new == prev'
            both == {m \in 1 .. levels :
                       m <= Min({Len(old.bids), Len(old.asks), Len(new.bids), Len(new.asks)})}
        IN /\ \A m \in 1 .. levels :
                sample'.per_level[m] =
                  IF m \in both
                  THEN CksBid(new.bids[m], old.bids[m]) - CksAsk(new.asks[m], old.asks[m])
                  ELSE 0
           /\ sample'.valid <=> 1 \in both
           /\ sample'.deep = SumFunction(sample'.per_level)
<1>1. ASSUME FlowInv, HistoryNext PROVE Follows
  <2>1. ASSUME NEW bids, NEW asks, IsLadder(bids), IsLadder(asks), update(bids, asks)
        PROVE  Follows
    BY <1>1, <2>1, UpdateFollows
  <2>2. ASSUME reset PROVE Follows
    BY <2>2, Forgotten DEF reset
  <2>3. levels + 1 \in Nat /\ 1 \in Nat
    BY LevelsAssumption
  <2> HIDE DEF Follows
  <2> QED
    BY <1>1, <2>1, <2>2, <2>3, CallersLadder DEF HistoryNext, Next
<1>2. FlowInv /\ [HistoryNext]_<<prev, sample, anchor, flow>> => [Follows]_<<prev, sample>>
  <2> HIDE DEF Follows
  <2> QED
    BY <1>1
<1>3. FlowInv /\ [HistoryNext]_<<prev, sample, anchor, flow>> => FlowInv'
  BY StepFlow
<1>4. HistorySpec => [][Follows]_<<prev, sample>>
  <2> HIDE DEF Follows
  <2> QED
    BY <1>2, <1>3, InitFlow, PTL DEF HistorySpec
<1>5. [][Follows]_<<prev, sample>> <=> FollowsFormula
  BY DEF FollowsFormula
<1> QED
  BY <1>4, <1>5, PTL
==============================================================================
