----------------------------- MODULE FlowHistory -----------------------------
(***************************************************************************)
(* The imbalance summed over many updates.  Two history variables remember *)
(* the snapshot at which both best prices last moved, and the L1 values    *)
(* returned since; they restrict no step.                                  *)
(***************************************************************************)
EXTENDS OrderFlowImbalance

VARIABLES
  anchor,   \* the first snapshot with the best prices of the last one
  flow      \* the sum of the L1 values since the anchor

SameTouch(a, b) ==
  /\ TwoSided(a.bids, a.asks, 1)
  /\ TwoSided(b.bids, b.asks, 1)
  /\ a.bids[1].price = b.bids[1].price
  /\ a.asks[1].price = b.asks[1].price

HistoryInit == Init /\ anchor = NoSnapshot /\ flow = 0

HistoryNext ==
  /\ Next
  /\ IF SameTouch(anchor, prev')
     THEN flow' = flow + sample'.l1 /\ UNCHANGED anchor
     ELSE flow' = 0 /\ anchor' = prev'

HistorySpec == HistoryInit /\ [][HistoryNext]_<<prev, sample, anchor, flow>>

\* While the best prices stand, single contributions telescope: whatever
\* happened in between, the L1 values add up to what the bid queue gained
\* less what the ask queue gained since the prices last moved. An update
\* compared with anything but the one right before it would break the sum.
Telescopes ==
  SameTouch(anchor, prev) =>
    flow = (prev.bids[1].quantity - anchor.bids[1].quantity)
             - (prev.asks[1].quantity - anchor.asks[1].quantity)
=============================================================================
