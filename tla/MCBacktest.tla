----------------------------- MODULE MCBacktest -----------------------------
(* Bins of two: up to three of them, with rows that do not count anywhere    *)
(* before, within and between them. Mids are around 100000 ticks, where six  *)
(* digits stop to show a half: 99999.5 is written as it is, 100000.5 and     *)
(* 100001.5 go to the even neighbour, down and up. Four predictions between, *)
(* on and beyond bands that are multiples of their deviation, rounded down.  *)
EXTENDS Backtest

IntPreds == {-3, -1, 0, 2}

IntGrid == <<0, 1, 2>>

IntReturns == {-2, 2}

IntStd(s) ==
  LET n == Len(s)
      sum == FoldSeq(+, 0, s)
      squares == FoldSeq(LAMBDA x, total : total + x * x, 0, s)
  IN Max({k \in 0 .. 3 : k * k * n * n <= n * squares - sum * sum})
=============================================================================
