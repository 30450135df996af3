---------------------------- MODULE MCMarketData ----------------------------
(* MarketData for TLC: two months of two days; two trades a day, which share    *)
(* a timestamp on the first.  The warm-up's window has three past days, so      *)
(* that a cached day may lie between two missing ones.                          *)
EXTENDS MarketData

TwoDayMonths(d) == (d + 1) \div 2
FirstOfTwo(m) == 2 * m - 1
LastOfTwo(m) == IF 2 * m > LastDay THEN LastDay ELSE 2 * m
FewRequests == {[from |-> 1, to |-> 3, forced |-> {}], [from |-> 2, to |-> 3, forced |-> {1}]}
TogetherOnDayOne(t) == IF t[1] = 1 THEN 1 ELSE t[2]
=============================================================================
