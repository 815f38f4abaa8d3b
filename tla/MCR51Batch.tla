----------------------------- MODULE MCR51Batch -----------------------------
EXTENDS R51Batch

CONSTANTS k1, k2, Sizes

\* Groups of X4 items alternate between two keys; one item is special.
AlternatingBatches ==
  {[i \in 0 .. (n - 1) |->
      [key |-> IF (i \div X4) % 2 = 0 THEN k1 ELSE k2,
       kind |-> IF i = odd THEN kind ELSE "good"]] :
     n \in Sizes, odd \in {1, MaxChunk}, kind \in {"good", "bad", "weak", "nil"}}
=============================================================================
