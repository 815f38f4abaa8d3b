--------------------------- MODULE MCMultiplication ---------------------------
(***************************************************************************)
(* Scalar multiplication: the recodings of scalars, the evaluators of      *)
(* [s]B - [k]A over the tables they prepare, and the half-size equation.   *)
(* Each behaviour runs one of them, the variables of the others stay idle, *)
(* Recoding with no scalar; Multiply and BaseSplit share result.           *)
(***************************************************************************)
EXTENDS Recoding

VARIABLES
  kernel, result,
  evaluator, table, prepared, keys, s, k, active, usable, digits,      \* Multiply
  plan, acc, form, out,
  caller, items, width, half, work, coefficients, points, asked        \* BaseSplit

multiplyVars == <<evaluator, table, prepared, keys, s, k, active, usable, digits, plan, acc, form, out>>
splitVars == <<caller, items, width, half, work, coefficients, points, asked>>

\* Recoding: storage of 16 bits in bytes of 4 and words of 8; every scalar of
\* 13 bits, canonical or not.
RecodeRounds == [w \in {3, 4, 5} |-> IF w = 3 THEN 5 ELSE 4]
RecodeStarts == {64 * i : i \in 0 .. 127}

\* Two lanes and an order of five bits: spread scalars for lane 0 and the
\* extreme ones for lane 1.
SmallRounds == [w \in {2, 3} |-> IF w = 2 THEN 3 ELSE 2]
Groups == {[l \in {0, 1} |-> IF l = 0 THEN "A1" ELSE "A2"],
           [l \in {0, 1} |-> IF l = 0 THEN "A3" ELSE "A1"]}
Evaluators == INSTANCE Multiply WITH
  ByteBits <- 4, WordBits <- 4, StorageBits <- 8, ScalarBits <- 5, Order <- 19, RoundCount <- SmallRounds,
  Lanes <- {0, 1}, Keys <- {"A1", "A2", "A3"}, Groups <- Groups,
  Scalars <- {0, 1, 6, 9, 10, 13, 18, 19}, SecondLane <- {<<0, 18>>, <<19, 3>>, <<18, 17>>},
  WA <- 2, WB <- 3, PA <- 2, PB <- 1, NA <- 2, NB <- 3

\* L = 17 and a cofactor of 8: a group of 136 elements.  Lane 0 asks for
\* half-size relations of odd and even multipliers, with a key of mixed order
\* and R right or off by a torsion point, and for coefficients that must fall
\* back; lane 1 asks for the extreme relation.
\* The signature's R is off by t.
Item(multiple, tau, rho, epsilon, challenge, A, t) ==
  [s |-> multiple, tau |-> tau, rho |-> rho, epsilon |-> epsilon, A |-> A, R |-> (multiple * 8 - challenge * A + t) % 136]

\* <<tau, rho, epsilon, k>>.
Relations == {<<-3, -15, 1, 5>>, <<-3, 15, -1, 5>>, <<2, -2, -1, 1>>, <<2, 10, 1, 5>>, <<13, 13, 1, 1>>}

Sound == {Item(11, r[1], r[2], r[3], r[4], 41, 0) : r \in Relations}
         \cup {Item(11, r[1], r[2], r[3], r[4], 41, 68) : r \in {<<-3, -15, 1, 5>>, <<2, -2, -1, 1>>}}

Refused == {Item(17, 1, 3, 1, 3, 24, 0), Item(63, 127, 3, 1, 3, 24, 0), Item(5, 19, 3, 1, 3, 24, 0),
            Item(5, 3, 17, 1, 3, 24, 0), Item(5, 3, 3, 0, 1, 24, 0), Item(5, 0, 0, 1, 3, 24, 17)}

Other == Item(16, -15, -15, 1, 1, 41, 0)

Reuse == Item(0, 3, 0, 1, 0, 24, 0)

Items == Sound \cup Refused \cup {Other, Reuse}
LaneItems == {[l \in {0, 1} |-> IF l = 0 THEN a ELSE Other] : a \in Sound \cup Refused}
Later == {[l \in {0, 1} |-> IF l = 0 THEN Other ELSE Reuse]}

Split == INSTANCE BaseSplit WITH
  ByteBits <- 3, WordBits <- 3, StorageBits <- 6, ScalarBits <- 5, Order <- 17, RoundCount <- SmallRounds,
  Cofactor <- 8, X4Lanes <- 1, Items <- Items, LaneItems <- LaneItems, Later <- Later, BasePoints <- {8}

ASSUME /\ Evaluators!RecodeAssumption /\ Evaluators!MultiplyAssumption
       /\ Split!RecodeAssumption /\ Split!BaseSplitAssumption

-----------------------------------------------------------------------------
Idle == "idle"
MultiplyIdle ==
  /\ evaluator = Idle /\ table = Idle /\ prepared = Idle /\ keys = Idle /\ s = Idle /\ k = Idle
  /\ active = Idle /\ usable = Idle /\ digits = Idle /\ plan = Idle /\ acc = Idle /\ form = Idle /\ out = Idle
SplitIdle ==
  /\ caller = Idle /\ items = Idle /\ width = Idle /\ half = Idle /\ work = Idle
  /\ coefficients = Idle /\ points = Idle /\ asked = Idle

Init ==
  \/ kernel = "recode" /\ RecodeInit /\ result = Idle /\ MultiplyIdle /\ SplitIdle
  \/ kernel = "multiply" /\ Evaluators!Init /\ scalars = {} /\ SplitIdle
  \/ kernel = "split" /\ Split!Init /\ scalars = {} /\ MultiplyIdle

Next ==
  /\ UNCHANGED kernel
  /\ \/ kernel = "recode" /\ RecodeNext /\ UNCHANGED <<result, multiplyVars, splitVars>>
     \/ kernel = "multiply" /\ Evaluators!Next /\ UNCHANGED <<scalars, splitVars>>
     \/ kernel = "split" /\ Split!Next /\ UNCHANGED <<scalars, multiplyVars>>

vars == <<kernel, result, scalars, multiplyVars, splitVars>>
Spec == Init /\ [][Next]_vars

-----------------------------------------------------------------------------
\* Every evaluator returns exactly [s]B - [k]A of the keys last prepared for the
\* lanes that are active and canonical, and the identity elsewhere; a failed
\* operation leaves the caller's output as it was; no operation consumes a
\* coordinate that the previous one did not compute, and no group reaches the
\* panic for a missing table.
ResultExact ==
  kernel = "multiply" =>
    /\ Evaluators!ResultExact /\ Evaluators!OutAtomic
    /\ Evaluators!FormsFit /\ Evaluators!NoPanic

\* A usable lane of the half-size equation holds the transformed equation of
\* its own points, exactly, through reused or half-built tables and the x8 to x4
\* handoff, and gives the identity exactly when the signature equation holds
\* without clearing the cofactor; the lanes that fall back are those that must.
SplitExact ==
  kernel = "split" => Split!EquationExact /\ Split!AcceptsExact /\ Split!FallbackExact
=============================================================================
