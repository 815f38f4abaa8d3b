----------------------------- MODULE MCRequest ------------------------------
(***************************************************************************)
(* The stages of a request: the entry points, the preparation of a group   *)
(* and its hashes, and the byte rules on encodings; this module extends    *)
(* theirs.  Each behaviour runs one of them, the others rest before their  *)
(* first call.                                                             *)
(***************************************************************************)
EXTENDS Entry, SigPrep, Encoding, MultiHash

VARIABLE stage

\* Entry: every input for the single entry points; batches of one to six inputs
\* that the profiles, or the byte and point comparisons, tell apart.
Single == [pub : {"nil", "plain", "small", "invalid"}, size : BOOLEAN, s : BOOLEAN, rSmall : BOOLEAN,
           rCanonical : BOOLEAN, holds : BOOLEAN]
good == [pub |-> "plain", size |-> TRUE, s |-> TRUE, rSmall |-> FALSE, rCanonical |-> TRUE, holds |-> TRUE]
weak == [good EXCEPT !.pub = "small"]
alias == [good EXCEPT !.rCanonical = FALSE]
missing == [good EXCEPT !.pub = "nil"]
EntryBatches ==
  UNION {[1 .. n -> {good, weak, alias}] : n \in 1 .. 3}
  \cup {<<good, alias, weak, good>> \o s : s \in UNION {[1 .. n -> {weak, alias, missing}] : n \in 0 .. 2}}

\* Groups of up to three of two inputs, one of which only the strict rules
\* refuse: under the two rule sets, every pattern of live and dead items.
GroupInput(n, faults) == [faults |-> faults, r |-> <<"r", n>>, s |-> <<"s", n>>, a |-> <<"a", n>>, m |-> <<"m", n>>]
Inputs == {GroupInput(1, {}), GroupInput(2, {"smallR"})}

\* Blocks of eight bytes.  The shapes end just before, at and after the length
\* field, at a block, with empty segments, and in the fixed sizes, whose tails
\* have zero, one and two bytes.
Shapes == {<<2, 2, 4>>, <<2, 2, 13>>, <<2, 2, 22>>, <<2, 2, 1>>, <<2, 2, 2>>, <<2, 2, 3>>,
           <<0, 0, 8>>, <<0, 0, 0>>, <<3, 0, 17>>, <<8>>, <<>>}
MessageBatches ==
  UNION {[1 .. n -> Shapes] : n \in 0 .. 2}
  \cup [1 .. 3 -> {<<2, 2, 4>>, <<2, 2, 13>>, <<2, 2, 22>>, <<0, 0, 8>>, <<2, 2, 2>>}]
  \cup [1 .. 4 -> {<<2, 2, 13>>, <<2, 2, 2>>, <<2, 2, 22>>}]
Sizes == {4, 13, 22}

-----------------------------------------------------------------------------
EntryIdle == Init /\ backend = "generic" /\ ~pair
BytesIdle == encoding = <<>>
HashIdle == HashInit /\ batch = <<>> /\ kind = "x4" /\ ~available

RequestInit ==
  \/ stage = "entry" /\ Init /\ BytesIdle /\ PrepInit /\ HashIdle
  \/ stage = "bytes" /\ EncodingInit /\ EntryIdle /\ PrepInit /\ HashIdle
  \/ stage = "prepare" /\ EntryIdle /\ BytesIdle /\ PrepInit /\ HashIdle
  \/ stage = "hash" /\ EntryIdle /\ BytesIdle /\ PrepInit /\ HashInit

RequestNext ==
  /\ UNCHANGED stage
  /\ \/ stage = "entry" /\ Next /\ UNCHANGED <<encoding, prepVars, hashVars>>
     \/ stage = "bytes" /\ EncodingNext /\ UNCHANGED <<vars, prepVars, hashVars>>
     \/ stage = "prepare" /\ PrepNext /\ UNCHANGED <<vars, encoding, hashVars>>
     \/ stage = "hash" /\ HashNext /\ UNCHANGED <<vars, encoding, prepVars>>

RequestSpec == RequestInit /\ [][RequestNext]_<<vars, stage, encoding, prepVars, hashVars>>
=============================================================================
