------------------------------- MODULE Entry --------------------------------
(***************************************************************************)
(* The package entry points (ed25519.go, profile.go) over each backend's   *)
(* verifier (backend_generic.go, backend_stdlib.go, backend_ifma.go,       *)
(* backend_r51.go).  A call reads the active backend and, unless its name  *)
(* says Strict, the default profile, once; other goroutines may store a    *)
(* new default at any time.  The paths to a verdict differ: a shared       *)
(* pre-pass and a backend, a raw backend that owes the pre-pass itself, a  *)
(* native kernel that fails and is replaced by the generic backend.        *)
(*                                                                         *)
(* An input is what the byte rules and the equation can tell of it.        *)
(***************************************************************************)
EXTENDS Integers, FiniteSets, Sequences

CONSTANTS
  X4,         \* r51x5.X4Lanes
  Singles,    \* inputs of the single-signature entry points
  Batches,    \* inputs of the batch entry points: sequences of inputs
  MaxSets     \* bound on calls of SetDefaultProfile

\* pub: the key bytes are missing, of small order, of no point, or plain.
\* size: the signature has 64 bytes.  s: its scalar is below l.
\* rSmall, rCanonical: about the bytes of R.
\* holds: the point R decodes to is [s]B - [k]A.
Input == [pub : {"nil", "plain", "small", "invalid"}, size : BOOLEAN, s : BOOLEAN,
          rSmall : BOOLEAN, rCanonical : BOOLEAN, holds : BOOLEAN]

Profiles == {"DalekStrict", "StdlibCompat"}
Backends == {"generic", "stdlib", "ifma", "r51"}
SingleEntries == {"Verify", "VerifyStrict", "Key.Verify", "Key.VerifyStrict"}
BatchEntries == {"VerifyBatch", "VerifyBatchStrict"}
StrictEntries == {"VerifyStrict", "Key.VerifyStrict", "VerifyBatchStrict"}

ASSUME EntryAssumption ==
  /\ X4 \in Nat \ {0} /\ MaxSets \in Nat
  /\ Singles \subseteq Input
  /\ \A b \in Batches : b \in Seq(Input)

VARIABLES
  backend,          \* active(): fixed for the process
  pair,             \* cpufeat.PreferPackedPairX8IFMA(): fixed for the process
  defaultProfile, sets,
  pc, entry, items, \* the call
  profile,          \* the profile argument of the call
  index, ok,        \* items decided so far and their verdicts
  seen              \* history: values of defaultProfile since the call began

vars == <<backend, pair, defaultProfile, sets, pc, entry, items, profile, index, ok, seen>>

-----------------------------------------------------------------------------
\* The byte rules.

rules(p) == [smallA |-> p = "DalekStrict", smallR |-> p = "DalekStrict",
             canonicalR |-> p = "DalekStrict"]

rejectedByStrict(x) == x.pub = "small" \/ (x.size /\ x.rSmall)

rejectedByProfile(p, x) ==
  x.pub = "nil" \/ (p = "DalekStrict" /\ rejectedByStrict(x))

\* sigprep.Parse.
Admitted(r, x) ==
  /\ x.pub # "nil" /\ x.size
  /\ r.smallA => x.pub # "small"
  /\ r.smallR => ~x.rSmall
  /\ r.canonicalR => x.rCanonical
  /\ x.s

packedStrictBytePrechecksX4(x) ==
  x.pub # "nil" /\ x.size /\ x.s /\ x.pub # "small" /\ ~x.rSmall /\ x.rCanonical

Decodes(x) == x.pub # "invalid"

\* Re-encoding the computed point gives canonical bytes.
ReEncodes(x) == x.holds /\ x.rCanonical

-----------------------------------------------------------------------------
\* The verifiers.  A table in pre holds the decoded -A of the same bytes.

genericVerify(p, x) == Admitted(rules(p), x) /\ Decodes(x) /\ ReEncodes(x)

\* crypto/ed25519.Verify.
stdlibVerify(x) == x.size /\ x.s /\ Decodes(x) /\ ReEncodes(x)

\* The strict profile compares points, the other one bytes.
verifyR43Pipeline(p, x) ==
  /\ Admitted(rules(p), x) /\ Decodes(x)
  /\ IF rules(p).canonicalR THEN x.holds ELSE ReEncodes(x)

\* verifyOne of ed25519.go over the generic backend: the r51 fallback.
genericOne(p, x) == ~rejectedByProfile(p, x) /\ genericVerify(p, x)

\* Verify and VerifyPair of the packed verifier, and r51Backend.verifyOne.
packedVerify(x) == packedStrictBytePrechecksX4(x) /\ Decodes(x) /\ x.holds

r51VerifyOne(p, x) ==
  /\ x.pub # "nil"
  /\ IF p = "StdlibCompat" THEN genericOne(p, x) ELSE packedVerify(x)

\* The batch pipeline: byte rules, decoding, byte comparison.
pipelineVerify(p, x) == Admitted(rules(p), x) /\ Decodes(x) /\ ReEncodes(x)

\* The path of item i in a raw batch of n.
r51RawVerify(p, x, i, n) ==
  LET full == n - (n % X4)
      tail == n % X4
      single == i > full /\ (tail = 1 \/ (tail = 2 /\ p = "DalekStrict" /\ ~pair))
      paired == i > full /\ tail = 2 /\ p = "DalekStrict" /\ pair
  IN CASE single -> r51VerifyOne(p, x)
       [] paired -> packedVerify(x)
       [] OTHER -> pipelineVerify(p, x)

-----------------------------------------------------------------------------

\* Verdict of item i when no kernel fails.  The raw interfaces skip the
\* shared pre-pass: batches of r51, and strict singles of r51 without a key.
Shared(p, x) ==
  /\ ~rejectedByProfile(p, x)
  /\ CASE backend = "generic" -> genericVerify(p, x)
       [] backend = "stdlib" -> stdlibVerify(x)
       [] backend = "ifma" -> verifyR43Pipeline(p, x)
       [] OTHER -> r51VerifyOne(p, x)

Direct(p, x, i) ==
  CASE backend # "r51" -> Shared(p, x)
    [] entry \in BatchEntries -> r51RawVerify(p, x, i, Len(items))
    [] entry \in {"Verify", "VerifyStrict"} /\ p = "DalekStrict" -> r51VerifyOne(p, x)
    [] OTHER -> Shared(p, x)

\* Precompute fails for a key that does not decode, and its methods on a nil
\* key answer FALSE; a package-level single with a nil or short key as well.
NoKey(x) == entry \in {"Key.Verify", "Key.VerifyStrict"} /\ x.pub \in {"nil", "invalid"}

Init ==
  /\ backend \in Backends /\ pair \in BOOLEAN
  /\ defaultProfile = "DalekStrict" /\ sets = 0
  /\ pc = "idle" /\ entry = "Verify" /\ items = <<>> /\ profile = "DalekStrict"
  /\ index = 0 /\ ok = <<>> /\ seen = {}

Call ==
  /\ pc = "idle"
  /\ \/ entry' \in SingleEntries /\ \E x \in Singles : items' = <<x>>
     \/ entry' \in BatchEntries /\ items' \in Batches
  /\ index' = 0 /\ ok' = <<>>
  /\ seen' = {defaultProfile}
  /\ pc' = "profile"
  /\ UNCHANGED <<backend, pair, defaultProfile, sets, profile>>

ProfileArgument ==
  IF entry \in StrictEntries THEN "DalekStrict" ELSE defaultProfile

ReadProfile ==
  /\ pc = "profile"
  /\ profile' = ProfileArgument
  /\ pc' = "verify"
  /\ UNCHANGED <<backend, pair, defaultProfile, sets, entry, items, index, ok, seen>>

\* Mutant: the default is read again for each item.
ItemProfileReread == ProfileArgument

ItemProfile == profile

VerifyItem ==
  /\ pc \in {"verify", "fallback"} /\ index < Len(items)
  /\ LET x == items[index + 1]
         verdict == IF pc = "fallback" THEN genericOne(ItemProfile, x)
                    ELSE Direct(ItemProfile, x, index + 1)
     IN ok' = Append(ok, ~NoKey(x) /\ verdict)
  /\ index' = index + 1
  /\ UNCHANGED <<backend, pair, defaultProfile, sets, pc, entry, items, profile, seen>>

\* An internal fault of a native r51 path, after any number of its verdicts:
\* the whole call is computed again by the generic backend.
Fault ==
  /\ pc = "verify" /\ backend = "r51" /\ items # <<>>
  /\ index' = 0 /\ ok' = <<>>
  /\ pc' = "fallback"
  /\ UNCHANGED <<backend, pair, defaultProfile, sets, entry, items, profile, seen>>

Return ==
  /\ pc \in {"verify", "fallback"} /\ index = Len(items)
  /\ pc' = "done"
  /\ UNCHANGED <<backend, pair, defaultProfile, sets, entry, items, profile, index, ok, seen>>

\* The caller takes the verdicts; the next call may start.
Consume ==
  /\ pc = "done"
  /\ pc' = "idle" /\ entry' = "Verify" /\ items' = <<>> /\ ok' = <<>> /\ index' = 0
  /\ profile' = "DalekStrict" /\ seen' = {}
  /\ UNCHANGED <<backend, pair, defaultProfile, sets>>

\* Anything else panics before the store.
valid == Profiles

\* Another goroutine.
SetDefaultProfile ==
  /\ sets < MaxSets
  /\ defaultProfile' \in valid
  /\ sets' = sets + 1
  /\ seen' = IF pc = "profile" \/ pc = "verify" \/ pc = "fallback"
             THEN seen \cup {defaultProfile'} ELSE seen
  /\ UNCHANGED <<backend, pair, pc, entry, items, profile, index, ok>>

Next == Call \/ ReadProfile \/ VerifyItem \/ Fault \/ Return \/ Consume \/ SetDefaultProfile

Spec == Init /\ [][Next]_vars

-----------------------------------------------------------------------------
\* Properties.

\* What the two profiles promise (profile.go), independent of any backend.
Accepts(p, x) ==
  /\ x.pub \in {"plain", "small"} /\ x.size /\ x.s /\ x.rCanonical /\ x.holds
  /\ p = "DalekStrict" => x.pub # "small" /\ ~x.rSmall

\* The verdicts of one call are those of one profile for all its items, and
\* that profile was the default at some moment of the call (or is DalekStrict
\* for the Strict entry points), whichever backend decided, whichever path an
\* item took, and wherever a native kernel failed.
OneProfile ==
  pc = "done" =>
    \E p \in IF entry \in StrictEntries THEN {"DalekStrict"} ELSE seen :
      \A i \in 1 .. Len(items) : ok[i] <=> Accepts(p, items[i])

\* The Strict entry points never accept a small-order key or R or a
\* non-canonical R, whatever SetDefaultProfile stores meanwhile.
StrictFixed ==
  entry \in StrictEntries =>
    \A i \in 1 .. Len(ok) :
      ok[i] => items[i].pub # "small" /\ ~items[i].rSmall /\ items[i].rCanonical

=============================================================================
