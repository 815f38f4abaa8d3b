----------------------------- MODULE CombBuild ------------------------------
(***************************************************************************)
(* The vector builder of per-key tables (partial_comb_build.go): the       *)
(* tables of one group of keys are built lane by lane in a workspace that  *)
(* outlives the build, half written when an operation fails.  Its callers  *)
(* are the group build that publishes key objects (warm_comb_native.go,    *)
(* with the pool of backend_r51.go) and the complete verifier that         *)
(* prepares group after group (partial_comb_verify.go).                    *)
(*                                                                         *)
(* A vector has one value per lane.  A point is [of, times]: that multiple *)
(* of a named point, so that a sum of multiples of two points shows.  Its  *)
(* Z coordinate is whatever the additions left, one of Factors per entry.  *)
(***************************************************************************)
EXTENDS CombKeys, FiniteSetsExt

CONSTANTS
  Rows, Entries, RowShift,   \* table shape; RowShift = width * passes doublings
  P,                      \* prime field of the Z coordinates
  Factors,                \* entry -> lane -> Z, before the conversion
  MaxJobs                 \* bound on the jobs

TableSize == Rows * Entries
Index == 0 .. (TableSize - 1)

\* Every nonzero element has an inverse.
CombBuildAssumption ==
  /\ Rows \in Nat \ {0} /\ Entries \in Nat \ {0} /\ RowShift \in Nat \ {0}
  /\ P \in Nat \ {0, 1}
  /\ \A x \in 1 .. (P - 1) : \E y \in 1 .. (P - 1) : (x * y) % P = 1
  /\ Factors \subseteq [Index -> [CombLanes -> 0 .. (P - 1)]]
  /\ MaxJobs \in Nat

VARIABLES
  published,       \* the key objects callers have got
  map,             \* the tables of the last complete verifier
  jobs, job,       \* "none", "keys" or "verifier"
  preparing, next, \* the inputs of the verifier being prepared and its next group
  workspace,       \* [rowBase, projective, prefix, inverseZ, staged]
  stage,           \* of the build under way, the rest are its locals
  groupKeys, factors, index, doubling, multiple, inverseProduct

callerVars == <<published, map, jobs, job, preparing, next>>
localVars == <<groupKeys, factors, index, doubling, multiple, inverseProduct>>
buildVars == <<callerVars, workspace, stage, localVars>>

-----------------------------------------------------------------------------
\* Vectors.

Mixed == [of |-> "other", times |-> 0]
Add(p, q) ==
  [l \in CombLanes |-> IF p[l].of = q[l].of THEN [p[l] EXCEPT !.times = @ + q[l].times] ELSE Mixed]
Multiply(x, y) == [l \in CombLanes |-> (x[l] * y[l]) % P]
Invert(x) == [l \in CombLanes |-> CHOOSE y \in 1 .. (P - 1) : (x[l] * y) % P = 1]

Zero == [l \in CombLanes |-> 0]
NoPoints == [l \in CombLanes |-> [of |-> "none", times |-> 0]]
Bases(group) == [l \in CombLanes |-> [of |-> PointOf[group[l]], times |-> 1]]

FreshWorkspace ==
  [rowBase |-> NoPoints,
   projective |-> [i \in Index |-> [point |-> NoPoints, z |-> Zero]],
   prefix |-> [i \in Index |-> Zero],
   inverseZ |-> [i \in Index |-> Zero],
   staged |-> [i \in Index |-> [point |-> NoPoints, scale |-> Zero]]]

NoInputs == [i \in {} |-> "none"]
NoTables == [r \in {} |-> FALSE]

BuildInit ==
  /\ published = {} /\ map = NoTables /\ jobs = 0 /\ job = "none"
  /\ preparing = NoInputs /\ next = 0
  /\ workspace = FreshWorkspace /\ stage = "idle"
  /\ groupKeys = <<>> /\ factors = <<>> /\ index = 0 /\ doubling = 0
  /\ multiple = NoPoints /\ inverseProduct = Zero

\* The locals of a build are gone when it ends.
EndBuild ==
  /\ groupKeys' = <<>> /\ factors' = <<>> /\ index' = 0 /\ doubling' = 0
  /\ multiple' = NoPoints /\ inverseProduct' = Zero

EndJob ==
  /\ stage' = "idle" /\ job' = "none" /\ preparing' = NoInputs /\ next' = 0
  /\ UNCHANGED jobs

-----------------------------------------------------------------------------
\* The schedule.  Nothing but rowBase is set up: every array still holds what
\* earlier builds left.

\* Mutant: only a new workspace gets its row base.
KeptRowBase(w, group) == IF w = FreshWorkspace THEN [w EXCEPT !.rowBase = Bases(group)] ELSE w
SetRowBase(w, group) == [w EXCEPT !.rowBase = Bases(group)]

StartBuild(group, w) ==
  /\ stage' = "rows" /\ groupKeys' = group /\ factors' \in Factors
  /\ workspace' = SetRowBase(w, group) /\ multiple' = workspace'.rowBase
  /\ index' = 0 /\ doubling' = 0 /\ inverseProduct' = Zero

\* An entry is stored; then the next multiple, the doublings to the next row or,
\* after the last row, the shared inversion.
StoreEntry ==
  /\ stage = "rows"
  /\ workspace' = [workspace EXCEPT !.projective[index] = [point |-> multiple, z |-> factors[index]]]
  /\ \/ /\ (index + 1) % Entries # 0
        /\ multiple' = Add(multiple, workspace.rowBase)
        /\ index' = index + 1 /\ UNCHANGED stage
     \/ /\ (index + 1) % Entries = 0 /\ index + 1 < TableSize
        /\ index' = index + 1 /\ stage' = "double" /\ UNCHANGED multiple
     \/ /\ index + 1 = TableSize
        /\ index' = 0 /\ stage' = "prefix" /\ UNCHANGED multiple
  /\ UNCHANGED <<callerVars, groupKeys, factors, doubling, inverseProduct>>

DoubleRowBase ==
  /\ stage = "double"
  /\ workspace' = [workspace EXCEPT !.rowBase = Add(@, @)]
  /\ \/ /\ doubling + 1 < RowShift /\ doubling' = doubling + 1 /\ UNCHANGED <<stage, multiple>>
     \/ /\ doubling + 1 = RowShift /\ doubling' = 0
        /\ stage' = "rows" /\ multiple' = workspace'.rowBase
  /\ UNCHANGED <<callerVars, groupKeys, factors, index, inverseProduct>>

\* One inversion for all entries: products forward, inverses backward.
MultiplyPrefix ==
  /\ stage = "prefix"
  /\ LET z == workspace.projective[index].z IN
     workspace' = [workspace EXCEPT !.prefix[index] =
                     IF index = 0 THEN z ELSE Multiply(workspace.prefix[index - 1], z)]
  /\ \/ index + 1 < TableSize /\ index' = index + 1 /\ UNCHANGED stage
     \/ index + 1 = TableSize /\ index' = 0 /\ stage' = "invert"
  /\ UNCHANGED <<callerVars, groupKeys, factors, doubling, multiple, inverseProduct>>

\* The product of all Z is inverted unless it is zero in some lane.
Total == workspace.prefix[TableSize - 1]
InvertTotal ==
  /\ stage = "invert" /\ \A l \in CombLanes : Total[l] # 0
  /\ inverseProduct' = Invert(Total)
  /\ index' = TableSize - 1 /\ stage' = "reverse"
  /\ UNCHANGED <<callerVars, workspace, groupKeys, factors, doubling, multiple>>

InvertEntry ==
  /\ stage = "reverse"
  /\ \/ /\ index > 0
        /\ workspace' = [workspace EXCEPT !.inverseZ[index] =
                           Multiply(inverseProduct, workspace.prefix[index - 1])]
        /\ inverseProduct' = Multiply(inverseProduct, workspace.projective[index].z)
        /\ index' = index - 1 /\ UNCHANGED stage
     \/ /\ index = 0
        /\ workspace' = [workspace EXCEPT !.inverseZ[0] = inverseProduct]
        /\ stage' = "affine" /\ UNCHANGED <<index, inverseProduct>>
  /\ UNCHANGED <<callerVars, groupKeys, factors, doubling, multiple>>

\* Affine coordinates: the scale of an entry is what is left of its Z.
ConvertEntry ==
  /\ stage = "affine"
  /\ LET entry == workspace.projective[index] IN
     workspace' = [workspace EXCEPT !.staged[index] =
                     [point |-> entry.point, scale |-> Multiply(entry.z, workspace.inverseZ[index])]]
  /\ \/ index + 1 < TableSize /\ index' = index + 1 /\ UNCHANGED stage
     \/ index + 1 = TableSize /\ index' = 0 /\ stage' = "commit"
  /\ UNCHANGED <<callerVars, groupKeys, factors, doubling, multiple, inverseProduct>>

\* The table a lane of the staged group holds.
StagedTable(l) ==
  [i \in Index |-> [point |-> workspace.staged[i].point[l], scale |-> workspace.staged[i].scale[l]]]

-----------------------------------------------------------------------------
\* Group builds.

\* A refused group touches nothing.  The workspace is the one at hand, or a new
\* one: a failed worker of the backend is dropped, the pool may lose others.
BuildWarmCombKeysA6R9X4 ==
  /\ stage = "idle" /\ jobs < MaxJobs
  /\ \E group \in Builds, w \in {workspace, FreshWorkspace} : Buildable(group) /\ StartBuild(group, w)
  /\ jobs' = jobs + 1 /\ job' = "keys"
  /\ UNCHANGED <<published, map, preparing, next>>

CommitKeys ==
  /\ stage = "commit" /\ job = "keys"
  /\ published' = published \cup {[raw |-> groupKeys[l], table |-> StagedTable(l)] : l \in CombLanes}
  /\ EndBuild /\ EndJob
  /\ UNCHANGED <<map, workspace>>

-----------------------------------------------------------------------------
\* The complete verifier: a workspace of its own for all groups.

newVerifier ==
  /\ stage = "idle" /\ jobs < MaxJobs
  /\ preparing' \in {c \in Inputs : WholeGroups(c) /\ \A i \in DOMAIN c : c[i] \notin SmallOrder}
  /\ jobs' = jobs + 1 /\ job' = "verifier" /\ next' = 0 /\ stage' = "group"
  /\ map' = NoTables /\ workspace' = FreshWorkspace
  /\ UNCHANGED <<published, localVars>>

KeyGroup(g) == [l \in CombLanes |-> preparing[g * CombX4 + l]]
Groups == Cardinality(DOMAIN preparing) \div CombX4

\* A group whose keys all have tables is not built again.
PrepareGroup ==
  /\ stage = "group" /\ next < Groups /\ Buildable(KeyGroup(next))
  /\ \/ /\ \E l \in CombLanes : KeyGroup(next)[l] \notin DOMAIN map
        /\ StartBuild(KeyGroup(next), workspace)
        /\ UNCHANGED callerVars
     \/ /\ \A l \in CombLanes : KeyGroup(next)[l] \in DOMAIN map
        /\ next' = next + 1
        /\ UNCHANGED <<published, map, jobs, job, preparing, workspace, stage, localVars>>

\* A key it has met before keeps its table, a key twice in the group the first.
FirstLane(r) == Min({l \in CombLanes : groupKeys[l] = r})
CommitGroup ==
  /\ stage = "commit" /\ job = "verifier"
  /\ map' = [r \in DOMAIN map \cup {groupKeys[l] : l \in CombLanes} |->
               IF r \in DOMAIN map THEN map[r] ELSE StagedTable(FirstLane(r))]
  /\ stage' = "group" /\ next' = next + 1
  /\ EndBuild
  /\ UNCHANGED <<published, jobs, job, preparing, workspace>>

VerifierPrepared ==
  /\ stage = "group" /\ next = Groups
  /\ workspace' = FreshWorkspace /\ EndJob
  /\ UNCHANGED <<published, map, localVars>>

-----------------------------------------------------------------------------
\* Failures.

\* The arithmetic may fail at every operation; the zero check refuses a product;
\* a verifier may also fail to decode a group or to prepare its other tables.
Fallible ==
  \/ stage \in {"double", "invert", "affine"}
  \/ stage = "rows" /\ index % Entries # 0
  \/ stage \in {"prefix", "reverse"} /\ index > 0
  \/ stage = "group" /\ next < Groups
  \/ stage = "commit" /\ job = "verifier"

\* Everything written so far stays in the workspace; no object is touched.  Of a
\* verifier nothing is left.
BuildFails ==
  /\ Fallible
  /\ IF job = "verifier" THEN map' = NoTables /\ workspace' = FreshWorkspace
                         ELSE UNCHANGED <<map, workspace>>
  /\ EndBuild /\ EndJob
  /\ UNCHANGED published

BuildNext ==
  \/ BuildWarmCombKeysA6R9X4 \/ CommitKeys
  \/ newVerifier \/ PrepareGroup \/ CommitGroup \/ VerifierPrepared
  \/ StoreEntry \/ DoubleRowBase \/ MultiplyPrefix \/ InvertTotal \/ InvertEntry \/ ConvertEntry
  \/ BuildFails

BuildSpec == BuildInit /\ [][BuildNext]_buildVars

-----------------------------------------------------------------------------
\* Whatever builds failed halfway or succeeded in the workspace before, every
\* table of a published key object and of a prepared verifier holds exactly the
\* multiples of its key's point, affine, in every row; no key of small order or
\* that does not decode has one (partial_comb_build.go:164-165).
Exact(table, raw) ==
  /\ raw \notin SmallOrder /\ PointOf[raw] # "none"
  /\ \A r \in 0 .. (Rows - 1), e \in 0 .. (Entries - 1) :
       table[r * Entries + e] = [point |-> [of |-> PointOf[raw], times |-> (e + 1) * 2 ^ (r * RowShift)], scale |-> 1]
TablesExact ==
  /\ \A key \in published : Exact(key.table, key.raw)
  /\ \A r \in DOMAIN map : Exact(map[r], r)
=============================================================================
