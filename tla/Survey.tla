------------------------------- MODULE Survey -------------------------------
(***************************************************************************)
(* The pure parts of meshsa.scout: plan_boustrophedon, coverage_fraction   *)
(* that judges its path and the files it is exported to, TimeSync.align,   *)
(* and the interpolation of GriddedTerrain.                                *)
(*                                                                         *)
(* Lengths are integers in a unit of the reader's choice, in which a metre *)
(* is Metre.  The frame of a block has its least v at 0, and rows lie at   *)
(* odd multiples of half a step, so positions are doubled: V2(v) is v.     *)
(* Rounding of floats is left out.                                         *)
(***************************************************************************)
EXTENDS Integers, Sequences, FiniteSets

CONSTANTS
    Metre,     \* one metre, the least row_step
    MaxSpan,   \* bound on the size of a block
    MaxCross,  \* bound on cross_m, the footprint of the camera
    MaxTime,   \* bound on timestamps
    MaxElev    \* bound on elevations

ConstantsOK == Metre \in Nat \ {0} /\ {MaxSpan, MaxCross, MaxTime, MaxElev} \subseteq Nat

VARIABLE svQuery   \* what is asked of this module

Queries ==
    [ask : {"plan"}, span : 0..MaxSpan, cross : 1..MaxCross, overlap : 0 .. MaxCross - 1]
    \cup [ask : {"align"}, poses : UNION {[1..n -> 0..MaxTime] : n \in 0..3},
          ts : 0..MaxTime, skew : {0, 1}]
    \cup [ask : {"terrain"}, grid : UNION {[1..n -> 0..MaxElev] : n \in 1..3}, at : -4..10]

Init == svQuery \in Queries

Abs(x) == IF x < 0 THEN -x ELSE x

-----------------------------------------------------------------------------
(* survey.py *)

\* The spacing of the rows: "overlap" of the footprint is flown twice.
RowStep(cross, overlap) == IF cross - overlap < Metre THEN Metre ELSE cross - overlap

RowsInside(k, span, step) == (2 * k + 1) * step <= 2 * span

\* Rows are planned while they are within half a step of the block's end.
IsRow(k, span, step) == (2 * k + 1) * step <= 2 * span + step

\* Where they lie, doubled.
V2(k, step) == (2 * k + 1) * step

\* A row is flown from one end of the block to the other, and the next one back.
From(k, span) == IF k % 2 = 0 THEN 0 ELSE span
To(k, span) == IF k % 2 = 0 THEN span ELSE 0

\* plan_boustrophedon: two waypoints per row.
Plan(span, step) ==
    LET rows == Cardinality({k \in 0..span : IsRow(k, span, step)})
    IN  [i \in 1 .. 2 * rows |->
            LET k == (i - 1) \div 2
            IN  [u |-> IF i % 2 = 1 THEN From(k, span) ELSE To(k, span), v |-> V2(k, step)]]

\* coverage_fraction takes the waypoints in pairs, for transects with a width.
Covered(path, cross, u, v) ==
    \E i \in 1 .. Len(path) \div 2 :
        LET a == path[2 * i - 1]  b == path[2 * i]
            least == IF a.u < b.u THEN a.u ELSE b.u
            greatest == IF a.u < b.u THEN b.u ELSE a.u
        IN  /\ Abs(2 * v - a.v) <= cross
            /\ 2 * least - cross <= 2 * u /\ 2 * u <= 2 * greatest + cross

-----------------------------------------------------------------------------
(* export_mission.py *)

\* Where a mission without a home of its own is at home: at its first waypoint.
Home(path) == IF path = <<>> THEN [u |-> 0, v |-> 0] ELSE path[1]

\* to_qgc_plan: home apart, the items in order.
QgcPlan(path) ==
    [home |-> Home(path), items |-> [i \in DOMAIN path |-> [jump |-> i, at |-> path[i]]]]

\* to_ardupilot_waypoints: rows numbered from 0, the first of which is home.
Waypoints(path) ==
    [i \in 1 .. Len(path) + 1 |->
        [seq |-> i - 1, current |-> i = 1, frame |-> IF i = 1 THEN "absolute" ELSE "relative",
         at |-> IF i = 1 THEN Home(path) ELSE path[i - 1]]]

\* What a ground station makes of them.
LoadPlan(plan) == [home |-> plan.home, path |-> [i \in DOMAIN plan.items |-> plan.items[i].at]]
LoadWaypoints(rows) ==
    [home |-> rows[1].at, path |-> [i \in 1 .. Len(rows) - 1 |-> rows[i + 1].at]]

-----------------------------------------------------------------------------
(* sync.py *)

\* bisect_left of the timestamps, sorted: how many are smaller.
BisectLeft(sorted, ts) == Cardinality({i \in DOMAIN sorted : sorted[i] < ts})

Sorted(poses) ==
    CHOOSE s \in [DOMAIN poses -> 0..MaxTime] :
        /\ \A i, j \in DOMAIN s : i < j => s[i] <= s[j]
        /\ \A t \in 0..MaxTime : Cardinality({i \in DOMAIN s : s[i] = t})
                                     = Cardinality({i \in DOMAIN poses : poses[i] = t})

\* TimeSync.align: of the two poses around ts the nearer, the earlier if there are two, and
\* none beyond the skew.  A set of at most one.
Align(poses, ts, skew) ==
    LET sorted == Sorted(poses)
        i == BisectLeft(sorted, ts)
        near == {i, i + 1} \cap DOMAIN sorted
        best == {j \in near : \A h \in near : Abs(sorted[j] - ts) <= Abs(sorted[h] - ts)}
    IN  {sorted[j] : j \in {j \in best : Abs(sorted[j] - ts) <= skew /\ \A h \in best : j <= h}}

-----------------------------------------------------------------------------
(* terrain.py *)

Clampi(i, hi) == IF i < 0 THEN 0 ELSE IF i > hi THEN hi ELSE i

\* elevation_m along one axis, "at" in half cells from the first sample; the result is
\* doubled.  The other axis interpolates between two of these.
Elevation2(grid, at) ==
    LET last == Len(grid) - 1
        i0 == Clampi(at \div 2, last)
        i1 == Clampi(i0 + 1, last)
        weight == IF at <= 0 THEN 0 ELSE IF at >= 2 * last THEN 2 ELSE at - 2 * i0
    IN  grid[i0 + 1] * (2 - weight) + grid[i1 + 1] * weight

-----------------------------------------------------------------------------
(* Properties *)

\* The path that is planned for a block covers all of it by the judgement of
\* coverage_fraction, for every overlap and whatever remains after the last whole row; unless
\* the footprint itself is less than the least spacing.  It never jumps across the block.
PlanCovers ==
    svQuery.ask = "plan" /\ svQuery.overlap < svQuery.cross /\ Metre <= svQuery.cross =>
        LET path == Plan(svQuery.span, RowStep(svQuery.cross, svQuery.overlap))
        IN  /\ \A u, v \in 0..svQuery.span : Covered(path, svQuery.cross, u, v)
            /\ \A i \in 1 .. Len(path) - 1 :
                   (path[i].u = path[i + 1].u) \/ (path[i].v = path[i + 1].v)

\* Whichever file the pilot loads, the vehicle flies the path that was planned, from the same
\* home: no waypoint is taken for home, and items are numbered without a gap.
ExportsAgree ==
    svQuery.ask = "plan" /\ svQuery.overlap < svQuery.cross =>
        LET path == Plan(svQuery.span, RowStep(svQuery.cross, svQuery.overlap))
            rows == Waypoints(path)
        IN  /\ LoadPlan(QgcPlan(path)) = LoadWaypoints(rows)
            /\ LoadWaypoints(rows).path = path
            /\ \A i \in DOMAIN path : QgcPlan(path).items[i].jump = rows[i + 1].seq
            /\ \A i \in DOMAIN rows : rows[i].frame = "absolute" <=> rows[i].current

\* The pose of a detection is the nearest of all, in whatever order the poses came, and no
\* pose is used that is too far off in time.
AlignNearest ==
    svQuery.ask = "align" =>
        LET skews == {Abs(svQuery.poses[i] - svQuery.ts) : i \in DOMAIN svQuery.poses}
            found == Align(svQuery.poses, svQuery.ts, svQuery.skew)
        IN  /\ found = {} <=> \A s \in skews : s > svQuery.skew
            /\ \A t \in found : /\ Abs(t - svQuery.ts) \in skews
                                /\ \A s \in skews : Abs(t - svQuery.ts) <= s

\* The terrain goes through its samples, stays between its neighbours, and is level beyond
\* the edges of the grid.
TerrainBetween ==
    svQuery.ask = "terrain" =>
        LET g == svQuery.grid
            at == svQuery.at
            nearest(i) == g[Clampi(i, Len(g) - 1) + 1]
        IN  IF at % 2 = 0 THEN Elevation2(g, at) = 2 * nearest(at \div 2)
            ELSE Elevation2(g, at) = nearest(at \div 2) + nearest(at \div 2 + 1)
=============================================================================
