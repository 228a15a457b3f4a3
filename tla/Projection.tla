----------------------------- MODULE Projection -----------------------------
(***************************************************************************)
(* project_to_ground of meshsa.cv.geo: the ray through a pixel onto the    *)
(* ground, flat or not.                                                    *)
(*                                                                         *)
(* Angles are multiples of Step degrees.  A pixel is how far it is off the *)
(* axis, right and down; a camera rolls by quarter turns.  Cotangents are  *)
(* in tenths, rounded, and heights multiples of ten, so that ranges are    *)
(* integers.  A place is a range along an azimuth; the ground beyond the   *)
(* edge, all around, is higher or lower than where the camera is.          *)
(***************************************************************************)
EXTENDS Integers, Sequences, SequencesExt

CONSTANTS
    Heights,    \* heights of the camera above the ground below it
    Rises,      \* heights of the ground beyond the edge
    MaxIters    \* bound on terrain_iters

ConstantsOK == Heights \subseteq Int /\ Rises \subseteq Int /\ MaxIters \in Nat

VARIABLE prQuery   \* a pose, a pixel, and the ground

Step == 15
Edge == 20

Queries ==
    {q \in [height : Heights, heading : {0, 270}, pitch : {0, 60, 90}, right : {-30, 0},
            down : {-45, -15, 0, 15, 45}, roll : {0, 90, 180}, terrain : BOOLEAN, rise : Rises,
            iters : 0..MaxIters] : q.terrain \/ (q.rise = 0 /\ q.iters = 0)}

Init == prQuery \in Queries

Cos == [a \in {0, 90, 180, 270} |-> IF a = 0 THEN 1 ELSE IF a = 180 THEN -1 ELSE 0]
Sin == [a \in {0, 90, 180, 270} |-> IF a = 90 THEN 1 ELSE IF a = 270 THEN -1 ELSE 0]

\* Cotangents in tenths, of depressions from Step to 90.
Cotangent == [d \in {Step * k : k \in 1..6} |->
    CASE d = 15 -> 37 [] d = 30 -> 17 [] d = 45 -> 10 [] d = 60 -> 6 [] d = 75 -> 3 [] d = 90 -> 0]

\* The rotation of the image about the optical axis.
Rolled(q) ==
    [right |-> q.right * Cos[q.roll] - q.down * Sin[q.roll],
     down |-> q.right * Sin[q.roll] + q.down * Cos[q.roll]]

\* Where a ray points; past straight down it meets the ground behind the camera.
Ray(q) ==
    LET off == Rolled(q)
        depression == q.pitch + off.down
        azimuth == (q.heading + off.right) % 360
    IN  IF depression > 90
        THEN [depression |-> 180 - depression, azimuth |-> (azimuth + 180) % 360]
        ELSE [depression |-> depression, azimuth |-> azimuth]

\* Terrain.elevation_m, at a range from the camera.
Elevation(q, range) == IF range >= Edge THEN q.rise ELSE 0

GroundRange(height, ray) == (height * Cotangent[ray.depression]) \div 10

\* One turn of the refinement, over the height of the ground at the last hit: the new range,
\* or none if the ground rises above the camera there.
Refine(q, ranges) ==
    LET heights == {q.height - (Elevation(q, r) - Elevation(q, 0)) : r \in ranges}
    IN  {GroundRange(h, Ray(q)) : h \in {e \in heights : e > 0}}

\* project_to_ground: a fix, or none if there is no height or the ray does not come down.
Project(q) ==
    LET ray == Ray(q)
        turns == IF q.terrain THEN [i \in 1 .. q.iters |-> i] ELSE <<>>
    IN  IF q.height <= 0 \/ ray.depression < Step THEN {}
        ELSE {[azimuth |-> ray.azimuth, range |-> r] :
                r \in FoldLeft(LAMBDA ranges, i : Refine(q, ranges),
                               {GroundRange(q.height, ray)}, turns)}

\* The replay harness puts its detections where the true pose sees them (_truth_to_pixel): the
\* pixel of a place, or none if it is not ahead, or not in the image.
Depression(height, range) ==
    CHOOSE d \in DOMAIN Cotangent : GroundRange(height, [depression |-> d]) = range
Half == 45
TruthToPixel(q, place) ==
    LET bearing == IF place.range <= 0 THEN q.heading ELSE place.azimuth
        down == Depression(q.height, place.range) - q.pitch
        right == ((bearing - q.heading + 180) % 360) - 180
    IN  IF \A off \in {right, down} : -Half <= off /\ off <= Half
        THEN {[right |-> right, down |-> down]} ELSE {}

-----------------------------------------------------------------------------
(* Properties *)

\* The point of a fix is before the camera or behind it, never at a range that makes no
\* sense, and where a camera turned about sees it too: rolling by half a turn is looking at
\* the opposite pixel.
FixesMakeSense ==
    /\ \A fix \in Project(prQuery) : fix.range >= 0 /\ fix.azimuth \in 0..359
    /\ Project(prQuery) =
           Project([prQuery EXCEPT !.roll = (@ + 180) % 360, !.right = -@, !.down = -@])

\* The replay harness and the projection are inverse to each other: a place that the harness
\* shows at a pixel is where that pixel is projected, and a place ahead is shown at the pixel
\* it was projected from.
HarnessInverse ==
    LET q == [prQuery EXCEPT !.roll = 0, !.terrain = FALSE]
    IN  \A fix \in Project(q) :
            /\ \A p \in TruthToPixel(q, fix) :
                   fix.range > 0 => Project([q EXCEPT !.right = p.right, !.down = p.down]) = {fix}
            /\ q.pitch + q.down < 90 =>
                   TruthToPixel(q, fix) = {[right |-> q.right, down |-> q.down]}

\* With a camera that looks straight down, what is above the centre of the image is as far
\* ahead as what is below it is behind.
NadirSymmetric ==
    prQuery.pitch = 90 /\ prQuery.right = 0 /\ prQuery.roll = 0 /\ prQuery.down # 0 =>
        Project([prQuery EXCEPT !.down = -@]) =
            {[range |-> f.range, azimuth |-> (f.azimuth + 180) % 360] : f \in Project(prQuery)}

\* However often the range is refined, and though it may not settle, a fix lies between those
\* of a plane as high as the highest ground and one as low as the lowest, and level ground
\* changes nothing.
TerrainBounds ==
    LET q == prQuery
        level == [q EXCEPT !.terrain = FALSE]
        highest == IF q.rise > 0 THEN q.rise ELSE 0
        lowest == IF q.rise < 0 THEN q.rise ELSE 0
    IN  /\ q.rise = 0 => Project(q) = Project(level)
        /\ \A fix \in Project(q) : q.terrain =>
               /\ \A f \in Project([level EXCEPT !.height = q.height - lowest]) :
                      fix.range <= f.range
               /\ \A f \in Project([level EXCEPT !.height = q.height - highest]) :
                      fix.range >= f.range
=============================================================================
