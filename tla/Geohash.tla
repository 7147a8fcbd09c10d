------------------------------- MODULE Geohash -------------------------------
(***************************************************************************)
(* The codec of embed/src/api/geo/codec.rs: places on a grid of cells, the *)
(* cells around a place, and the cells a search has to look at.            *)
(*                                                                         *)
(* The earth is a cylinder here, of whole units: LonMax, half its          *)
(* circumference, is the code's MERCATOR_MAX too, meridians are parallel,  *)
(* and distances are rounded up, which changes no comparison with a whole  *)
(* radius.  A hash is a cell's column and row; interleaved, its score.     *)
(***************************************************************************)
EXTENDS Integers, Sequences, FiniteSets

LOCAL INSTANCE SequencesExt
LOCAL INSTANCE FiniteSetsExt

CONSTANTS
    Step,              \* GEO_STEP_MAX: a score has that many bits per axis
    LonMax, LatMax,    \* GEO_LON_MAX, GEO_LAT_MAX
    PoleMax,           \* the latitude of the standard range, 90 degrees in the code
    HighLats,          \* the latitudes beyond which cells are too narrow, 66 and 80
    Digits, DigitBits, \* the letters of a geohash but the last, and their bits
    Absent             \* the radius of a rectangle, a place that is none

GeohashAssumption ==
    /\ {Step, LonMax, LatMax, PoleMax, Digits, DigitBits} \subseteq Nat \ {0}
    /\ LatMax <= PoleMax
    /\ \A max \in {LonMax, LatMax, PoleMax} : (2 * max) % (2 * 2^Step) = 0
    /\ 2 * Step = Digits * DigitBits + 2
    /\ Len(HighLats) = 2

Place(lon, lat) == [lon |-> lon, lat |-> lat]
Least(a, b) == IF a < b THEN a ELSE b
Most(a, b) == IF a > b THEN a ELSE b
Clamp(n, low, high) == Most(low, Least(n, high))
Abs(n) == IF n < 0 THEN -n ELSE n

Valid(p) == p.lon \in -LonMax .. LonMax /\ p.lat \in -LatMax .. LatMax

----------------------------------------------------------------------------
(* Cells and scores.                                                       *)

\* geohash_encode: the greatest longitude and latitude fall one cell beyond
\* the last.
Offset(n, max, step) == ((n + max) * 2^step) \div (2 * max)
Encoded(p, lat, step) ==
    [lon |-> Offset(p.lon, LonMax, step), lat |-> Offset(p.lat, lat, step), step |-> step]

\* interleave64: the bits of the latitude in the even places.  Coordinates
\* have a bit more than Step, for the cell beyond the last.
Bit(n, i) == (n \div 2^i) % 2
Interleaved(h) == MapThenSumSet(LAMBDA i : (Bit(h.lat, i) + 2 * Bit(h.lon, i)) * 4^i, 0 .. Step)
Deinterleaved(n) ==
    [lat |-> MapThenSumSet(LAMBDA i : Bit(n, 2 * i) * 2^i, 0 .. Step),
     lon |-> MapThenSumSet(LAMBDA i : Bit(n, 2 * i + 1) * 2^i, 0 .. Step),
     step |-> Step]

\* align_52bits, scores_of_geohash_box.
Aligned(bits, step) == bits * 4^(Step - step)
LeastScore(h) == Aligned(Interleaved(h), h.step)
ScoreBound(h) == Aligned(Interleaved(h) + 1, h.step)

\* encode_geohash.
Score(p) == LeastScore(Encoded(p, LatMax, Step))

\* geohash_decode.
Edge(i, max, step) == (2 * max * i) \div 2^step - max
Area(h, lat) ==
    [west |-> Edge(h.lon, LonMax, h.step), east |-> Edge(h.lon + 1, LonMax, h.step),
     south |-> Edge(h.lat, lat, h.step), north |-> Edge(h.lat + 1, lat, h.step)]

\* geohash_decode_area_to_long_lat: the middle of a cell.
Middle(a) ==
    Place(Clamp((a.west + a.east) \div 2, -LonMax, LonMax),
          Clamp((a.south + a.north) \div 2, -LatMax, LatMax))

\* score_to_coord, decode_geohash.
Coord(score) == Middle(Area(Deinterleaved(score), LatMax))

\* encode_geohash_bytes: letters of the standard range; of the last only two
\* bits would be left, and it is always the first of the alphabet.
Letter(bits, i) == (bits \div 2^(2 * Step - i * DigitBits)) % 2^DigitBits
GeohashOf(p) ==
    LET bits == Interleaved(Encoded(p, PoleMax, Step))
    IN  [i \in 1 .. Digits + 1 |-> IF i = Digits + 1 THEN 0 ELSE Letter(bits, i)]

\* Mutant: the last letter is taken whole.
PlaceOfWhole(g) ==
    LET bits == MapThenSumSet(LAMBDA i : g[i] * 2^(2 * Step - i * DigitBits), 1 .. Digits - 1)
    IN  Middle(Area(Deinterleaved(bits + g[Digits + 1]), PoleMax))

\* base32_to_coords.
PlaceOf(g) ==
    LET bits == MapThenSumSet(LAMBDA i : g[i] * 2^(2 * Step - i * DigitBits), 1 .. Digits)
    IN  Middle(Area(Deinterleaved(bits + g[Digits + 1] \div 2^(DigitBits - 2)), PoleMax))

----------------------------------------------------------------------------
(* Shapes.                                                                 *)

Circle(r) == [radius |-> r, width |-> 2 * r, height |-> 2 * r]
Rectangle(w, h) == [radius |-> Absent, width |-> w, height |-> h]

SqrtUp(n) == CHOOSE d \in 0 .. 2 * (LonMax + PoleMax) : d * d >= n /\ (d = 0 \/ (d - 1) * (d - 1) < n)

\* haversine_distance: the shorter way around.
Around(a, b) == Least(Abs(a - b), 2 * LonMax - Abs(a - b))
Distance(p, q) ==
    LET x == Around(p.lon, q.lon)
        y == Abs(p.lat - q.lat)
    IN  SqrtUp(x * x + y * y)

\* bounding_box, which does not go around.
Box(p, s) ==
    [west |-> p.lon - s.width \div 2, east |-> p.lon + s.width \div 2,
     south |-> p.lat - s.height \div 2, north |-> p.lat + s.height \div 2]

\* GeoShape::contains_point, as in search_shape_internal.
ContainsPoint(p, s, q) ==
    IF s.radius # Absent THEN Distance(p, q) <= s.radius
    ELSE LET b == Box(p, s)
         IN  q.lon \in b.west .. b.east /\ q.lat \in b.south .. b.north

----------------------------------------------------------------------------
(* The cells a search looks at.                                            *)

\* estimate_steps_by_radius.
EstimatedSteps(r, lat) ==
    LET doublings == Cardinality({i \in 0 .. Step + 4 : r * 2^i < LonMax})
        narrow == Cardinality({i \in 1 .. 2 : Abs(lat) > HighLats[i]})
    IN  IF r <= 0 THEN Step ELSE Clamp(doublings - 1 - narrow, 1, Step)

\* geohash_move_x, geohash_move_y: around the edges.
Moved(h, d) ==
    [h EXCEPT !.lon = IF d[1] = 0 THEN @ ELSE (@ + d[1]) % 2^h.step,
              !.lat = IF d[2] = 0 THEN @ ELSE (@ + d[2]) % 2^h.step]

\* The cell itself and its neighbours, in the order of search_shape_internal.
Directions == << <<0, 0>>, <<0, 1>>, <<0, -1>>, <<1, 0>>, <<-1, 0>>,
                 <<1, 1>>, <<-1, 1>>, <<1, -1>>, <<-1, -1>> >>

\* Does the shape reach beyond the cells around that of its centre?
TooFine(p, r, h) ==
    \/ Distance(p, Place(p.lon, Area(Moved(h, <<0, 1>>), LatMax).north)) < r
    \/ Distance(p, Place(p.lon, Area(Moved(h, <<0, -1>>), LatMax).south)) < r
    \/ Distance(p, Place(Area(Moved(h, <<1, 0>>), LatMax).east, p.lat)) < r
    \/ Distance(p, Place(Area(Moved(h, <<-1, 0>>), LatMax).west, p.lat)) < r

\* Mutant: the first guess stands.
CentreCellGuessed(p, r) == Encoded(p, LatMax, EstimatedSteps(r, p.lat))

CentreCell(p, r) ==
    LET step == EstimatedSteps(r, p.lat)
        fine == Encoded(p, LatMax, step)
    IN  IF step > 1 /\ TooFine(p, r, fine) THEN Encoded(p, LatMax, step - 1) ELSE fine

\* Mutant: the sides mixed up.
NeededSwapped(d, area, box) ==
    /\ d[2] = -1 => area.south >= box.south
    /\ d[2] = 1 => area.north <= box.north
    /\ d[1] = -1 => area.west < box.west
    /\ d[1] = 1 => area.east > box.east

\* A neighbour is left out when the shape ends before it.
Needed(d, area, box) ==
    /\ d[2] = -1 => area.south >= box.south
    /\ d[2] = 1 => area.north <= box.north
    /\ d[1] = -1 => area.west >= box.west
    /\ d[1] = 1 => area.east <= box.east

\* Mutant: cells that are the same by going around are looked at again.
CellsAgain(h, box) ==
    LET needed == SelectSeq(Directions, LAMBDA d : h.step < 2 \/ Needed(d, Area(h, LatMax), box))
    IN  FoldLeft(LAMBDA cells, d : Append(cells, Moved(h, d)), <<>>, needed)

\* The end of get_areas_by_shape_wgs84, and the cells of search_shape_internal
\* each once.
CellsAround(h, box) ==
    LET needed == SelectSeq(Directions, LAMBDA d : h.step < 2 \/ Needed(d, Area(h, LatMax), box))
        add(cells, d) == IF Moved(h, d) \in ToSet(cells) THEN cells ELSE Append(cells, Moved(h, d))
    IN  FoldLeft(add, <<>>, needed)

\* get_areas_by_shape_wgs84.
Cells(p, s) ==
    LET r == IF s.radius # Absent THEN s.radius
             ELSE SqrtUp((s.width \div 2) * (s.width \div 2) + (s.height \div 2) * (s.height \div 2))
    IN  CellsAround(CentreCell(p, r), Box(p, s))
=============================================================================
