--------------------------- MODULE VehicleProximity ---------------------------
(* The protected vehicle of a camera and the analyses of one of its clips: *)
(* an analysis loads the vehicle, is busy with the providers for a while,  *)
(* measures how near the people that they found come to the outline as it  *)
(* was loaded, and commits; the vehicle may be changed or removed          *)
(* meanwhile.  Points and heights are whole pixels; arithmetic is exact.   *)
EXTENDS Integers, Sequences, FiniteSets, SequencesExt

CONSTANTS
    Setups,        \* forms: records [outline, length, threshold, enabled], in feet and tenths of one
    Sightings,     \* what a provider may find: sequences of people [foot, height]
    MaxVehicles    \* bound: rows ever made

ASSUME VehicleAssumption ==
    /\ MaxVehicles \in Nat
    /\ \A s \in Setups :
          /\ s.outline \in Seq(Int \X Int)
          /\ s.length \in Nat \ {0} /\ s.threshold \in Nat \ {0}
    /\ \A people \in Sightings :
          /\ DOMAIN people = 1 .. Len(people) /\ Len(people) \in Nat
          /\ \A i \in DOMAIN people : people[i].foot \in Int \X Int

VARIABLES
    vehicle,       \* the camera's row: its id and its setup
    made,          \* the last row's id
    history,       \* the vehicles that have ProximityEvents of this clip
    breachEvent,   \* the vehicle in the clip's VEHICLE_PROXIMITY_BREACH event, 0 without one
    verdict        \* the analysis under way, or what the last one said

vehicleVars == <<vehicle, made, history, breachEvent, verdict>>

NoVehicle == [id |-> 0]
NoVerdict == [pc |-> "off", car |-> NoVehicle, people |-> <<>>, breached |-> FALSE]

-----------------------------------------------------------------------------
(* Geometry.  An outline is a sequence of points; the last is joined to    *)
(* the first.  It is what a person drew: it may cross itself.              *)

NextPoint(outline, i) == outline[(i % Len(outline)) + 1]

MaxSpan(outline) ==
    LET Along(axis) == {outline[i][axis] : i \in DOMAIN outline}
        Span(axis) == Max(Along(axis)) - Min(Along(axis))
    IN  Max({Span(1), Span(2)})

\* The ray to the right of p crosses the edge from a to b.
Crosses(p, a, b) ==
    /\ (a[2] > p[2]) # (b[2] > p[2])
    /\ LET side == (p[1] - a[1]) * (b[2] - a[2]) - (p[2] - a[2]) * (b[1] - a[1])
       IN  (b[2] > a[2]) = (side < 0) /\ side # 0

PointInPolygon(p, outline) ==
    Cardinality({i \in DOMAIN outline : Crosses(p, outline[i], NextPoint(outline, i))}) % 2 = 1

Dot(o, a, b) == (a[1] - o[1]) * (b[1] - o[1]) + (a[2] - o[2]) * (b[2] - o[2])
Cross(o, a, b) == (a[1] - o[1]) * (b[2] - o[2]) - (a[2] - o[2]) * (b[1] - o[1])

\* Mutant: the projection is not clamped to the segment.
SegmentDistanceUnclamped(p, a, b) ==
    IF a = b THEN <<Dot(a, p, p), 1>> ELSE <<Cross(a, b, p) * Cross(a, b, p), Dot(a, b, b)>>

\* The square of the distance of p from the segment ab, as a fraction: from
\* an end of it if p projects beyond that.
SegmentDistance(p, a, b) ==
    CASE a = b \/ Dot(a, b, p) <= 0 -> <<Dot(a, p, p), 1>>
      [] a # b /\ Dot(a, b, p) >= Dot(a, b, b) -> <<Dot(b, p, p), 1>>
      [] OTHER -> <<Cross(a, b, p) * Cross(a, b, p), Dot(a, b, b)>>

DistanceToPolygon(p, outline) ==
    LET squares == {SegmentDistance(p, outline[i], NextPoint(outline, i)) : i \in DOMAIN outline}
    IN  IF PointInPolygon(p, outline) THEN <<0, 1>>
        ELSE CHOOSE d \in squares : \A e \in squares : d[1] * e[2] <= e[1] * d[2]

\* A person of average height, 5.6 feet, at the vehicle's distance would be
\* 5.6 * span / length pixels tall; one at most 40 % off may stand there.
AtItsDepth(person, setup) ==
    LET average == 56 * MaxSpan(setup.outline)
        off == 10 * person.height * setup.length - average
    IN  average > 0 /\ 10 * off <= 4 * average /\ -10 * off <= 4 * average

\* distance_feet <= distance_threshold_feet
Breaches(square, setup) ==
    LET span == MaxSpan(setup.outline)
    IN  100 * square[1] * setup.length * setup.length
          <= setup.threshold * setup.threshold * square[2] * span * span

\* round(distance_feet, 1): the distance with this square, a fraction of square
\* tenths of a foot, rounds to n tenths or more from n - 1/2 on if n is even,
\* beyond it if n is odd.
Reaches(square, n) ==
    LET half == (2 * n - 1) * (2 * n - 1) * square[2]
    IN  IF n % 2 = 0 THEN half <= 4 * square[1] ELSE half < 4 * square[1]

\* A distance of x is at most (x * x / 100 + 100) / 2, so that n is never at
\* the end of the range.
Rounded(square) ==
    Max({0} \cup {n \in 1 .. (square[1] \div square[2]) \div 200 + 51 : Reaches(square, n)})

Tenths(square, setup) ==
    LET span == MaxSpan(setup.outline)
    IN  Rounded(<<100 * square[1] * setup.length * setup.length, square[2] * span * span>>)

EstimateProximity(setup, person) ==
    LET square == DistanceToPolygon(person.foot, setup.outline)
    IN  [tenths |-> Tenths(square, setup), breached |-> Breaches(square, setup)]

\* The first of the estimates with the least distance, as it was rounded.
ClosestBreached(setup, people) ==
    LET atDepth == {i \in DOMAIN people : AtItsDepth(people[i], setup)}
        estimate == [i \in atDepth |-> EstimateProximity(setup, people[i])]
        nearest == {i \in atDepth : \A j \in atDepth : estimate[i].tenths <= estimate[j].tenths}
    IN  atDepth # {} /\ estimate[Min(nearest)].breached

-----------------------------------------------------------------------------
VehicleInit ==
    /\ vehicle = NoVehicle /\ made = 0
    /\ history = {} /\ breachEvent = 0
    /\ verdict = NoVerdict

\* A form is saved: the row is made or changed.  Of two that overlap, each
\* writes only the columns in which it differs from what it loaded, which is
\* what one of them would do with another form; or it fails, on the unique
\* camera or on a row that is gone.
PutVehicle(setup) ==
    /\ \/ vehicle.id > 0 /\ made' = made
       \/ vehicle.id = 0 /\ made < MaxVehicles /\ made' = made + 1
    /\ vehicle' = [id |-> made', setup |-> setup]
    /\ UNCHANGED <<history, breachEvent, verdict>>

\* Its ProximityEvents go with it; the clip's Event has no reference to it.
RemoveVehicle ==
    /\ vehicle.id > 0
    /\ vehicle' = NoVehicle
    /\ history' = history \ {vehicle.id}
    /\ UNCHANGED <<made, breachEvent, verdict>>

\* An analysis gets as far as the vehicle of the camera.
LoadVehicle ==
    /\ verdict.pc # "loaded"
    /\ LET watched == vehicle.id > 0 /\ vehicle.setup.enabled /\ Len(vehicle.setup.outline) >= 3
       IN  verdict' = [NoVerdict EXCEPT !.pc = "loaded",
                                        !.car = IF watched THEN vehicle ELSE NoVehicle]
    /\ UNCHANGED <<vehicle, made, history, breachEvent>>

\* The providers have answered; what follows is one transaction.
CommitVerdict(people) ==
    /\ verdict.pc = "loaded"
    /\ LET car == verdict.car
           breached == car.id > 0 /\ ClosestBreached(car.setup, people)
       IN  /\ breached => vehicle.id = car.id    \* the foreign key of the ProximityEvent
           /\ history' = IF breached THEN history \cup {car.id} ELSE history
           /\ breachEvent' = IF breached THEN car.id ELSE breachEvent
           /\ verdict' = [pc |-> "done", car |-> car, people |-> people, breached |-> breached]
    /\ UNCHANGED <<vehicle, made>>

\* Without an answer of tier 1, or a breach of a vehicle that is gone: the
\* transaction is lost, and with it the analysis.
VerdictLost ==
    /\ verdict.pc = "loaded"
    /\ verdict' = NoVerdict
    /\ UNCHANGED <<vehicle, made, history, breachEvent>>

VehicleNext ==
    \/ \E setup \in Setups : PutVehicle(setup)
    \/ RemoveVehicle
    \/ LoadVehicle
    \/ \E people \in Sightings : CommitVerdict(people)
    \/ VerdictLost

VehicleSpec == VehicleInit /\ [][VehicleNext]_vehicleVars

-----------------------------------------------------------------------------
(* Properties *)

VehicleTypeOK ==
    /\ made \in 0 .. MaxVehicles
    /\ vehicle \in {NoVehicle} \cup [id : 1 .. made, setup : Setups]
    /\ history \subseteq 1 .. made /\ breachEvent \in 0 .. made
    /\ verdict.pc \in {"off", "loaded", "done"} /\ verdict.breached \in BOOLEAN
    /\ verdict.car \in {NoVehicle} \cup [id : 1 .. made, setup : Setups]

(* Near, said without measuring a distance: p is inside the outline, going *)
(* by a ray upwards, or it is near an edge of it: on the disc around the   *)
(* corner that the edge begins at, or in the band along the edge, of the   *)
(* threshold's radius.  Unit(setup) tenths of a foot are 10 * MaxSpan /    *)
(* length pixels.                                                          *)
UpwardRay(p, a, b) ==
    /\ (a[1] > p[1]) # (b[1] > p[1])
    /\ (a[1] < b[1]) = (Cross(a, b, p) < 0)
InsideUpwards(p, outline) ==
    Cardinality({i \in DOMAIN outline : UpwardRay(p, outline[i], NextPoint(outline, i))}) % 2 = 1

Radius(setup) == setup.threshold * MaxSpan(setup.outline)
Unit(setup) == 10 * setup.length
OnDisc(p, a, setup) ==
    Unit(setup) * Unit(setup) * Dot(a, p, p) <= Radius(setup) * Radius(setup)
InBand(p, a, b, setup) ==
    /\ Dot(a, b, p) > 0 /\ Dot(b, a, p) > 0
    /\ Unit(setup) * Unit(setup) * Cross(a, b, p) * Cross(a, b, p)
         <= Radius(setup) * Radius(setup) * Dot(a, b, b)
NearAnEdge(p, setup) ==
    \E i \in DOMAIN setup.outline :
       LET a == setup.outline[i]
       IN  OnDisc(p, a, setup) \/ InBand(p, a, NextPoint(setup.outline, i), setup)
Near(p, setup) == InsideUpwards(p, setup.outline) \/ NearAnEdge(p, setup)

\* Two people are reported at one distance, and only one of them is near: the
\* analysis goes by whom the provider named first.
TieInTenths(setup, people) ==
    \E p, q \in ToSet(people) :
        /\ AtItsDepth(p, setup) /\ AtItsDepth(q, setup)
        /\ Near(p.foot, setup) /\ ~Near(q.foot, setup)
        /\ EstimateProximity(setup, p).tenths = EstimateProximity(setup, q).tenths

\* An analysis reports a breach of the vehicle it loaded, whatever has become
\* of it since, just when somebody at its depth is near it; it never does
\* without, and misses one only on a tie.
NearIsBreach ==
    verdict.pc = "done" /\ verdict.car.id > 0 =>
        LET setup == verdict.car.setup
            someone == \E p \in ToSet(verdict.people) : AtItsDepth(p, setup) /\ Near(p.foot, setup)
        IN  /\ verdict.breached => someone
            /\ someone /\ ~TieInTenths(setup, verdict.people) => verdict.breached

\* The history of the camera's vehicle and the event of the clip agree: a
\* breach that the history shows is the one that the event names, and the
\* event names no vehicle that is still there without a line of history.
\* Nothing is left in the history of a vehicle that was removed.
EventHasHistory ==
    /\ history \subseteq {vehicle.id}
    /\ vehicle.id > 0 => (breachEvent = vehicle.id <=> vehicle.id \in history)

VehicleInv == VehicleTypeOK /\ NearIsBreach /\ EventHasHistory

-----------------------------------------------------------------------------
(* The inductive invariant: the row is the last that was made, so that the *)
(* next one has an id that no history and no event names; and what an      *)
(* analysis watches has an outline.                                        *)

RowIsLast == vehicle.id \in {0, made}
WatchedHasOutline == verdict.car.id > 0 => Len(verdict.car.setup.outline) >= 3

VehicleIInv == VehicleTypeOK /\ RowIsLast /\ WatchedHasOutline /\ EventHasHistory /\ NearIsBreach
===============================================================================
