----------------------------- MODULE WeatherProofs ----------------------------
(***************************************************************************)
(* Proofs about Weather, for every set of places and of requests.             *)
(***************************************************************************)
EXTENDS Weather, SequenceTheorems, TLAPS

Parts == {"conditions", "forecast", "hourly"}

Request ==
    [pc : {"idle", "cache", "location", "report", "missing", "nothing", "failed"},
     kind : {"report", "key", "hourly"}, place : Places, i : Nat,
     regions : Seq(Regions) \ {<<>>}, ttl : Nat, outlived : SUBSET Parts, cut : BOOLEAN]

(* Fits, of what AccuWeather knows.                                          *)
FitsIn(p, x, loc) ==
    \/ x \in Elements(Compass(p, Static))
    \/ p.country \notin Specific \cup Least /\ <<p.country, x, p.city>> \in loc

(* What is learned is where AccuWeather knows a location of that name, and     *)
(* nothing new where there is a rule.                                        *)
LearnedThere(c, x, loc) ==
    x = Static[c] \/ (c[1] \notin Specific \cup Least /\ <<c[1], x, c[2]>> \in loc)

LearnedInv(l, loc) ==
    /\ l \in [Cities -> Regions \cup {Unknown}]
    /\ \A c \in Cities : LearnedThere(c, l[c], loc)

(* A combination is skipped by the table in the source or for a reason.       *)
SkipInv(s, u, loc) ==
    /\ s \subseteq Combos /\ u \subseteq loc
    /\ \A c \in s : c \in Skipped \cup u \/ c \notin loc

(* A look-up is at one of the client's own combinations: the place in its      *)
(* names stands, the regions it still has to try fit.  A report is of a known  *)
(* location; a request that found none stays at a combination to be skipped.  *)
RequestInv(q, s, loc) ==
    /\ q \in Request /\ q.i \in DOMAIN q.place.names
    /\ q.kind = "key" => q.pc \notin {"location", "missing"}
    /\ q.pc \in {"cache", "location", "report", "missing"} /\ q.kind # "key" =>
           \A x \in Elements(q.regions) : FitsIn(q.place, x, loc)
    /\ Forecasts(q) => Combo(q) \in loc
    /\ q.pc = "missing" => Combo(q) \in s
    /\ q.pc = "report" => \A x \in q.outlived : q.cut /\ q.ttl <= Ttl[x]

IndInv ==
    /\ located \subseteq Combos /\ LearnedInv(learned, located)
    /\ SkipInv(skip, unread, located) /\ DOMAIN req = Requests
    /\ \A r \in Requests : RequestInv(req[r], skip, located)

-----------------------------------------------------------------------------
(* What a place is.                                                          *)
LEMMA PlaceFacts ==
  ASSUME NEW p \in Places
  PROVE  /\ p.country \in Countries /\ p.city \in Names
         /\ p.names \in Seq(Names) /\ p.names # <<>> /\ 1 \in DOMAIN p.names
         /\ \A j \in DOMAIN p.names : p.names[j] \in Names
         /\ p.regions \in Seq(Regions) /\ <<p.country, p.city>> \in Cities
<1>1. p \in [country : Countries, city : Names,
             names : Seq(Names) \ {<<>>}, regions : Seq(Regions)]
  BY WeatherAssumption DEF WeatherAssumption
<1>2. p.names \in Seq(Names) /\ p.names # <<>>
  BY <1>1
<1>3. 1 \in DOMAIN p.names /\ \A j \in DOMAIN p.names : p.names[j] \in Names
  BY <1>2, ElementOfSeq
<1> QED BY <1>1, <1>2, <1>3 DEF Cities

(* compass yields at least one region, and only regions that fit.              *)
LEMMA CompassFacts ==
  ASSUME NEW p \in Places, NEW l, NEW loc, loc \subseteq Combos, LearnedInv(l, loc)
  PROVE  /\ Compass(p, l) \in Seq(Regions) \ {<<>>}
         /\ \A x \in Elements(Compass(p, l)) : FitsIn(p, x, loc)
<1> USE PlaceFacts
<1>0. None \in Regions
  BY DEF Regions
<1> DEFINE cc == <<p.country, p.city>>
<1>1. CASE p.regions = <<>>
  <2>1. Compass(p, l) = <<None>> /\ Compass(p, Static) = <<None>>
    BY <1>1 DEF Compass
  <2> QED BY <1>0, <2>1 DEF FitsIn
<1>2. CASE p.regions # <<>> /\ l[cc] # Unknown
  <2>1. l[cc] \in Regions
    BY <1>2 DEF LearnedInv
  <2>2. Compass(p, l) = <<l[cc]>>
    BY <1>2 DEF Compass
  <2>3. \A x \in Elements(Compass(p, l)) : x = l[cc]
    BY <2>2 DEF Elements
  <2>4. CASE l[cc] = Static[cc]
    <3>1. Compass(p, l) = Compass(p, Static)
      BY <1>2, <2>4 DEF Compass
    <3> QED BY <2>1, <2>2, <3>1 DEF FitsIn
  <2>5. CASE l[cc] # Static[cc]
    <3>1. cc[1] \notin Specific \cup Least /\ <<cc[1], l[cc], cc[2]>> \in loc
      BY <2>5 DEF LearnedInv, LearnedThere
    <3> QED BY <2>1, <2>2, <2>3, <3>1 DEF FitsIn
  <2> QED BY <2>4, <2>5
<1>3. CASE p.regions # <<>> /\ l[cc] = Unknown
  <2>1. Static[cc] = Unknown
    <3>1. SUFFICES ASSUME Static[cc] # Unknown PROVE FALSE
      OBVIOUS
    <3>2. <<cc[1], l[cc], cc[2]>> \in Combos
      BY <1>3, <3>1 DEF LearnedInv, LearnedThere
    <3> QED BY <1>3, <3>2, WeatherAssumption DEF Combos, WeatherAssumption
  <2>2. Compass(p, l) = Compass(p, Static)
    BY <1>3, <2>1 DEF Compass
  <2>3. Head(p.regions) \in Regions /\ p.regions[Len(p.regions)] \in Regions
    BY <1>3
  <2>4. CASE p.country \in Specific
    <3>1. Compass(p, l) = <<Head(p.regions)>>
      BY <1>3, <2>4 DEF Compass
    <3> QED BY <2>2, <2>3, <3>1 DEF FitsIn
  <2>5. CASE p.country \notin Specific /\ p.country \in Least
    <3>1. Compass(p, l) = <<p.regions[Len(p.regions)]>>
      BY <1>3, <2>5 DEF Compass
    <3> QED BY <2>2, <2>3, <3>1 DEF FitsIn
  <2>6. CASE p.country \notin Specific /\ p.country \notin Least
    <3> DEFINE n == IF Len(p.regions) < MaxFallback THEN Len(p.regions) ELSE MaxFallback
               t == SubSeq(p.regions, 1, n)
    <3>1. n \in Nat /\ n <= Len(p.regions)
      BY WeatherAssumption DEF WeatherAssumption
    <3>2. t \in Seq(Regions)
      <4> HIDE DEF n
      <4>1. \A i \in 1..n : p.regions[i] \in Regions
        <5> TAKE i \in 1..n
        <5>1. i \in 1..Len(p.regions)
          BY <3>1, LenProperties
        <5> QED BY <5>1, ElementOfSeq
      <4> QED BY <3>1, <4>1, SubSeqProperties
    <3>3. Compass(p, l) = Append(t, None)
      BY <1>3, <2>6 DEF Compass
    <3>4. Append(t, None) \in Seq(Regions) /\ Append(t, None) # <<>>
      <4> HIDE DEF t
      <4> QED BY <1>0, <3>2
    <3> HIDE DEF t
    <3> QED BY <2>2, <3>3, <3>4 DEF FitsIn
  <2> QED BY <2>4, <2>5, <2>6
<1> HIDE DEF cc
<1> QED BY <1>1, <1>2, <1>3

(* A look-up is at a combination of the client's.                            *)
LEMMA ComboFacts ==
  ASSUME NEW q \in Request, q.i \in DOMAIN q.place.names
  PROVE  /\ Combo(q) \in Combos /\ Combo(q)[1] = q.place.country
         /\ Combo(q)[3] \in Elements(q.place.names)
<1>1. q.place \in Places /\ q.regions \in Seq(Regions) /\ q.regions # <<>>
  BY DEF Request
<1>2. q.place.names[q.i] \in Names
  BY <1>1, PlaceFacts
<1>3. Head(q.regions) \in Regions
  BY <1>1, HeadTailProperties
<1> QED BY <1>1, <1>2, <1>3, PlaceFacts DEF Combo, Combos, Elements

(* The region that a look-up is at is the first of those it has to try.        *)
LEMMA HeadFits ==
  ASSUME NEW q \in Request, NEW loc, \A x \in Elements(q.regions) : FitsIn(q.place, x, loc)
  PROVE  FitsIn(q.place, Combo(q)[2], loc)
<1>1. q.regions \in Seq(Regions) /\ q.regions # <<>>
  BY DEF Request
<1>2. Combo(q)[2] = Head(q.regions)
  BY DEF Combo
<1>3. Head(q.regions) = q.regions[1] /\ 1 \in DOMAIN q.regions
  BY <1>1
<1> QED BY <1>2, <1>3 DEF Elements

-----------------------------------------------------------------------------
(* A request that is not about anything.                                     *)
LEMMA IdleFacts ==
  ASSUME NEW p \in Places, NEW kind \in {"report", "key", "hourly"}
  PROVE  LET q == Asked(p, kind) IN
         q \in Request /\ q.place = p /\ q.kind = kind /\ q.i = 1 /\ q.pc = "idle"
<1> DEFINE q == Asked(p, kind)
<1>1. q = [pc |-> "idle", kind |-> kind, place |-> p, i |-> 1, regions |-> <<None>>,
           ttl |-> 0, outlived |-> {}, cut |-> FALSE]
  BY DEF Asked
<1>2. <<None>> \in Seq(Regions) \ {<<>>}
  BY DEF Regions
<1> QED BY <1>1, <1>2 DEF Request

LEMMA EndedInv ==
  ASSUME NEW s, NEW loc, NEW answer \in {"nothing", "failed"}
  PROVE  RequestInv(Idle, s, loc) /\ RequestInv(Ended(answer), s, loc)
<1> DEFINE e == Ended(answer)
<1>1. (CHOOSE p \in Places : TRUE) \in Places
  BY WeatherAssumption DEF WeatherAssumption
<1>2. Idle \in Request /\ Idle.place \in Places /\ Idle.i = 1 /\ Idle.pc = "idle" /\ Idle.kind = "report"
  BY <1>1, IdleFacts DEF Idle
<1>3. e \in Request /\ e.place = Idle.place /\ e.i = 1 /\ e.pc = answer /\ e.kind = "report"
  BY <1>2 DEF Ended, Request
<1>4. RequestInv(Idle, s, loc)
  BY <1>2, PlaceFacts DEF RequestInv, Forecasts
<1>5. RequestInv(e, s, loc)
  <2> HIDE DEF e
  <2> QED BY <1>2, <1>3, PlaceFacts DEF RequestInv, Forecasts
<1> QED BY <1>4, <1>5

(* explore comes to a combination.                                          *)
LEMMA VisitInv ==
  ASSUME NEW q \in Request, q.i \in DOMAIN q.place.names, q.pc \in {"cache", "location"},
         q.kind # "key", NEW s, NEW loc, \A x \in Elements(q.regions) : FitsIn(q.place, x, loc)
  PROVE  RequestInv(Visit(q, s), s, loc)
<1>1. CASE Combo(q) \in s
  <2> DEFINE e == Missing(q)
  <2>1. /\ e \in Request /\ e.pc = "missing" /\ e.kind = q.kind /\ e.place = q.place
        /\ e.i = q.i /\ e.regions = q.regions
    BY DEF Missing, Request
  <2>2. Visit(q, s) = e
    BY <1>1 DEF Visit
  <2> HIDE DEF e
  <2> QED BY <1>1, <2>1, <2>2 DEF RequestInv, Forecasts, Combo
<1>2. CASE Combo(q) \notin s
  <2>1. Visit(q, s) = q
    BY <1>2 DEF Visit
  <2> QED BY <2>1 DEF RequestInv, Forecasts
<1> QED BY <1>1, <1>2

(* explore begins.                                                          *)
LEMMA ExploreInv ==
  ASSUME NEW q \in Request, q.kind # "key", NEW probe \in {"cache", "location"}, NEW s, NEW loc,
         loc \subseteq Combos, LearnedInv(learned, loc)
  PROVE  RequestInv(Explore(q, probe, s), s, loc)
<1> DEFINE e == [q EXCEPT !.pc = probe, !.i = 1, !.regions = Compass(q.place, learned)]
<1>1. q.place \in Places
  BY DEF Request
<1>2. /\ Compass(q.place, learned) \in Seq(Regions) \ {<<>>}
      /\ \A x \in Elements(Compass(q.place, learned)) : FitsIn(q.place, x, loc)
  BY <1>1, CompassFacts
<1>3. e \in Request /\ e.place = q.place /\ e.i = 1 /\ e.pc = probe
      /\ e.regions = Compass(q.place, learned) /\ e.kind = q.kind
  BY <1>2 DEF Request
<1>4. Explore(q, probe, s) = Visit(e, s)
  BY DEF Explore
<1>5. e.i \in DOMAIN e.place.names
  BY <1>1, <1>3, PlaceFacts
<1> HIDE DEF e
<1> QED BY <1>2, <1>3, <1>4, <1>5, VisitInv

(* explore goes on after a probe that found nothing: upstream only after the  *)
(* combination is among those to skip.                                      *)
LEMMA TryNextInv ==
  ASSUME NEW q, NEW s, NEW loc, loc \subseteq Combos, LearnedInv(learned, loc),
         RequestInv(q, s, loc), q.kind # "key", q.pc \in {"cache", "location"},
         q.pc = "location" => Combo(q) \in s
  PROVE  RequestInv(TryNext(q, s), s, loc)
<1>0. /\ q \in Request /\ q.place \in Places /\ q.i \in DOMAIN q.place.names /\ q.i \in Nat
      /\ q.regions \in Seq(Regions) /\ q.regions # <<>>
      /\ \A x \in Elements(q.regions) : FitsIn(q.place, x, loc)
  BY DEF RequestInv, Request
<1>1. CASE Len(q.regions) > 1
  <2> DEFINE e == [q EXCEPT !.regions = Tail(@)]
  <2>1. Tail(q.regions) \in Seq(Regions) /\ Len(Tail(q.regions)) = Len(q.regions) - 1
    BY <1>0, HeadTailProperties
  <2>2. Tail(q.regions) # <<>>
    <3> SUFFICES ASSUME Tail(q.regions) = <<>> PROVE FALSE
      OBVIOUS
    <3>1. Len(Tail(q.regions)) = 0
      BY EmptySeq
    <3>2. Len(q.regions) \in Nat
      BY <1>0
    <3>3. Len(q.regions) - 1 = 0
      BY <2>1, <3>1
    <3> DEFINE n == Len(q.regions)
    <3>4. n > 1 /\ n \in Nat /\ n - 1 = 0
      BY <1>1, <3>2, <3>3
    <3> HIDE DEF n
    <3> QED BY <3>4
  <2>3. \A x \in Elements(Tail(q.regions)) : x \in Elements(q.regions)
    <3> SUFFICES ASSUME NEW j \in DOMAIN Tail(q.regions)
                 PROVE  Tail(q.regions)[j] \in Elements(q.regions)
      BY DEF Elements
    <3>1. j \in 1..(Len(q.regions) - 1) /\ Len(q.regions) \in Nat
      BY <1>0, <2>1
    <3>2. Tail(q.regions)[j] = q.regions[j + 1]
      BY <1>0, <2>1, <3>1, HeadTailProperties
    <3>3. j + 1 \in 1..Len(q.regions)
      BY <3>1
    <3>4. j + 1 \in DOMAIN q.regions
      BY <1>0, <3>3
    <3> QED BY <3>2, <3>4 DEF Elements
  <2>4. /\ e \in Request /\ e.place = q.place /\ e.i = q.i /\ e.pc = q.pc /\ e.kind = q.kind
        /\ e.regions = Tail(q.regions)
    BY <1>0, <2>1, <2>2 DEF Request
  <2>5. TryNext(q, s) = Visit(e, s)
    BY <1>1 DEF TryNext
  <2> HIDE DEF e
  <2> QED BY <1>0, <2>3, <2>4, <2>5, VisitInv
<1>2. CASE ~(Len(q.regions) > 1) /\ q.i < Len(q.place.names)
  <2> DEFINE e == [q EXCEPT !.i = @ + 1, !.regions = Compass(q.place, learned)]
  <2>1. /\ Compass(q.place, learned) \in Seq(Regions) \ {<<>>}
        /\ \A x \in Elements(Compass(q.place, learned)) : FitsIn(q.place, x, loc)
    BY <1>0, CompassFacts
  <2>2. /\ e \in Request /\ e.place = q.place /\ e.i = q.i + 1 /\ e.pc = q.pc
        /\ e.kind = q.kind /\ e.regions = Compass(q.place, learned)
    <3>1. q.i + 1 \in Nat
      BY <1>0
    <3> HIDE DEF Compass
    <3> QED BY <1>0, <2>1, <3>1 DEF Request
  <2>3. e.i \in DOMAIN e.place.names
    BY <1>0, <1>2, <2>2, PlaceFacts
  <2>4. TryNext(q, s) = Visit(e, s)
    BY <1>2 DEF TryNext
  <2> HIDE DEF e
  <2> QED BY <2>1, <2>2, <2>3, <2>4, VisitInv
<1>3. CASE ~(Len(q.regions) > 1) /\ ~(q.i < Len(q.place.names)) /\ q.pc = "cache"
  BY <1>0, <1>3, ExploreInv DEF TryNext
<1>4. CASE ~(Len(q.regions) > 1) /\ ~(q.i < Len(q.place.names)) /\ q.pc = "location"
  <2>1. TryNext(q, s) = Visit(q, s)
    BY <1>4 DEF TryNext, Visit
  <2> QED BY <1>0, <1>4, <2>1, VisitInv
<1> QED BY <1>1, <1>2, <1>3, <1>4

-----------------------------------------------------------------------------
(* A report of a known location keeps the rest of the request.                *)
LEMMA KeptInv ==
  ASSUME NEW q, NEW s, NEW loc, NEW t \in Nat, NEW parts, RequestInv(q, s, loc),
         q.pc \in Suspended, q.kind = "key" \/ Combo(q) \in loc, DOMAIN parts \subseteq Parts,
         \A x \in DOMAIN parts : parts[x].left < t => q.cut /\ t <= Ttl[x]
  PROVE  RequestInv(Kept(q, t, parts), s, loc)
<1> DEFINE o == {x \in DOMAIN parts : parts[x].left < t}
           e == [q EXCEPT !.pc = "report", !.ttl = t, !.outlived = o]
<1>1. q \in Request /\ o \in SUBSET Parts
  BY DEF RequestInv
<1>2. \A x \in o : q.cut /\ t <= Ttl[x]
  OBVIOUS
<1>3. Kept(q, t, parts) = e
  BY DEF Kept
<1> HIDE DEF o
<1>4. /\ e \in Request /\ e.pc = "report" /\ e.kind = q.kind /\ e.place = q.place
      /\ e.i = q.i /\ e.regions = q.regions /\ e.ttl = t /\ e.outlived = o /\ e.cut = q.cut
  BY <1>1 DEF Request
<1>5. RequestInv(e, s, loc)
  <2> HIDE DEF e
  <2>1. \A x \in e.outlived : e.cut /\ e.ttl <= Ttl[x]
    BY <1>2, <1>4
  <2> QED BY <1>4, <2>1 DEF RequestInv, Forecasts, Combo, Suspended
<1> QED BY <1>3, <1>5

(* A part counts for no more than the cache keeps it, unless it is completed.  *)
LEMMA PartFacts ==
  /\ DOMAIN Ttl = Parts /\ \A x \in Parts : Ttl[x] \in Nat
  /\ \A e \in Cached \cup {Gone} : e.left \in Nat /\ e.ttl \in Nat /\ e.ttl = e.left
  /\ \A x \in Parts : \A e \in Fetched(x) : e.left \in Nat /\ e.ttl \in Nat /\ e.ttl <= e.left
  /\ \A e \in Cached \cup {Gone}, x \in Parts : \A d \in Completed(e, x) :
         d.left \in Nat /\ d.ttl \in Nat /\ (d.ttl <= d.left \/ d.ttl = Ttl[x])
<1>0. /\ MaxTtl \in Nat /\ Day \in Nat \ {0} /\ Ttl \in [Parts -> 0..MaxTtl]
      /\ \A x \in Parts : Ttl[x] \in Nat
  BY WeatherAssumption DEF WeatherAssumption, Parts
<1>1. ASSUME NEW e \in Cached \cup {Gone}
      PROVE  e.left \in Nat /\ e.ttl \in Nat /\ e.ttl = e.left
  <2>1. CASE e \in Cached
    <3>1. PICK t \in 0..MaxTtl : e = [left |-> t, ttl |-> t, there |-> TRUE]
      BY <2>1 DEF Cached
    <3>2. e.left = t /\ e.ttl = t
      BY <3>1
    <3> QED BY <1>0, <3>2
  <2>2. CASE e = Gone
    BY <2>2 DEF Gone
  <2> QED BY <2>1, <2>2
<1>2. ASSUME NEW x \in Parts, NEW e \in Fetched(x)
      PROVE  e.left \in Nat /\ e.ttl \in Nat /\ e.ttl <= e.left
  <2>1. PICK t \in Ttl[x]..MaxTtl : e = [left |-> t, ttl |-> t % Day, there |-> TRUE]
    BY DEF Fetched
  <2>2. t \in Nat
    BY <1>0, <2>1
  <2>3. t % Day \in Nat /\ t % Day <= t
    BY <1>0, <2>2
  <2>4. e.left = t /\ e.ttl = t % Day
    BY <2>1
  <2> QED BY <2>2, <2>3, <2>4
<1>3. ASSUME NEW e \in Cached \cup {Gone}, NEW x \in Parts, NEW d \in Completed(e, x)
      PROVE  d.left \in Nat /\ d.ttl \in Nat /\ (d.ttl <= d.left \/ d.ttl = Ttl[x])
  <2>1. CASE e.there
    <3>1. d = [e EXCEPT !.ttl = Ttl[x]]
      BY <2>1 DEF Completed
    <3>2. d.ttl = Ttl[x] /\ d.left = e.left
      BY <3>1 DEF Cached, Gone
    <3> QED BY <1>0, <1>1, <3>2
  <2>2. CASE ~e.there
    BY <1>2, <2>2 DEF Completed
  <2> QED BY <2>1, <2>2
<1> QED BY <1>0, <1>1, <1>2, <1>3

(* A report of two parts of which the one with the lesser TTL decides.         *)
LEMMA ReportInv ==
  ASSUME NEW q, NEW s, NEW loc, RequestInv(q, s, loc), q.pc \in Suspended,
         q.kind = "key" \/ Combo(q) \in loc,
         NEW c, NEW f, c.left \in Nat, c.ttl \in Nat, f.left \in Nat, f.ttl \in Nat,
         c.ttl <= c.left \/ (q.cut /\ c.ttl = Ttl["conditions"]),
         f.ttl <= f.left \/ (q.cut /\ f.ttl = Ttl["forecast"])
  PROVE  RequestInv(Report(q, c, f), s, loc)
<1> DEFINE t == IF c.ttl < f.ttl THEN c.ttl ELSE f.ttl
           parts == [conditions |-> c, forecast |-> f]
<1>1. t \in Nat /\ t <= c.ttl /\ t <= f.ttl
  OBVIOUS
<1>2. /\ DOMAIN parts = {"conditions", "forecast"}
      /\ parts["conditions"] = c /\ parts["forecast"] = f
  OBVIOUS
<1>3. Report(q, c, f) = Kept(q, t, parts)
  BY DEF Report
<1> HIDE DEF t, parts
<1>4. c.left < t => q.cut
  BY <1>1
<1>5. f.left < t => q.cut
  BY <1>1
<1>6. c.left < t => t <= Ttl["conditions"]
  BY <1>1
<1>7. f.left < t => t <= Ttl["forecast"]
  BY <1>1
<1>8. \A x \in DOMAIN parts : parts[x].left < t => q.cut /\ t <= Ttl[x]
  BY <1>2, <1>4, <1>5, <1>6, <1>7
<1>9. DOMAIN parts \subseteq Parts
  BY <1>2 DEF Parts
<1> QED BY <1>1, <1>3, <1>8, <1>9, KeptInv

(* A report of a known location, or none.                                    *)
LEMMA MadeInv ==
  ASSUME NEW p, NEW s, NEW loc, RequestInv(p, s, loc), p.pc \in Suspended,
         p.kind = "key" \/ Combo(p) \in loc,
         NEW c \in Cached \cup {Gone}, NEW f \in Cached \cup {Gone}, NEW made \in Made(p, c, f)
  PROVE  RequestInv(made, s, loc)
<1> DEFINE b == 0 \in {c.left, f.left}
           q == [p EXCEPT !.cut = b]
<1>0. /\ c.left \in Nat /\ f.left \in Nat /\ c.ttl \in Nat /\ f.ttl \in Nat
      /\ c.ttl = c.left /\ f.ttl = f.left
  BY PartFacts
<1>1. /\ q \in Request /\ q.pc = p.pc /\ q.kind = p.kind /\ q.place = p.place
      /\ q.i = p.i /\ q.regions = p.regions /\ q.cut = b
  <2>1. b \in BOOLEAN /\ p \in Request
    BY DEF RequestInv
  <2> HIDE DEF b
  <2> QED BY <2>1 DEF Request
<1>3. RequestInv(q, s, loc) /\ q.pc \in Suspended /\ (q.kind = "key" \/ Combo(q) \in loc)
  <2> HIDE DEF q
  <2> QED BY <1>1 DEF RequestInv, Forecasts, Combo, Suspended
<1> DEFINE all == c.there /\ f.there /\ c.ttl > 0 /\ f.ttl > 0
<1>4. CASE all
  <2>1. made = Report(q, c, f)
    BY <1>4 DEF Made
  <2>2. c.ttl <= c.left /\ f.ttl <= f.left
    BY <1>0
  <2> HIDE DEF q
  <2>3. /\ c.ttl <= c.left \/ (q.cut /\ c.ttl = Ttl["conditions"])
        /\ f.ttl <= f.left \/ (q.cut /\ f.ttl = Ttl["forecast"])
    BY <2>2, Zenon
  <2>4. c.left \in Nat /\ c.ttl \in Nat /\ f.left \in Nat /\ f.ttl \in Nat
    BY <1>0
  <2> QED BY <1>3, <2>1, <2>3, <2>4, ReportInv, Zenon
<1>5. CASE made \in {Ended("nothing"), Ended("failed")}
  BY <1>5, EndedInv
<1>6. CASE ~all /\ made \notin {Ended("nothing"), Ended("failed")}
  <2>1. PICK x \in Completed(c, "conditions"), y \in Completed(f, "forecast") : made = Report(q, x, y)
    BY <1>6 DEF Made
  <2>2. 0 \in {c.left, f.left}
    BY <1>0, <1>6 DEF Cached, Gone
  <2>3. q.cut
    BY <1>1, <2>2
  <2>4. "conditions" \in Parts /\ "forecast" \in Parts
    BY DEF Parts
  <2>5. /\ x.left \in Nat /\ x.ttl \in Nat /\ (x.ttl <= x.left \/ x.ttl = Ttl["conditions"])
        /\ y.left \in Nat /\ y.ttl \in Nat /\ (y.ttl <= y.left \/ y.ttl = Ttl["forecast"])
    BY <2>4, PartFacts
  <2> HIDE DEF q
  <2>6. (x.ttl <= x.left \/ x.ttl = Ttl["conditions"]) /\ (y.ttl <= y.left \/ y.ttl = Ttl["forecast"])
    BY <2>5
  <2>7. /\ x.ttl <= x.left \/ (q.cut /\ x.ttl = Ttl["conditions"])
        /\ y.ttl <= y.left \/ (q.cut /\ y.ttl = Ttl["forecast"])
    BY <2>3, <2>6, Zenon
  <2>8. x.left \in Nat /\ x.ttl \in Nat /\ y.left \in Nat /\ y.ttl \in Nat
    BY <2>5
  <2> QED BY <1>3, <2>1, <2>7, <2>8, ReportInv, Zenon
<1> HIDE DEF all
<1> QED BY <1>4, <1>5, <1>6 DEF Made

(* The hourly forecasts, or none.                                           *)
LEMMA HourlyInv ==
  ASSUME NEW q, NEW s, NEW loc, RequestInv(q, s, loc), q.pc \in Suspended, Combo(q) \in loc,
         NEW made \in Hourly(q)
  PROVE  RequestInv(made, s, loc)
<1>1. CASE \E e \in Cached \cup Fetched("hourly") : made = Kept(q, e.ttl, [hourly |-> e])
  <2>1. PICK e \in Cached \cup Fetched("hourly") : made = Kept(q, e.ttl, [hourly |-> e])
    BY <1>1
  <2>2. e.ttl \in Nat /\ e.left \in Nat /\ e.ttl <= e.left
    BY PartFacts DEF Parts
  <2> DEFINE parts == [hourly |-> e]
  <2>3. DOMAIN parts = {"hourly"} /\ parts["hourly"] = e
    OBVIOUS
  <2>4. \A x \in DOMAIN parts : ~(parts[x].left < e.ttl)
    <3> HIDE DEF parts
    <3> QED BY <2>2, <2>3
  <2>5. DOMAIN parts \subseteq Parts
    BY <2>3 DEF Parts
  <2>6. made = Kept(q, e.ttl, parts)
    BY <2>1
  <2> HIDE DEF parts
  <2> QED BY <2>2, <2>4, <2>5, <2>6, KeptInv
<1>2. CASE made \in {Ended("nothing"), Ended("failed")}
  BY <1>2, EndedInv
<1> QED BY <1>1, <1>2 DEF Hourly

-----------------------------------------------------------------------------
(* What the process knows when it starts.                                    *)
LEMMA StaticInv ==
  ASSUME NEW loc
  PROVE  LearnedInv(Static, loc) /\ SkipInv(Skipped, {}, loc)
<1>1. Static \in [Cities -> Regions \cup {Unknown}] /\ Skipped \subseteq Combos
  BY WeatherAssumption DEF WeatherAssumption
<1>2. LearnedInv(Static, loc)
  <2>1. \A c \in Cities : LearnedThere(c, Static[c], loc)
    BY DEF LearnedThere
  <2> QED BY <1>1, <2>1 DEF LearnedInv
<1>3. SkipInv(Skipped, {}, loc)
  BY <1>1 DEF SkipInv
<1> QED BY <1>2, <1>3

(* Only combinations of the places are known.                                *)
LEMMA InitInv == Init => IndInv
<1> SUFFICES ASSUME Init PROVE IndInv
  OBVIOUS
<1> USE DEF Init
<1>1. located \subseteq Combos
  <2>1. ASSUME NEW p \in Places PROVE Own(p) \subseteq Combos
    <3>1. Compass(p, Static) \in Seq(Regions)
      <4>1. {} \subseteq Combos /\ LearnedInv(Static, {})
        BY StaticInv
      <4> QED BY <4>1, CompassFacts
    <3>2. Elements(Compass(p, Static)) \subseteq Regions
      <4> DEFINE t == Compass(p, Static)
      <4>1. t \in Seq(Regions)
        BY <3>1
      <4> HIDE DEF t
      <4>2. \A j \in DOMAIN t : t[j] \in Regions
        BY <4>1
      <4> QED BY <4>2 DEF Elements, t
    <3>3. p.country \in Countries /\ Elements(p.names) \subseteq Names
      BY PlaceFacts DEF Elements
    <3> QED BY <3>2, <3>3 DEF Own, Combos
  <2> QED BY <2>1
<1>2. LearnedInv(learned, located) /\ SkipInv(skip, unread, located)
  BY StaticInv
<1>3. \A r \in Requests : RequestInv(req[r], skip, located)
  BY EndedInv
<1> QED BY <1>1, <1>2, <1>3 DEF IndInv

(* More is skipped: the other requests do not mind.                          *)
LEMMA AfterInv ==
  ASSUME IndInv, NEW r \in Requests, NEW q, NEW t, skip \subseteq t, RequestInv(q, t, located),
         After(r, q)
  PROVE  DOMAIN req' = Requests /\ \A x \in Requests : RequestInv(req'[x], t, located)
<1>1. DOMAIN req' = Requests
  BY DEF After
<1>2. ASSUME NEW x \in Requests PROVE RequestInv(req'[x], t, located)
  <2>1. RequestInv(req[x], skip, located)
    BY DEF IndInv
  <2>2. RequestInv(req[x], t, located)
    BY <2>1 DEF RequestInv
  <2>3. req'[x] \in {q, req[x], Idle}
    BY DEF After
  <2> QED BY <2>2, <2>3, EndedInv
<1> QED BY <1>1, <1>2

(* A step that changes requests only.                                        *)
LEMMA OneRequest ==
  ASSUME IndInv, NEW r \in Requests, NEW q, RequestInv(q, skip, located),
         After(r, q), UNCHANGED <<located, learned, skip, unread>>
  PROVE  IndInv'
<1>1. DOMAIN req' = Requests /\ \A x \in Requests : RequestInv(req'[x], skip', located')
  BY AfterInv
<1> QED BY <1>1 DEF IndInv

(* A request begins.                                                         *)
LEMMA BeginInv ==
  ASSUME IndInv, NEW r \in Requests, NEW p \in Places,
         NEW kind \in {"report", "key", "hourly"}, Begin(r, p, kind)
  PROVE  IndInv'
<1> DEFINE q == Asked(p, kind)
           b == CASE kind = "report" -> Explore(q, "cache", skip)
                  [] kind = "key"    -> [q EXCEPT !.pc = "cache"]
                  [] kind = "hourly" -> Explore(q, "location", skip)
<1>1. q \in Request /\ q.place = p /\ q.i = 1 /\ q.kind = kind
  BY IdleFacts
<1>2. located \subseteq Combos /\ LearnedInv(learned, located)
  BY DEF IndInv
<1>3. RequestInv(b, skip, located)
  <2> HIDE DEF q
  <2>1. CASE kind = "report"
    BY <1>1, <1>2, <2>1, ExploreInv
  <2>2. CASE kind = "hourly"
    BY <1>1, <1>2, <2>2, ExploreInv
  <2>3. CASE kind = "key"
    <3> DEFINE k == [q EXCEPT !.pc = "cache"]
    <3>1. k \in Request /\ k.pc = "cache" /\ k.place = p /\ k.i = 1 /\ k.kind = kind
      BY <1>1 DEF Request
    <3>2. RequestInv(k, skip, located)
      <4> HIDE DEF k
      <4> QED BY <2>3, <3>1, PlaceFacts DEF RequestInv, Forecasts
    <3> QED BY <2>3, <3>2
  <2> QED BY <2>1, <2>2, <2>3
<1>4. After(r, b) /\ UNCHANGED <<located, learned, skip, unread>>
  BY DEF Begin
<1> HIDE DEF b
<1> QED BY <1>3, <1>4, OneRequest

(* A step that only the request itself sees.                                 *)
LEMMA LookUpInv ==
  ASSUME IndInv, NEW r \in Requests,
         CacheHit(r) \/ CacheMiss(r) \/ CacheUnreadable(r) \/ LocationFails(r) \/ Fails(r)
  PROVE  IndInv'
<1>1. /\ located \subseteq Combos /\ LearnedInv(learned, located)
      /\ RequestInv(req[r], skip, located) /\ req[r] \in Request
  BY DEF IndInv, RequestInv
<1>2. CASE CacheHit(r)
  <2>1. PICK c \in Cached \cup {Gone}, f \in Cached \cup {Gone} :
            \E made \in Made(req[r], c, f) : After(r, made)
    BY <1>2 DEF CacheHit
  <2>2. PICK made \in Made(req[r], c, f) : After(r, made)
    BY <2>1
  <2>3. req[r].pc \in Suspended /\ (req[r].kind = "key" \/ Combo(req[r]) \in located)
        /\ UNCHANGED <<located, learned, skip, unread>>
    BY <1>2 DEF CacheHit, Suspended
  <2>4. RequestInv(made, skip, located)
    BY <1>1, <2>2, <2>3, MadeInv
  <2> QED BY <2>2, <2>3, <2>4, OneRequest
<1>3. CASE CacheMiss(r)
  <2>1. /\ req[r].pc = "cache" /\ req[r].kind # "key" /\ After(r, TryNext(req[r], skip))
        /\ UNCHANGED <<located, learned, skip, unread>>
    BY <1>3 DEF CacheMiss
  <2>2. RequestInv(TryNext(req[r], skip), skip, located)
    BY <1>1, <2>1, TryNextInv
  <2> QED BY <2>1, <2>2, OneRequest
<1>4. CASE CacheUnreadable(r)
  <2>1. /\ req[r].kind # "key" /\ After(r, Explore(req[r], "location", skip))
        /\ UNCHANGED <<located, learned, skip, unread>>
    BY <1>4 DEF CacheUnreadable
  <2>2. RequestInv(Explore(req[r], "location", skip), skip, located)
    BY <1>1, <2>1, ExploreInv
  <2> QED BY <2>1, <2>2, OneRequest
<1>5. CASE LocationFails(r)
  <2>1. After(r, Ended("nothing")) /\ UNCHANGED <<located, learned, skip, unread>>
    BY <1>5 DEF LocationFails
  <2> QED BY <2>1, EndedInv, OneRequest
<1>6. CASE Fails(r)
  <2>1. After(r, Ended("failed")) /\ UNCHANGED <<located, learned, skip, unread>>
    BY <1>6 DEF Fails
  <2> QED BY <2>1, EndedInv, OneRequest
<1> QED BY <1>2, <1>3, <1>4, <1>5, <1>6

(* Where there is a rule nothing is learned, and elsewhere what is known.      *)
LEMMA LocatedInv ==
  ASSUME IndInv, NEW r \in Requests, Located(r)
  PROVE  IndInv'
<1> DEFINE q == req[r]
<1>1. /\ SkipInv(skip, unread, located) /\ LearnedInv(learned, located)
      /\ RequestInv(q, skip, located) /\ q \in Request /\ q.i \in DOMAIN q.place.names
      /\ located \subseteq Combos
  BY DEF IndInv, RequestInv
<1>2. /\ q.pc \in Suspended /\ Combo(q) \in located /\ learned' = SetRegion(learned, Combo(q))
      /\ UNCHANGED <<located, skip, unread>>
  BY DEF Located, Suspended
<1>3. PICK made \in IF q.kind = "hourly" THEN Hourly(q) ELSE Made(q, Gone, Gone) : After(r, made)
  BY DEF Located
<1>4. RequestInv(made, skip, located)
  <2>1. Gone \in Cached \cup {Gone}
    OBVIOUS
  <2> HIDE DEF q
  <2> QED BY <1>1, <1>2, <1>3, <2>1, MadeInv, HourlyInv
<1>5. LearnedInv(learned', located)
  <2> DEFINE c == Combo(q)
  <2>1. c \in Combos
    BY <1>1, ComboFacts
  <2>2. CASE c[1] \in Specific \cup Least
    BY <1>1, <1>2, <2>2 DEF SetRegion
  <2>3. CASE c[1] \notin Specific \cup Least
    <3>1. learned' = [learned EXCEPT ![<<c[1], c[3]>>] = c[2]]
      BY <1>2, <2>3 DEF SetRegion
    <3>2. c[1] \in Countries /\ c[2] \in Regions /\ c[3] \in Names /\ c = <<c[1], c[2], c[3]>>
      BY <2>1 DEF Combos
    <3>3. c \in located
      BY <1>2
    <3> HIDE DEF c
    <3>4. learned' \in [Cities -> Regions \cup {Unknown}]
      BY <1>1, <3>1, <3>2 DEF LearnedInv, Cities
    <3>5. ASSUME NEW d \in Cities
          PROVE  LearnedThere(d, learned'[d], located)
      <4>1. CASE d = <<c[1], c[3]>>
        <5>1. learned'[d] = c[2] /\ d[1] = c[1] /\ d[2] = c[3]
          BY <1>1, <3>1, <4>1 DEF LearnedInv
        <5> QED BY <2>3, <3>2, <3>3, <5>1 DEF LearnedThere
      <4>2. CASE d # <<c[1], c[3]>>
        <5>1. learned'[d] = learned[d]
          BY <1>1, <3>1, <4>2 DEF LearnedInv
        <5> QED BY <1>1, <5>1 DEF LearnedInv
      <4> QED BY <4>1, <4>2
    <3> HIDE DEF q
    <3> QED BY <3>4, <3>5 DEF LearnedInv
  <2> QED BY <2>2, <2>3
<1>6. DOMAIN req' = Requests /\ \A x \in Requests : RequestInv(req'[x], skip, located)
  BY <1>3, <1>4, AfterInv
<1> HIDE DEF q
<1> QED BY <1>1, <1>2, <1>5, <1>6 DEF IndInv

(* A combination is skipped that is not known or was answered unreadably.      *)
LEMMA NotLocatedInv ==
  ASSUME IndInv, NEW r \in Requests, NotLocated(r)
  PROVE  IndInv'
<1> DEFINE q == req[r]
           s == skip \cup {Combo(q)}
           u == unread \cup ({Combo(q)} \cap located)
<1>1. /\ SkipInv(skip, unread, located) /\ LearnedInv(learned, located)
      /\ RequestInv(q, skip, located) /\ q \in Request /\ q.i \in DOMAIN q.place.names
      /\ located \subseteq Combos
  BY DEF IndInv, RequestInv
<1>2. /\ q.pc = "location" /\ skip' = s /\ unread' = u /\ After(r, TryNext(q, s))
      /\ UNCHANGED <<located, learned>>
  BY DEF NotLocated
<1>3. SkipInv(s, u, located)
  <2>1. Combo(q) \in Combos
    BY <1>1, ComboFacts
  <2> QED BY <1>1, <2>1 DEF SkipInv
<1>4. RequestInv(q, s, located) /\ q.kind # "key"
  BY <1>1, <1>2 DEF RequestInv
<1>5. Combo(q) \in s /\ skip \subseteq s
  OBVIOUS
<1> HIDE DEF s, q, u
<1>6. RequestInv(TryNext(q, s), s, located)
  BY <1>1, <1>2, <1>4, <1>5, TryNextInv
<1>7. DOMAIN req' = Requests /\ \A x \in Requests : RequestInv(req'[x], s, located)
  BY <1>2, <1>5, <1>6, AfterInv
<1> QED BY <1>1, <1>2, <1>3, <1>7 DEF IndInv

(* Everything that was learned is lost.                                      *)
LEMMA RestartInv == IndInv /\ Restart => IndInv'
<1> SUFFICES ASSUME IndInv, Restart PROVE IndInv'
  OBVIOUS
<1>1. LearnedInv(learned', located') /\ SkipInv(skip', unread', located')
  BY StaticInv DEF Restart
<1>2. \A x \in Requests : RequestInv(req'[x], skip', located')
  <2> TAKE x \in Requests
  <2>1. req'[x] = Idle
    BY DEF Restart
  <2> QED BY <2>1, EndedInv
<1>3. located' \subseteq Combos /\ DOMAIN req' = Requests
  BY DEF Restart, IndInv
<1> QED BY <1>1, <1>2, <1>3 DEF IndInv

(* IndInv is an invariant of the weather provider.                           *)
THEOREM Inductive == Spec => []IndInv
<1>1. ASSUME IndInv, [Next]_vars PROVE IndInv'
  <2>1. CASE Restart
    BY <1>1, <2>1, RestartInv
  <2>2. CASE \E r \in Requests : Serve(r)
    <3>1. PICK r \in Requests : Serve(r)
      BY <2>2
    <3>2. CASE \E p \in Places, kind \in {"report", "key", "hourly"} : Begin(r, p, kind)
      BY <1>1, <3>2, BeginInv
    <3>3. CASE CacheHit(r) \/ CacheMiss(r) \/ CacheUnreadable(r) \/ LocationFails(r) \/ Fails(r)
      BY <1>1, <3>3, LookUpInv
    <3>4. CASE Located(r)
      BY <1>1, <3>4, LocatedInv
    <3>5. CASE NotLocated(r)
      BY <1>1, <3>5, NotLocatedInv
    <3> QED BY <3>1, <3>2, <3>3, <3>4, <3>5 DEF Serve
  <2>3. CASE UNCHANGED vars
    BY <1>1, <2>3 DEF vars, IndInv
  <2> QED BY <1>1, <2>1, <2>2, <2>3 DEF Next
<1> QED BY <1>1, InitInv, PTL DEF Spec

(* Types: the indices of a look-up stay inside the place's names.             *)
THEOREM TypeCorrect == Spec => []TypeOK
<1>1. IndInv => TypeOK
  BY DEF IndInv, LearnedInv, SkipInv, RequestInv, Request, TypeOK
<1> QED BY <1>1, Inductive, PTL

(* A client is never shown the weather of a place that is not its own.        *)
THEOREM OwnWeather == Spec => []ServedIsItsOwn
<1>1. IndInv => ServedIsItsOwn
  <2> SUFFICES ASSUME IndInv, NEW r \in Requests, Forecasts(req[r])
               PROVE  LET p == req[r].place
                          c == Combo(req[r])
                      IN  /\ c \in located /\ c[1] = p.country /\ c[3] \in Elements(p.names)
                          /\ Fits(p, c[2])
    BY DEF ServedIsItsOwn
  <2> DEFINE q == req[r]
  <2>1. /\ q \in Request /\ q.i \in DOMAIN q.place.names /\ Combo(q) \in located
        /\ \A x \in Elements(q.regions) : FitsIn(q.place, x, located)
    BY DEF IndInv, RequestInv, Forecasts
  <2>2. Combo(q)[1] = q.place.country /\ Combo(q)[3] \in Elements(q.place.names)
    BY <2>1, ComboFacts
  <2>3. FitsIn(q.place, Combo(q)[2], located)
    BY <2>1, HeadFits
  <2> HIDE DEF q
  <2> QED BY <2>1, <2>2, <2>3 DEF Fits, FitsIn, q
<1> QED BY <1>1, Inductive, PTL

(* "No location" always has a reason: the combination the request came to is   *)
(* one that AccuWeather does not know, that it answered unreadably, or that the *)
(* source says to skip, in a region that fits the client's place.            *)
THEOREM MissingHasAReason == Spec => []MissingForAReason
<1>1. IndInv => MissingForAReason
  <2> SUFFICES ASSUME IndInv, NEW r \in Requests, req[r].pc = "missing"
               PROVE  LET c == Combo(req[r]) IN
                      /\ Fits(req[r].place, c[2]) /\ c \in skip
                      /\ c \in Skipped \cup unread \/ c \notin located
    BY DEF MissingForAReason
  <2> DEFINE q == req[r]
  <2>1. RequestInv(q, skip, located) /\ SkipInv(skip, unread, located) /\ q \in Request
    BY DEF IndInv, RequestInv
  <2>2. Combo(q) \in skip /\ \A x \in Elements(q.regions) : FitsIn(q.place, x, located)
    BY <2>1 DEF RequestInv
  <2>3. FitsIn(q.place, Combo(q)[2], located)
    BY <2>1, <2>2, HeadFits
  <2> HIDE DEF q
  <2> QED BY <2>1, <2>2, <2>3 DEF SkipInv, Fits, FitsIn, q
<1> QED BY <1>1, Inductive, PTL

(* A report outlives none of its parts but one that was completed.            *)
THEOREM NotKeptLonger == Spec => []KeptNoLonger
<1>1. IndInv => KeptNoLonger
  BY DEF IndInv, RequestInv, KeptNoLonger
<1> QED BY <1>1, Inductive, PTL
=============================================================================
