------------------------------- MODULE Weather --------------------------------
(***************************************************************************)
(* The weather provider of one Merino process: how the pathfinder turns a     *)
(* client's geolocation into one of AccuWeather's locations, from Redis first *)
(* and then upstream, what it remembers of that, and how a report is put      *)
(* together.  A step is what a request does between two awaits.              *)
(*                                                                         *)
(* Redis is shared with the other processes and drops entries on its own, so  *)
(* that any of it may be there or not whenever it is asked.  Time shows only  *)
(* as the age of what Redis returns and the TTL that is left of it.          *)
(***************************************************************************)
EXTENDS Naturals, Sequences, FiniteSets

CONSTANTS
    Places,           \* geolocations, as [country, city, names, regions]
    Specific, Least,  \* the countries whose most, or least, specific region is used
    MaxFallback,      \* MAX_FALLBACK_REGIONS
    Static,           \* SUCCESSFUL_REGIONS_MAPPING as it is in the source
    Skipped,          \* SKIP_CITIES_MAPPING as it is in the source
    Requests,         \* slots of concurrent requests
    Ttl,              \* the least TTL of a response, by what it is of
    MaxTtl,           \* bound of the model: the longest TTL of a response
    Day               \* the length of a day: TTLs are returned modulo it

None == "no region"        \* Python's None
Unknown == "not learned"   \* of a city that is not in SUCCESSFUL_REGIONS_MAPPING

Elements(s) == {s[i] : i \in DOMAIN s}
Countries == {p.country : p \in Places}
Names == UNION {Elements(p.names) \cup {p.city} : p \in Places}
Regions == {None} \cup UNION {Elements(p.regions) : p \in Places}
Cities == Countries \X Names
Combos == Countries \X Regions \X Names
Suspended == {"cache", "location"}   \* the awaits of explore, the probe's

ASSUME WeatherAssumption ==
    /\ Places # {}
    /\ Places \subseteq [country : Countries, city : Names,
                         names : Seq(Names) \ {<<>>}, regions : Seq(Regions)]
    /\ MaxFallback \in Nat /\ Day \in Nat \ {0} /\ MaxTtl \in Nat
    /\ Static \in [Cities -> Regions \cup {Unknown}] /\ Unknown \notin Regions
    /\ Skipped \subseteq Combos
    /\ Ttl \in [{"conditions", "forecast", "hourly"} -> 0..MaxTtl]

VARIABLES
    located,   \* the combinations that AccuWeather knows a location for
    learned,   \* SUCCESSFUL_REGIONS_MAPPING
    skip,      \* SKIP_CITIES_MAPPING (its counts are for metrics)
    unread,    \* of the located ones, those that this process got an unreadable answer for
    req        \* the requests

vars == <<located, learned, skip, unread, req>>

(* compass: the regions to try.  What was learned comes first.               *)
Compass(p, l) ==
    IF p.regions = <<>> THEN <<None>>
    ELSE IF l[<<p.country, p.city>>] # Unknown THEN <<l[<<p.country, p.city>>]>>
    ELSE IF p.country \in Specific THEN <<Head(p.regions)>>
    ELSE IF p.country \in Least THEN <<p.regions[Len(p.regions)]>>
    ELSE Append(SubSeq(p.regions, 1, IF Len(p.regions) < MaxFallback
                                     THEN Len(p.regions) ELSE MaxFallback), None)

(* What is asked for a place when nothing was learned.                       *)
Own(p) == {p.country} \X Elements(Compass(p, Static)) \X Elements(p.names)

(* ttl is that of the report; outlived are those of its parts that the cache   *)
(* keeps for less; cut is whether a part was gone or had no time left.        *)
Asked(p, kind) == [pc |-> "idle", kind |-> kind, place |-> p, i |-> 1, regions |-> <<None>>,
                   ttl |-> 0, outlived |-> {}, cut |-> FALSE]
Idle == Asked(CHOOSE p \in Places : TRUE, "report")

Init ==
    /\ located \in SUBSET UNION {Own(p) : p \in Places}
    /\ learned = Static /\ skip = Skipped /\ unread = {}
    /\ req = [r \in Requests |-> Idle]

-----------------------------------------------------------------------------
(* The combination that explore is at: selected_region and selected_city.    *)
Combo(q) == <<q.place.country, Head(q.regions), q.place.names[q.i]>>

(* Mutant: in every country.                                                 *)
LearnedAnywhere(l, c) == [l EXCEPT ![<<c[1], c[3]>>] = c[2]]

(* set_region_mapping: not in the countries whose region is determined.      *)
SetRegion(l, c) ==
    IF c[1] \in Specific \cup Least THEN l ELSE [l EXCEPT ![<<c[1], c[3]>>] = c[2]]

Ended(answer) == [Idle EXCEPT !.pc = answer]

(* The request r goes on as q, or is answered; the answers that others had in  *)
(* the state before have been sent.                                         *)
After(r, q) ==
    req' = [x \in Requests |-> IF x = r THEN q
                               ELSE IF req[x].pc \in Suspended THEN req[x] ELSE Idle]

(* MissingLocationKeyError: the request stays at the combination it came to.  *)
Missing(q) == [q EXCEPT !.pc = "missing"]

(* explore comes to a combination: one that is to be skipped ends it, and     *)
(* with it the request.  s is SKIP_CITIES_MAPPING.                          *)
Visit(q, s) == IF Combo(q) \in s THEN Missing(q) ELSE q

(* explore begins with the first name and the regions that compass yields.   *)
Explore(q, probe, s) ==
    Visit([q EXCEPT !.pc = probe, !.i = 1, !.regions = Compass(q.place, learned)], s)

(* A probe found nothing: the next region, the next name, or the end, which   *)
(* is the end of the request unless only the cache was asked.               *)
TryNext(q, s) ==
    IF Len(q.regions) > 1 THEN Visit([q EXCEPT !.regions = Tail(@)], s)
    ELSE IF q.i < Len(q.place.names)
         THEN Visit([q EXCEPT !.i = @ + 1, !.regions = Compass(q.place, learned)], s)
    ELSE IF q.pc = "cache" THEN Explore(q, "location", s)
    ELSE Missing(q)

-----------------------------------------------------------------------------
(* query and get_hourly_forecasts: a report for a geolocation, for a location *)
(* key, or the hourly forecasts, which look for the location upstream.       *)
Begin(r, p, kind) ==
    /\ req[r].pc \notin Suspended
    /\ LET q == Asked(p, kind) IN
       After(r, CASE kind = "report" -> Explore(q, "cache", skip)
                  [] kind = "key"    -> [q EXCEPT !.pc = "cache"]
                  [] kind = "hourly" -> Explore(q, "location", skip))
    /\ UNCHANGED <<located, learned, skip, unread>>

(* What a part of a report may be: not in the cache, from the cache with some  *)
(* TTL left, or fetched, with the TTL it was stored with, of which            *)
(* timedelta.seconds returns what is left modulo a day.  left is how long the *)
(* cache keeps it; ttl is what counts for the report.                       *)
Gone == [left |-> 0, ttl |-> 0, there |-> FALSE]
Cached == {[left |-> t, ttl |-> t, there |-> TRUE] : t \in 0..MaxTtl}
Fetched(x) == {[left |-> t, ttl |-> t % Day, there |-> TRUE] : t \in Ttl[x]..MaxTtl}

(* The task group fetches a part that is gone; one from the cache then counts  *)
(* as if it had just been stored.                                           *)
Completed(e, x) == IF e.there THEN {[e EXCEPT !.ttl = Ttl[x]]} ELSE Fetched(x)

(* A report of some parts that is kept for t seconds.                         *)
Kept(q, t, parts) ==
    [q EXCEPT !.pc = "report", !.ttl = t, !.outlived = {x \in DOMAIN parts : parts[x].left < t}]

(* Mutant: the greater TTL.                                                  *)
LongerReport(q, c, f) ==
    Kept(q, IF c.ttl > f.ttl THEN c.ttl ELSE f.ttl, [conditions |-> c, forecast |-> f])

(* The report of two parts has the lesser TTL.                                *)
Report(q, c, f) ==
    Kept(q, IF c.ttl < f.ttl THEN c.ttl ELSE f.ttl, [conditions |-> c, forecast |-> f])

(* make_weather_report of a known location.  It changes nothing that requests  *)
(* share, so that its awaits are one step here: both parts have a TTL left, or *)
(* they are completed, or one of those fetched fails or cannot be processed.  *)
Made(p, c, f) ==
    LET q == [p EXCEPT !.cut = 0 \in {c.left, f.left}] IN
    IF c.there /\ f.there /\ c.ttl > 0 /\ f.ttl > 0 THEN {Report(q, c, f)}
    ELSE {Report(q, x, y) : x \in Completed(c, "conditions"), y \in Completed(f, "forecast")}
         \cup IF c.there /\ f.there THEN {} ELSE {Ended("nothing"), Ended("failed")}

(* get_hourly_forecasts of a known location: from the cache whatever its TTL,  *)
(* or from upstream.                                                        *)
Hourly(q) ==
    {Kept(q, e.ttl, [hourly |-> e]) : e \in Cached \cup Fetched("hourly")}
    \cup {Ended("nothing"), Ended("failed")}

(* The script finds the location, or was given its key, and returns what     *)
(* there is of the report.                                                  *)
CacheHit(r) ==
    LET q == req[r] IN
    /\ q.pc = "cache" /\ (q.kind = "key" \/ Combo(q) \in located)
    /\ \E c, f \in Cached \cup {Gone} : \E made \in Made(q, c, f) :
           After(r, made)
    /\ UNCHANGED <<located, learned, skip, unread>>

CacheMiss(r) ==
    /\ req[r].pc = "cache" /\ req[r].kind = "report"
    /\ After(r, TryNext(req[r], skip))
    /\ UNCHANGED <<located, learned, skip, unread>>

(* A location in the cache that cannot be read ends the look-up all the same. *)
CacheUnreadable(r) ==
    /\ req[r].pc = "cache" /\ req[r].kind = "report" /\ Combo(req[r]) \in located
    /\ After(r, Explore(req[r], "location", skip))
    /\ UNCHANGED <<located, learned, skip, unread>>

(* get_location_by_geolocation: AccuWeather's answer is stored and remembered. *)
Located(r) ==
    LET q == req[r] IN
    /\ q.pc = "location" /\ Combo(q) \in located
    /\ learned' = SetRegion(learned, Combo(q))
    /\ \E made \in IF q.kind = "hourly" THEN Hourly(q) ELSE Made(q, Gone, Gone) :
           After(r, made)
    /\ UNCHANGED <<located, skip, unread>>

(* An answer that process_location_response makes nothing of is taken to say   *)
(* that there is no such location: AccuWeather knows none, or it answered in a *)
(* form that is not expected.                                              *)
NotLocated(r) ==
    LET q == req[r] IN
    /\ q.pc = "location"
    /\ skip' = skip \cup {Combo(q)}
    /\ unread' = unread \cup ({Combo(q)} \cap located)
    /\ After(r, TryNext(q, skip'))
    /\ UNCHANGED <<located, learned>>

(* Mutant: the combination is skipped from then on.                          *)
FailedIsSkipped(r) ==
    LET q == req[r] IN
    /\ q.pc = "location" /\ q.kind = "report"
    /\ skip' = skip \cup {Combo(q)}
    /\ After(r, Ended("nothing"))
    /\ UNCHANGED <<located, learned, unread>>

(* An error of AccuWeather, or of Redis when the answer is stored, teaches    *)
(* nothing; the request for a report swallows it.                            *)
LocationFails(r) ==
    LET q == req[r] IN
    /\ q.pc = "location" /\ q.kind = "report"
    /\ After(r, Ended("nothing"))
    /\ UNCHANGED <<located, learned, skip, unread>>

(* Any await may fail, or be cancelled when the query times out.              *)
Fails(r) ==
    /\ req[r].pc \in Suspended
    /\ After(r, Ended("failed"))
    /\ UNCHANGED <<located, learned, skip, unread>>

(* The process starts again.                                                *)
Restart ==
    /\ learned' = Static /\ skip' = Skipped /\ unread' = {}
    /\ req' = [r \in Requests |-> Idle]
    /\ UNCHANGED located

Serve(r) ==
    \/ \E p \in Places, kind \in {"report", "key", "hourly"} : Begin(r, p, kind)
    \/ CacheHit(r) \/ CacheMiss(r) \/ CacheUnreadable(r)
    \/ Located(r) \/ NotLocated(r) \/ LocationFails(r)
    \/ Fails(r)

Next == Restart \/ \E r \in Requests : Serve(r)

Spec == Init /\ [][Next]_vars

-----------------------------------------------------------------------------
Forecasts(q) == q.pc = "report" /\ q.kind # "key"

TypeOK ==
    /\ located \subseteq Combos /\ skip \subseteq Combos /\ unread \subseteq located
    /\ learned \in [Cities -> Regions \cup {Unknown}]
    /\ \A r \in Requests : req[r].place \in Places /\ req[r].i \in DOMAIN req[r].place.names

(* A region to look in for a place: one of its own, or, where no rule         *)
(* determines it, one in which AccuWeather knows a location of the city's name. *)
Fits(p, x) ==
    \/ x \in Elements(Compass(p, Static))
    \/ p.country \notin Specific \cup Least /\ <<p.country, x, p.city>> \in located

(* The weather a client gets is that of a location AccuWeather knows under    *)
(* one of the client's names in the client's country; where the region is     *)
(* determined it is the client's region, whatever other cities of that name   *)
(* taught the process.  (In the other countries they share what is learned.)  *)
ServedIsItsOwn ==
    \A r \in Requests : Forecasts(req[r]) =>
        LET p == req[r].place
            c == Combo(req[r])
        IN  /\ c \in located /\ c[1] = p.country /\ c[3] \in Elements(p.names)
            /\ Fits(p, c[2])

(* A client is told that there is no location only on account of a combination *)
(* that it came to itself, in a region that fits its place, and that the source *)
(* lists, AccuWeather does not know, or answered in a form that was not         *)
(* expected: not because a request for it failed, or was cancelled, nor because *)
(* a namesake in another region was looked for                              *)
(* (get_location_by_geolocation, 859-865; explore, 660).                     *)
MissingForAReason ==
    \A r \in Requests : req[r].pc = "missing" =>
        LET c == Combo(req[r]) IN
        /\ Fits(req[r].place, c[2])
        /\ c \in skip
        /\ c \in Skipped \cup unread \/ c \notin located

(* A client keeps a report no longer than the cache keeps each part of it.     *)
(* Only when a part was gone or had no time left may the report outlive one,   *)
(* which then counts as if it had just been stored, with its configured TTL    *)
(* (LUA_SCRIPT_CACHE_BULK_FETCH, 94; make_weather_report, 707-794).         *)
KeptNoLonger ==
    \A r \in Requests : req[r].pc = "report" =>
        \A x \in req[r].outlived : req[r].cut /\ req[r].ttl <= Ttl[x]
=============================================================================
