------------------------------ MODULE MCWeather -------------------------------
EXTENDS Weather, TLC

(* A country where the most specific region is used, with a city that has a   *)
(* suffix and one that has the same name without it, and two cities of one name *)
(* in a country with no rule.                                               *)
MCPlaces == {
    [country |-> "US", city |-> "Salem City", names |-> <<"Salem City", "Salem">>,
     regions |-> <<"OR">>],
    [country |-> "US", city |-> "Salem", names |-> <<"Salem">>, regions |-> <<"MA">>],
    [country |-> "KR", city |-> "Gwangju", names |-> <<"Gwangju">>, regions |-> <<"29">>],
    [country |-> "KR", city |-> "Gwangju", names |-> <<"Gwangju">>, regions |-> <<"41">>]}

MCStatic == [c \in Cities |-> Unknown]
MCTtl == [conditions |-> 1, forecast |-> 2, hourly |-> 1]
(* What is learned and skipped of one country never matters in another, so that *)
(* a behaviour is followed while it is about one country.                    *)
OneCountry ==
    Cardinality({c[1] : c \in located \cup skip \cup {x \in Cities : learned[x] # Unknown}}
                \cup {req[r].place.country : r \in {x \in Requests : req[x].pc \in Suspended}}) <= 1

Symmetry == Permutations(Requests)
=============================================================================
