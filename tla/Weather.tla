------------------------------ MODULE Weather -------------------------------
(***************************************************************************)
(* The weather worker (weather.rs) and the two settings that steer it      *)
(* (wiring.rs).  The worker finds out where it is, asks for the weather    *)
(* there and posts it; the place is cached in the kv table, which the      *)
(* settings empty from the UI thread, over another connection, while the   *)
(* worker may be waiting for an answer from the network.                   *)
(***************************************************************************)
EXTENDS Naturals

CONSTANTS
    Cities,         \* what may be typed as the city
    Here,           \* the city the address of the panel is found in
    None,           \* an empty field, an empty cache, nothing on screen
    MaxChanges      \* bound on the changes of a setting

ASSUME WeatherAssumption ==
    /\ Here \notin Cities /\ None \notin Cities \cup {Here} /\ MaxChanges \in Nat

Providers == {"openmeteo", "qweather"}

VARIABLES
    city,       \* kv weather_city
    key,        \* whether kv weather_key holds a key
    cache,      \* kv weather_geo and weather_loc, by provider
    clearing,   \* the UI thread has written a setting and has yet to clear
    wakes,      \* tokens in the wake channel
    worker,     \* [at, provider, place]
    shown,      \* the city in the status bar (AppState.weather_city)
    excuse,     \* history: why a cache may hold a place that is not the city's
    changes

settings == <<city, key, clearing>>
vars == <<settings, cache, wakes, worker, shown, excuse, changes>>

\* Where a city is; with an empty field the panel locates itself.
Place(c) == IF c = None THEN Here ELSE c

Worker(at, provider, place) == [at |-> at, provider |-> provider, place |-> place]

-----------------------------------------------------------------------------
Init ==
    /\ city = None /\ key = FALSE
    /\ cache = [p \in Providers |-> None]
    /\ clearing = FALSE /\ wakes = 0
    /\ worker = Worker("open", "openmeteo", None)
    /\ shown = None /\ excuse = {} /\ changes = 0

-----------------------------------------------------------------------------
(* The settings page: write, empty both caches, wake.  A setting that cannot *)
(* be written changes nothing.                                               *)

Change ==
    /\ ~clearing /\ changes < MaxChanges
    /\ changes' = changes + 1
    /\ clearing' = TRUE
    /\ UNCHANGED <<cache, wakes, worker, shown, excuse>>

SetCity(c) == Change /\ city' = c /\ UNCHANGED key

SetWeatherKey(k) == Change /\ key' = k /\ UNCHANGED city

\* Mutant: only the cache of Open-Meteo is emptied.
ClearGeoCacheOnly ==
    /\ cache' = [cache EXCEPT !["openmeteo"] = None]
    /\ excuse' = {}

\* The worker waits for an answer about what it has read.
Locating == worker.at \in {"ip", "geocode", "osm"}

\* Two statements, each of which may fail; that is logged, and no reason not to
\* wake the worker.  A refresh uses one of the caches, so they are one step.
ClearGeoCaches ==
    \E emptied \in SUBSET Providers :
        /\ cache' = [p \in Providers |-> IF p \in emptied THEN None ELSE cache[p]]
        /\ excuse' = { e \in {"kept", "unread"} :
                          IF e = "kept" THEN \E p \in Providers : cache'[p] \notin {None, Place(city)}
                          ELSE e \in excuse /\ Locating }

ChangeTakesEffect ==
    /\ clearing /\ clearing' = FALSE
    /\ ClearGeoCaches
    /\ wakes' = wakes + 1
    /\ UNCHANGED <<city, key, worker, shown, changes>>

-----------------------------------------------------------------------------
(* One refresh. *)

\* The first, the last and every request between them may fail for good; a
\* name that Open-Meteo does not know is asked of OpenStreetMap before that.
RefreshFails ==
    /\ \/ worker.at \in {"open", "ip", "osm", "fetch"}
       \/ worker.at = "geocode" /\ worker.provider = "qweather"
    /\ worker' = [worker EXCEPT !.at = "backing"]
    /\ UNCHANGED <<settings, cache, wakes, shown, excuse, changes>>

\* With a key QWeather is asked, without one, or when it cannot be read,
\* Open-Meteo.
ReadKey ==
    /\ worker.at = "open"
    /\ \E read \in {key, FALSE} :
        worker' = Worker("cached", IF read THEN "qweather" ELSE "openmeteo", None)
    /\ UNCHANGED <<settings, cache, wakes, shown, excuse, changes>>

\* cached_geo, cached_loc: a place that is cached is not looked for, unless it
\* cannot be read.
ReadCache ==
    /\ worker.at = "cached"
    /\ \E place \in {cache[worker.provider], None} :
        worker' = IF place = None THEN [worker EXCEPT !.at = "city"]
                  ELSE [worker EXCEPT !.at = "fetch", !.place = place]
    /\ UNCHANGED <<settings, cache, wakes, shown, excuse, changes>>

\* A city that cannot be read is taken for none.
ReadCity ==
    /\ worker.at = "city"
    /\ \E read \in {city, None} :
        /\ worker' = [worker EXCEPT !.at = IF read = None THEN "ip" ELSE "geocode", !.place = read]
        /\ excuse' = IF read = city THEN excuse ELSE excuse \cup {"unread"}
    /\ UNCHANGED <<settings, cache, wakes, shown, changes>>

IpCity ==
    /\ worker.at = "ip"
    /\ worker' = [worker EXCEPT !.at = "geocode", !.place = Here]
    /\ UNCHANGED <<settings, cache, wakes, shown, excuse, changes>>

\* Open-Meteo has no answer.
NomGeocode ==
    /\ worker.at = "geocode" /\ worker.provider = "openmeteo"
    /\ worker' = [worker EXCEPT !.at = "osm"]
    /\ UNCHANGED <<settings, cache, wakes, shown, excuse, changes>>

\* The answer is cached, if that can be, whatever the city has become.
Located ==
    /\ worker.at \in {"geocode", "osm"}
    /\ \/ /\ cache' = [cache EXCEPT ![worker.provider] = worker.place]
          /\ excuse' = IF clearing \/ worker.place = Place(city) THEN excuse ELSE excuse \cup {"late"}
       \/ UNCHANGED <<cache, excuse>>
    /\ worker' = [worker EXCEPT !.at = "fetch"]
    /\ UNCHANGED <<settings, wakes, shown, changes>>

Fetched ==
    /\ worker.at = "fetch"
    /\ shown' = worker.place
    /\ worker' = [worker EXCEPT !.at = "waiting"]
    /\ UNCHANGED <<settings, cache, wakes, excuse, changes>>

-----------------------------------------------------------------------------
(* Between refreshes. *)

Wakes ==
    /\ worker' = [worker EXCEPT !.at = "open"]
    /\ UNCHANGED <<settings, cache, shown, excuse, changes>>

\* A token may have come while the worker was refreshing: it waits in the channel.
Woken ==
    /\ worker.at \in {"waiting", "backing"} /\ wakes > 0
    /\ wakes' = wakes - 1
    /\ Wakes

\* Half an hour has passed since the weather was shown.
RefreshDue == worker.at = "waiting" /\ wakes = 0 /\ UNCHANGED wakes /\ Wakes

\* One, two or four minutes have passed since the failure.
BackoffOver == worker.at = "backing" /\ wakes = 0 /\ UNCHANGED wakes /\ Wakes

-----------------------------------------------------------------------------
Refreshes == ReadKey \/ ReadCache \/ ReadCity

Next ==
    \/ \E c \in Cities \cup {None} : SetCity(c)
    \/ \E k \in BOOLEAN : SetWeatherKey(k)
    \/ ChangeTakesEffect
    \/ RefreshFails \/ ReadKey \/ ReadCache \/ ReadCity
    \/ IpCity \/ NomGeocode \/ Located \/ Fetched
    \/ Woken \/ RefreshDue \/ BackoffOver

\* The threads run, and the network answers now and then.  Nothing is said of
\* the half hour: what is promised is promised at once.
Fairness ==
    /\ WF_vars(ChangeTakesEffect)
    /\ SF_vars(Refreshes) /\ SF_vars(IpCity) /\ SF_vars(Located) /\ SF_vars(Fetched)
    /\ WF_vars(Woken) /\ WF_vars(BackoffOver)

Spec == Init /\ [][Next]_vars /\ Fairness

-----------------------------------------------------------------------------
(* Properties. *)

\* A city that is set is shown without waiting for the next half hour
\* (wiring.rs:114-115), except when a place that is not its own stands in a cache
\* until a setting is changed again, because a cache that held one could not be
\* emptied, because the worker could not read the city and took its own, or
\* because it had read the city before the change and cached the answer after.
NewCityIsShown ==
    \A c \in Cities \cup {None} :
        city = c ~> city # c \/ shown = Place(c) \/ excuse # {}

\* What wiring.rs:114-115 says: the setting is written, the cached location is
\* emptied and the worker woken to locate itself at once, where every statement
\* succeeds.  Not kept: an answer about the old city that comes after that is
\* cached (weather.rs:227, 250), and the worker that is woken finds it there.
CityIsRelocated ==
    \A c \in Cities \cup {None} :
        city = c ~> city # c \/ shown = Place(c) \/ excuse \cap {"kept", "unread"} # {}
=============================================================================
