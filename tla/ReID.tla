--------------------------------- MODULE ReID ---------------------------------
(***************************************************************************)
(* Re-identification across cameras: ReIDEngine of                         *)
(* mac-central/src/analytics/reid_engine.py.  A feature vector is a member *)
(* of a small set and the cosine of two of them a number of a table, in    *)
(* percent.  Timestamps come with the features and need not be in order.   *)
(***************************************************************************)
EXTENDS Integers, Sequences, Functions

CONSTANTS Cameras, ClassNames, Vectors,
          Cosine,        \* Cosine[v, w]: _cosine_similarity, in percent
          Similarity,    \* similarity_threshold, in percent
          TimeWindow,    \* time_window_seconds
          MaxTime,       \* bound: timestamps
          MaxFeatures    \* bound: features registered

\* A similarity of zero never counts as a match.
ASSUME ReIDConstants ==
    /\ Cosine \in [Vectors \X Vectors -> Int]
    /\ \A v, w \in Vectors : Cosine[v, w] <= 100
    /\ Similarity \in 1..100 /\ TimeWindow \in Nat

VARIABLES
    featureStore,  \* _feature_store: [device, class, vector, time, track]
    tracks         \* _tracks: the track of number n is tracks[n]

reidVars == <<featureStore, tracks>>

ReIDInit == featureStore = <<>> /\ tracks = <<>>

\* Fault: features of the same camera are compared too.
MatchesOfAnyCamera(f) ==
    {i \in DOMAIN featureStore :
        /\ featureStore[i].time >= f.time - TimeWindow
        /\ featureStore[i].class = f.class
        /\ Cosine[f.vector, featureStore[i].vector] >= Similarity}

\* The stored features of other cameras that f may be another sight of.
Matches(f) ==
    {i \in DOMAIN featureStore :
        /\ featureStore[i].device # f.device
        /\ featureStore[i].time >= f.time - TimeWindow
        /\ featureStore[i].class = f.class
        /\ Cosine[f.vector, featureStore[i].vector] >= Similarity}

\* The most similar one, of equals the one stored first.
Best(f) ==
    LET sim(i) == Cosine[f.vector, featureStore[i].vector]
    IN  CHOOSE i \in Matches(f) : \A j \in Matches(f) :
            sim(j) < sim(i) \/ (sim(j) = sim(i) /\ i <= j)

Sighting(f, sim) == [device |-> f.device, time |-> f.time, similarity |-> sim]

\* _prune_old: what stays in the store when a feature of that time comes.
Pruned(store, now) ==
    LET kept[i \in 0..Len(store)] ==
            IF i = 0 THEN <<>>
            ELSE IF store[i].time >= now - 2 * TimeWindow THEN Append(kept[i - 1], store[i])
            ELSE kept[i - 1]
    IN  kept[Len(store)]

\* register_feature: the track of the best match grows, or a new one begins.
register_feature(f) ==
    LET matched == Matches(f) # {}
        track == IF matched THEN featureStore[Best(f)].track ELSE Len(tracks) + 1
        sighting == IF matched THEN Sighting(f, Cosine[f.vector, featureStore[Best(f)].vector])
                    ELSE Sighting(f, 100)
        entry == [device |-> f.device, class |-> f.class, vector |-> f.vector,
                  time |-> f.time, track |-> track]
    IN  /\ tracks' = IF matched THEN [tracks EXCEPT ![track].sightings = Append(@, sighting)]
                     ELSE Append(tracks, [class |-> f.class, sightings |-> <<sighting>>])
        /\ featureStore' = Pruned(Append(featureStore, entry), f.time)

\* A bound.
MoreFeatures == FoldFunction(LAMBDA t, n : Len(t.sightings) + n, 0, tracks) < MaxFeatures

ReIDNext ==
    /\ MoreFeatures
    /\ \E d \in Cameras, c \in ClassNames, v \in Vectors, t \in 1..MaxTime :
           register_feature([device |-> d, class |-> c, vector |-> v, time |-> t])

ReIDSpec == ReIDInit /\ [][ReIDNext]_reidVars

-------------------------------------------------------------------------------
(* What a track stands for                                                 *)

\* list_tracks(min_sightings=2), which the dashboard shows as tracks across
\* cameras.
list_tracks == {t \in DOMAIN tracks : Len(tracks[t].sightings) >= 2}

\* A listed track really crosses cameras: every sighting but the first has,
\* earlier in the track, one of another camera that was not older than the
\* window when it came and that is similar enough; and a feature still in the
\* store is a sighting of the one track of its class that it names, so pruning
\* the store never leaves a match without its track.
TracksCrossCameras ==
    /\ \A t \in list_tracks : \A i \in 2..Len(tracks[t].sightings) :
           LET s == tracks[t].sightings
           IN  /\ s[i].similarity >= Similarity
               /\ \E j \in 1..(i - 1) : /\ s[j].device # s[i].device
                                        /\ s[j].time >= s[i].time - TimeWindow
    /\ \A i \in DOMAIN featureStore :
           LET e == featureStore[i]
           IN  /\ e.track \in DOMAIN tracks /\ tracks[e.track].class = e.class
               /\ \E k \in DOMAIN tracks[e.track].sightings :
                      /\ tracks[e.track].sightings[k].device = e.device
                      /\ tracks[e.track].sightings[k].time = e.time
===============================================================================
