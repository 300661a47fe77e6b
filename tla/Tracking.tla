------------------------------ MODULE Tracking ------------------------------
(***************************************************************************)
(* What the edge pipeline makes of the detections of a frame               *)
(* (rk3588-edge/src/app/pipeline_coordinator.cpp): TemporalTracker assigns *)
(* each to a track by greedy matching (temporal_tracker.cpp), the          *)
(* DetectionCache takes out those reported lately (detection_cache.cpp),   *)
(* and the rest become the boxes of the result.                            *)
(*                                                                         *)
(* A box of the image is a place; Iou says in percent how much two places  *)
(* overlap.  Behaviours are computed from trajectories and left out.       *)
(***************************************************************************)
EXTENDS Integers, Sequences, FiniteSetsExt, SequencesExt

CONSTANTS Places,
          Iou,           \* overlap of two places, 0..100
          ObjectClasses,
          TrackIou,      \* iou_threshold of the tracker, in percent
          CacheIou,      \* dedup_iou_threshold, in percent
          MaxLost,       \* max_lost_frames
          Ttl,           \* dedup_ttl_seconds
          MaxDetections, \* bound: detections of a frame
          MaxFrameCount  \* bound: frames

VARIABLES tracks,        \* tracks_, oldest first
          next_track_id,
          cache,         \* cache_, oldest first
          frame_count,
          assigned,      \* the identifiers Update returned for the last frame
          boxes          \* the boxes of its result

trackingVars == <<tracks, next_track_id, cache, frame_count, assigned, boxes>>

Detections == [class : ObjectClasses, place : Places]

TrackingInit ==
    /\ tracks = <<>> /\ next_track_id = 1
    /\ cache = <<>> /\ frame_count = 0
    /\ assigned = <<>> /\ boxes = <<>>

-----------------------------------------------------------------------------
(* TemporalTracker::Update *)

\* The first of the best overlapping tracks nobody has been matched with.
Best(det, candidates) ==
    LET overlap(t) == Iou[<<det.place, tracks[t].place>>]
        best == Max({overlap(t) : t \in candidates} \cup {0})
    IN  IF best < TrackIou THEN 0
        ELSE Min({t \in candidates : overlap(t) = best})

\* One detection; matched holds the tracks matched so far.
Assign(s, det) ==
    LET t == Best(det, (1..Len(tracks)) \ s.matched)
    IN  IF t # 0
        THEN [s EXCEPT !.tracks[t].place = det.place, !.tracks[t].seen = frame_count,
                       !.matched = @ \cup {t}, !.ids = Append(@, tracks[t].id)]
        ELSE [s EXCEPT !.tracks = Append(@, [id |-> s.next, place |-> det.place,
                                             seen |-> frame_count]),
                       !.next = @ + 1, !.ids = Append(@, s.next)]

Update(dets) ==
    LET s == FoldLeft(Assign, [tracks |-> tracks, matched |-> {}, ids |-> <<>>,
                               next |-> next_track_id], dets)
    IN  [s EXCEPT !.tracks = SelectSeq(@, LAMBDA t : frame_count - t.seen <= MaxLost)]

(* DetectionCache::IsNovel, for one detection after the other *)

Expired == SelectSeq(cache, LAMBDA e : e.age > Ttl)

Known(c, det) == \E i \in DOMAIN c : /\ c[i].class = det.class
                                     /\ Iou[<<c[i].place, det.place>>] >= CacheIou

\* The cache, and the positions of the novel detections, after dets.
Novel(dets) ==
    FoldLeft(LAMBDA s, i :
                 IF Known(s.cache, dets[i]) THEN s
                 ELSE [cache |-> Append(s.cache, [class |-> dets[i].class,
                                                  place |-> dets[i].place, age |-> 0]),
                       novel |-> Append(s.novel, i)],
             [cache |-> SubSeq(cache, Len(Expired) + 1, Len(cache)), novel |-> <<>>],
             [i \in DOMAIN dets |-> i])

-----------------------------------------------------------------------------
\* The detections of one frame, up to the result: box number i is given the
\* i-th of the identifiers, which are those of all detections.
Detect(dets) ==
    /\ frame_count < MaxFrameCount
    /\ LET u == Update(dets)
           n == Novel(dets)
       IN  /\ tracks' = u.tracks /\ next_track_id' = u.next /\ assigned' = u.ids
           /\ cache' = IF dets = <<>> THEN cache ELSE n.cache
           /\ boxes' = [i \in DOMAIN n.novel |->
                           [detection |-> n.novel[i], track_id |-> u.ids[i]]]
    /\ frame_count' = frame_count + 1

Tick ==
    /\ \E i \in DOMAIN cache : cache[i].age <= Ttl
    /\ cache' = [i \in DOMAIN cache |-> [cache[i] EXCEPT !.age = Min({Ttl + 1, @ + 1})]]
    /\ UNCHANGED <<tracks, next_track_id, frame_count, assigned, boxes>>

TrackingNext ==
    \/ \E n \in 0..MaxDetections : \E dets \in [1..n -> Detections] : Detect(dets)
    \/ Tick

TrackingSpec == TrackingInit /\ [][TrackingNext]_trackingVars

-----------------------------------------------------------------------------
\* "Object tracking ID (assigned by TemporalTracker)" (neuro_pipeline.proto:69):
\* a box carries the identifier that the tracker gave to its own detection.
BoxesCarryOwnTrack ==
    \A i \in DOMAIN boxes : boxes[i].track_id = assigned[boxes[i].detection]
=============================================================================
