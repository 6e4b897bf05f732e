------------------------------ MODULE Sampling ------------------------------
(***************************************************************************)
(* Where the pipeline looks: the frames, windows and requests sent to the  *)
(* models (pipeline/worker.py, pipeline/qc/agentic.py) and the frames      *)
(* offered as a poster (pipeline/qc/poster.py).  Times are whole ticks of  *)
(* 1/20 s, rounded down.                                                   *)
(***************************************************************************)
EXTENDS Timeline, SequencesExt

Low(a, b) == IF a <= b THEN a ELSE b
High(a, b) == IF a >= b THEN a ELSE b
Within(t, low, high) == High(low, Low(t, high))
First(s, n) == SubSeq(s, 1, Low(n, Len(s)))

\* Every step-th element, from the first.
Strided(s, step) == [i \in 1..((Len(s) + step - 1) \div step) |-> s[(i - 1) * step + 1]]

\* Left to right, each time a gap after the last one kept.
Thinned(s, gap) ==
  LET Keep(before, t) ==
        IF before = <<>> \/ t - Last(before) >= gap THEN Append(before, t) ELSE before
      kept[n \in 0..Len(s)] == IF n = 0 THEN <<>> ELSE Keep(kept[n - 1], s[n])
  IN kept[Len(s)]

\* Times inside the program, in order and apart.
DedupeTimes(times, duration, gap) ==
  Thinned(Ordered({Within(t, 0, High(duration - 1, 0)) : t \in times}), gap)

-----------------------------------------------------------------------------
(* The blind sweep.                                                        *)

\* To the nearest whole, and from halfway to the even one.
Rounded(a, b) ==
  LET up == 2 * (a % b) > b \/ (2 * (a % b) = b /\ (a \div b) % 2 = 1)
  IN a \div b + (IF up THEN 1 ELSE 0)

\* About one frame for each stretch of the program, between a floor and a cap.
ScaledFrameCount(duration, stretch, floor, cap) ==
  High(1, Low(High(floor, Rounded(duration, stretch) + 1), cap))

\* n frames from edge to edge.
Anchors(duration, n) ==
  LET edge == Low(5, duration \div 4)
  IN IF n = 1 THEN {duration \div 2}
     ELSE {edge + ((duration - 2 * edge) * i) \div (n - 1) : i \in 0..(n - 1)}

Middle(segment) == (segment[1] + segment[2]) \div 2

\* Over budget, what is kept for certain comes first and a selection of the
\* shots is added; then the timeline is cut from its end.
Pick(all, keep, budget, duration) ==
  LET extras == Ordered(all \ keep)
      room == High(budget - Cardinality(keep), 1)
      step == High(1, Len(extras) \div room)
  IN IF Cardinality(all) <= budget THEN Ordered(all)
     ELSE First(DedupeTimes(keep \cup ToSet(Strided(extras, step)), duration, 8), budget)

\* cuts are the shot boundaries, anomalies the segments the scan flagged.
InitialFrames(duration, cuts, anomalies, budget) ==
  LET anchors == Anchors(duration, High(2, budget \div 3))
      smoke == {Middle(a) : a \in anomalies}
      shots == {Low(c + 3, duration - 1) : c \in cuts}
      keep == ToSet(DedupeTimes(anchors \cup smoke, duration, 8))
      all == ToSet(DedupeTimes(anchors \cup smoke \cup shots, duration, 8))
  IN Pick(all, keep, budget, duration)

\* Windows of sound over the program, and just before the first two silences.
InitialWindows(duration, silences, n, window) ==
  LET w == Low(window, duration)
      spread == IF duration <= w THEN {0}
                ELSE {((duration - w) * i) \div High(n - 1, 1) : i \in 0..(n - 1)}
      early == {High(0, silences[i][1] - 10) : i \in 1..Low(2, Len(silences))}
  IN DedupeTimes(spread \cup early, duration, w \div 2)

-----------------------------------------------------------------------------
(* The requests of the blind sweep: one bounded round.                     *)

Instant == {"frame", "pixel_crop"}
Stretch == {"frame_burst", "contact_sheet", "audio_window", "transcript_window"}

\* Mutant: a stretch may run past the end of the program.
NormalizeUnclipped(raw, duration, limit) ==
  LET known == Among(raw, {i \in DOMAIN raw : raw[i].type \in Instant \cup Stretch})
  IN [i \in 1..Low(limit, Len(known)) |->
        [known[i] EXCEPT !.at = Within(@, 0, duration), !.span = High(5, Low(@, 400))]]

\* Known types only, inside the program, up to the limit.
NormalizeRequests(raw, duration, limit) ==
  LET Inside(r) ==
        LET at == Within(r.at, 0, duration)
        IN [r EXCEPT !.at = at,
                     !.span = IF r.type \in Instant THEN 0
                              ELSE High(5, Low(Low(@, 400), High(duration - at, 5)))]
      known == Among(raw, {i \in DOMAIN raw : raw[i].type \in Instant \cup Stretch})
  IN [i \in 1..Low(limit, Len(known)) |-> Inside(known[i])]

\* The stills a request asks for: one, or as many as its kind spreads over it.
Stills(r) ==
  LET Spread(n) == {r.at + (r.span * j) \div (n - 1) : j \in 0..(n - 1)}
  IN CASE r.type \in Instant -> {r.at} [] r.type = "frame_burst" -> Spread(3)
       [] r.type = "contact_sheet" -> Spread(6) [] OTHER -> {}

\* What each request is answered with: the places that gave a still or sound.
\* Past the end there is nothing to take, and missing are the places where
\* ffmpeg wrote no frame or less than a thousand bytes of sound.  A request that
\* is answered with nothing is unavailable.
ExecuteRequests(requests, media, duration, missing) ==
  LET Takes(r) ==
        IF r.type \in {"audio_window", "transcript_window"}
        THEN IF "audio" \in media THEN {r.at} ELSE {}
        ELSE IF "video" \in media THEN Stills(r) ELSE {}
      Taken(r) == {t \in Takes(r) : t < duration /\ t \notin missing}
  IN [i \in DOMAIN requests |->
        [taken |-> Taken(requests[i]),
         status |-> IF Taken(requests[i]) = {} THEN "unavailable" ELSE "fulfilled"]]

-----------------------------------------------------------------------------
(* The synthetic lane.                                                     *)

\* Anchors and the first frames of shots, thinned to the budget.
GeneratedTimes(duration, cuts, budget) ==
  LET edge == Low(4, duration \div 4)
      anchors == {edge + ((duration - 2 * edge) * i) \div (budget - 1) : i \in 0..(budget - 1)}
      times == DedupeTimes(anchors \cup {Low(c + 1, duration) : c \in cuts}, duration, 2)
      step == High(1, Len(times) \div budget)
  IN IF Len(times) > budget THEN First(Strided(times, step), budget) ELSE times

\* Each candidate is looked at with its neighbours.
FineTimes(duration, candidates, limit) ==
  First(DedupeTimes(UNION {{c - 2, c, c + 2} : c \in candidates}, duration, 1), limit)

-----------------------------------------------------------------------------
(* The poster.                                                             *)

\* Too many candidates are thinned evenly, the first and the last staying.
CandidateTimes(duration, cuts, maximum) ==
  LET edge == Low(5, duration \div 10)
      anchors == {edge + (High(duration - 2 * edge, 0) * f) \div 100 : f \in {8, 25, 45, 65, 82}}
      shots == {Low(High(c + 4, edge), High(duration - edge, edge)) : c \in cuts}
      times == Thinned(Ordered({Within(t, 0, High(duration - 1, 0)) : t \in anchors \cup shots}), 8)
      n == Len(times)
      Index(i) == ((2 * i * (n - 1)) + (maximum - 1)) \div (2 * High(maximum - 1, 1))
  IN IF duration <= 0 \/ maximum <= 0 THEN <<>>
     ELSE IF n <= maximum THEN times
     ELSE [i \in 1..maximum |-> times[Index(i - 1) + 1]]
=============================================================================
