------------------------------ MODULE QuickMatch -----------------------------
(***************************************************************************)
(* Quick Match: which of the servers found is tried first, and what        *)
(* happens when it cannot be reached (src/client/quick_match.c and         *)
(* src/client/matchmaking_selector.c), as operators on its state.          *)
(*                                                                         *)
(* A server is a number in the order strcmp gives the host names; an offer *)
(* is what its probe told.  The score is the code's, multiplied by the     *)
(* capacity, the largest latency and ten, so that it is a whole number;    *)
(* the code computes it in single precision, where near scores may tie.    *)
(***************************************************************************)
EXTENDS Integers, FiniteSets, FiniteSetsExt

CONSTANTS
  Capacity,      \* the places of every server
  Preferred      \* SHROOM_MATCHMAKING_PREFERRED_LATENCY_MS

LatencyWeight == 7
LoadWeight == 3

NoServer == 0

Joinable(offer) == offer.players < Capacity

(* ShroomMatchmakingSelect: the servers in reach of the preferred latency, *)
(* or else all that have a place.                                          *)
Near(offers) == {offer \in offers : Joinable(offer) /\ offer.latency <= Preferred}
Pool(offers) == IF Near(offers) # {} THEN Near(offers) ELSE {offer \in offers : Joinable(offer)}
Slowest(pool) == Max({offer.latency : offer \in pool} \cup {1})
Score(offer, slowest) == LatencyWeight * offer.latency * Capacity + LoadWeight * offer.players * slowest

WinsTie(candidate, incumbent) ==
  \/ candidate.latency < incumbent.latency
  \/ candidate.latency = incumbent.latency /\ candidate.players < incumbent.players
  \/ /\ candidate.latency = incumbent.latency /\ candidate.players = incumbent.players
     /\ candidate.server < incumbent.server
Beats(candidate, incumbent, slowest) ==
  \/ Score(candidate, slowest) < Score(incumbent, slowest)
  \/ Score(candidate, slowest) = Score(incumbent, slowest) /\ WinsTie(candidate, incumbent)

Best(offers) ==
  LET pool == Pool(offers) IN
  IF pool = {} THEN NoServer
  ELSE (CHOOSE offer \in pool : \A other \in pool \ {offer} : Beats(offer, other, Slowest(pool))).server

-----------------------------------------------------------------------------
(* ShroomQuickMatchInit and _Begin.                                        *)
IdleMatch == [phase |-> "idle", offers |-> {}, excluded |-> {}, selected |-> NoServer, attempts |-> 0,
              failure |-> "none"]
BeginMatch == [IdleMatch EXCEPT !.phase = "finding"]

Active(match) == match.phase \in {"finding", "preview", "connecting"}

(* Slip: a server that failed is not left out.                             *)
SelectAgain(match) ==
  LET best == Best(match.offers)
  IN  IF best = NoServer THEN [match EXCEPT !.selected = NoServer, !.phase = "failed", !.failure = "no servers"]
      ELSE [match EXCEPT !.selected = best, !.phase = "preview", !.failure = "none"]

(* SelectNext: the best of the servers that did not fail yet.              *)
SelectNext(match) ==
  LET best == Best({offer \in match.offers : offer.server \notin match.excluded})
  IN  IF best = NoServer
      THEN [match EXCEPT !.selected = NoServer, !.phase = "failed",
                         !.failure = IF match.attempts > 0 THEN "exhausted" ELSE "no servers"]
      ELSE [match EXCEPT !.selected = best, !.phase = "preview", !.failure = "none"]

(* Slip: an empty list of candidates is ignored.                           *)
SetSomeCandidates(match, offers) ==
  IF match.phase # "finding" \/ offers = {} THEN match ELSE SelectNext([match EXCEPT !.offers = offers])

SetCandidates(match, offers) ==
  IF match.phase # "finding" THEN match
  ELSE LET chosen == SelectNext([match EXCEPT !.offers = offers])
       IN  IF chosen.phase = "failed" /\ match.attempts = 0 /\ \E offer \in offers : ~Joinable(offer)
           THEN [chosen EXCEPT !.failure = "full"]
           ELSE chosen

SearchFailed(match, failure) ==
  IF match.phase = "finding" THEN [match EXCEPT !.phase = "failed", !.failure = failure] ELSE match
DirectoryFailed(match) == SearchFailed(match, "directory")
ServersFull(match) == SearchFailed(match, "full")

(* ShroomQuickMatchUpdate, once the preview was long enough.               *)
EndPreview(match) ==
  IF match.phase = "preview" THEN [match EXCEPT !.phase = "connecting", !.attempts = @ + 1] ELSE match

ConnectionFailed(match) ==
  IF match.phase # "connecting" \/ match.selected = NoServer THEN match
  ELSE SelectNext([match EXCEPT !.excluded = @ \cup {match.selected}])

ConnectionSucceeded(match) ==
  IF match.phase = "connecting" THEN [match EXCEPT !.phase = "succeeded", !.failure = "none"] ELSE match

CancelMatch(match) ==
  IF Active(match) THEN [match EXCEPT !.phase = "cancelled", !.failure = "none"] ELSE match

=============================================================================
