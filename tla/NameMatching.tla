---------------------------- MODULE NameMatching ----------------------------
(***************************************************************************)
(* What a spoken name means (tools/uexcorp/matching.py and                 *)
(* catalog_resolution.py).  The catalogue is a sequence of entries; an     *)
(* entry is its position.  How a spoken name compares with every entry is  *)
(* a record, a "hearing":                                                  *)
(*    says       the name that it is, letter for letter, or None           *)
(*    score      the best letter score over an entry's names and codes     *)
(*    contained  the entries with a name that has every word that was said *)
(*    sound      the best score of the metaphone codes                     *)
(*    misheard   the name a known mishearing stands for, or None           *)
(* The distances themselves (rapidfuzz, jellyfish) are not modelled: every *)
(* combination of their results is considered.                             *)
(***************************************************************************)
EXTENDS Integers, Sequences, FiniteSets, SequencesExt, FiniteSetsExt

CONSTANTS
    Catalogue,       \* sequence of entries: a name, a kind and what the kind has
    MAX_CHECKED      \* candidates whose prices are fetched (4 in the code)

None == "none"        \* no name
Nothing == 0          \* no entry
Entries == DOMAIN Catalogue
NameOf(e) == Catalogue[e].name
Kind(e) == Catalogue[e].kind
OfKind(k) == { e \in Entries : Kind(e) = k }
First(S) == Min(S)

score_cutoff == 60
LOW_CONFIDENCE_MAX == 80
PHONETIC_MIN == 85

(* a hearing compares with every entry of the catalogue *)
IsHearing(h) ==
    /\ {"says", "score", "contained", "sound", "misheard"} \subseteq DOMAIN h
    /\ h.score \in [Entries -> Nat] /\ DOMAIN h.sound = Entries

Found(e) == [found |-> e, named |-> {}]
Hedge(S) == [found |-> Nothing, named |-> S]      \* S: the candidates the message lists
Unknown == Hedge({})
-----------------------------------------------------------------------------
(* matching.py: the layers of resolve_or_hedge *)
_exact_name_matches(h, pool) == { e \in pool : NameOf(e) = h.says }

BestScore(h, pool) == Max({ h.score[e] : e \in pool } \cup {0})
(* one entry of each name: two rows of the same name are not a tie *)
_top_matches(h, pool) ==
    LET best == { e \in pool : h.score[e] >= score_cutoff /\ h.score[e] = BestScore(h, pool) }
    IN  { e \in best : \A d \in best : NameOf(d) = NameOf(e) => e <= d }

_contained_matches(h, pool) == pool \cap h.contained

(* two that sound the same: whichever comes first *)
FirstPhonetic(h, pool) ==
    LET likely == { e \in pool : h.sound[e] >= PHONETIC_MIN }
    IN  IF likely = {} THEN {} ELSE {First(likely)}

_phonetic_match(h, pool) ==
    LET loudest == Max({ h.sound[e] : e \in pool } \cup {0})
        winners == { e \in pool : h.sound[e] >= PHONETIC_MIN /\ h.sound[e] = loudest }
    IN  IF Cardinality(winners) = 1 THEN winners ELSE {}

Misheard(h, pool) == { e \in pool : NameOf(e) = h.misheard }

resolve_or_hedge(h, pool) ==
    LET exact == _exact_name_matches(h, pool)
        winners == _top_matches(h, pool)
        contained == _contained_matches(h, pool)
        targets == Misheard(h, pool)
        sounds_like == _phonetic_match(h, pool)
    IN  CASE exact # {} -> Found(First(exact))
          [] exact = {} /\ Cardinality(winners) = 1 /\ BestScore(h, pool) >= LOW_CONFIDENCE_MAX
               -> Found(First(winners))
          [] OTHER ->
               IF Cardinality(contained) = 1 THEN Found(First(contained))
               ELSE IF contained # {} THEN Hedge(contained)
               ELSE IF targets # {} THEN Found(First(targets))
               ELSE IF sounds_like # {} THEN Found(First(sounds_like))
               ELSE IF Cardinality(winners) > 1 THEN Hedge(winners) ELSE Unknown

(* the one best match, however weak *)
match_by_name_or_code(h, pool) ==
    LET winners == _top_matches(h, pool) IN IF winners = {} THEN {} ELSE {First(winners)}

cargo_capable_vehicles == { e \in OfKind("ship") : ~Catalogue[e].concept /\ Catalogue[e].scu > 0 }
ASSUME CatalogueAssumption ==
    /\ Catalogue \in Seq(Range(Catalogue))
    /\ \A e \in OfKind("ship") : Catalogue[e].scu \in Nat

ASSUME CheckedAssumption == MAX_CHECKED \in Nat \ {0}

(* refused: the ship that the pilot is told has no cargo *)
resolve_cargo_ship(h) ==
    LET hauler == resolve_or_hedge(h, cargo_capable_vehicles)
        known == resolve_or_hedge(h, OfKind("ship"))
        Refusing(answer, ship) == [found |-> answer.found, named |-> answer.named, refused |-> ship]
    IN  IF hauler.found # Nothing \/ known.found \in {Nothing} \cup cargo_capable_vehicles
        THEN Refusing(hauler, Nothing) ELSE Refusing(Unknown, known.found)
-----------------------------------------------------------------------------
(* catalog_resolution.py: commodities, items and ships at once *)
VARIANT_PENALTY == 20
ACCESSORY_PENALTY == 15
CONFIDENT_MARGIN == 10
CLOSE_MARGIN == 25
MAX_OPTIONS == 3
CONTAINED_SCORE == 90
_KINDS_FOR_ACTION == [buy |-> {"commodity", "item", "ship"}, sell |-> {"commodity", "item"}, rent |-> {"ship"}]

_penalty(e) ==
    CASE Kind(e) = "item" /\ Catalogue[e].edition = "variant" -> VARIANT_PENALTY
      [] Kind(e) = "item" /\ Catalogue[e].edition = "accessory" -> ACCESSORY_PENALTY
      [] OTHER -> 0

Candidate(e, score, by) == [entity |-> e, score |-> score - _penalty(e), matched_by |-> by]
(* the entries of S in the catalogue's order: the i-th has i of them up to it *)
InOrder(S) == [i \in 1 .. Cardinality(S) |-> CHOOSE e \in S : Cardinality({ d \in S : d <= e }) = i]
(* those of a sequence that are in S, in their order *)
Only(seq, S) == FoldLeft(LAMBDA kept, x : IF x \in S THEN Append(kept, x) ELSE kept, <<>>, seq)

_matches(h, pool) ==
    LET exact == _exact_name_matches(h, pool)
        contained == _contained_matches(h, pool)
        fuzzy == _top_matches(h, pool) \ contained
    IN  IF exact # {} THEN {Candidate(First(exact), 100, "exact")}
        ELSE { Candidate(e, CONTAINED_SCORE, "contained") : e \in contained }
             \cup { Candidate(e, BestScore(h, pool), "fuzzy") : e \in fuzzy }
_candidates(h, action) == UNION { _matches(h, OfKind(k)) : k \in _KINDS_FOR_ACTION[action] }

(* the order they are found in: by kind, by layer, and as the catalogue has them *)
Turn(c) == 3 * [commodity |-> 0, item |-> 1, ship |-> 2][Kind(c.entity)]
           + [exact |-> 0, contained |-> 1, fuzzy |-> 2][c.matched_by]
(* a stable sort by score leaves those of one score in that order *)
Before(c, d) ==
    \/ c.score > d.score
    \/ c.score = d.score /\ Turn(c) < Turn(d)
    \/ c.score = d.score /\ Turn(c) = Turn(d) /\ c.entity < d.entity
Leading(C) == CHOOSE c \in C : \A d \in C \ {c} : Before(c, d)
FirstOf(C, n) == { c \in C : Cardinality({ d \in C : Before(d, c) }) < n }

NamedForSure(c) == c.matched_by \in {"exact", "contained"}
Answer(c, aside) == [chosen |-> c.entity, options |-> {}, unsold |-> Nothing, aside |-> aside]
Asks(S) == [chosen |-> Nothing, options |-> S, unsold |-> Nothing, aside |-> None]
NobodyDeals(c) == [chosen |-> Nothing, options |-> {}, unsold |-> c.entity, aside |-> None]
NotCaught == Asks({})

(* why this one, when the choice took judgement *)
judgement_call(top, runner_up, checked, available) ==
    LET rivals == { c \in checked : c # top /\ NamedForSure(c) }
        close == \E r \in runner_up : top.score - r.score < CLOSE_MARGIN
        unsold == rivals \ available
    IN  IF top.matched_by = "exact" THEN None
        ELSE IF unsold # {} /\ unsold = rivals THEN "rest not dealt in"
        ELSE IF _penalty(top.entity) = 0 /\ \E c \in rivals : _penalty(c.entity) # 0 THEN "not a variant"
        ELSE IF close THEN "close call" ELSE None

LeadsBy(top, runner_up) == \A r \in runner_up : top.score - r.score >= CONFIDENT_MARGIN

(* available: those of the checked ones that some terminal deals in *)
Resolution(checked, available) ==
    LET best_named == Leading(checked)
        top == Leading(available)
        runner_up == IF available = {top} THEN {} ELSE {Leading(available \ {top})}
    IN  IF checked = {} THEN NotCaught
        ELSE IF available = {} THEN IF NamedForSure(best_named) THEN NobodyDeals(best_named) ELSE NotCaught
        ELSE IF best_named \notin available /\ NamedForSure(best_named)
                /\ best_named.score - top.score >= CONFIDENT_MARGIN THEN NobodyDeals(best_named)
        ELSE IF runner_up = {} /\ top.score < LOW_CONFIDENCE_MAX THEN NotCaught
        ELSE IF ~LeadsBy(top, runner_up) THEN Asks({ c.entity : c \in FirstOf(available, MAX_OPTIONS) })
        ELSE Answer(top, judgement_call(top, runner_up, checked, available))

Checked(candidates) == FirstOf(candidates, MAX_CHECKED)
OfDealt(checked, dealt) == Resolution(checked, { c \in checked : c.entity \in dealt })

(* dealt: the entries that some terminal deals in for this action *)
resolve(h, action, dealt) == OfDealt(Checked(_candidates(h, action)), dealt)
=============================================================================
