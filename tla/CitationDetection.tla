--------------------------- MODULE CitationDetection ---------------------------
(***************************************************************************)
(* Whether an engine's response cites a business: the seven stages of      *)
(* CitationDetector (modules/audit/citation_detector.py) over the identity *)
(* that build_business_identity (modules/audit/service.py) makes of the    *)
(* business's profile.  A response is the set of things it says of the     *)
(* business; the behaviours are responses that say one thing more at each  *)
(* step, so that a property of steps compares a response with a fuller one.*)
(* Scores and confidences are in hundredths.  This module and AuditRuns,   *)
(* the rest of modules/audit, have no name in common.                      *)
(***************************************************************************)
EXTENDS Integers, FiniteSets

CONSTANTS
    Scores,     \* the stored identity_uniqueness_score values; Nothing is a missing one
    MaxWords,   \* the most words of more than two letters a locality or city may have
    Nothing

ASSUME DetectionAssumption ==
    /\ Scores \ {Nothing} \subseteq 0..100
    /\ MaxWords \in Nat

VARIABLES
    identity,   \* the identity of the business
    text        \* what the response says

detectionVars == <<identity, text>>

-------------------------------------------------------------------------------
(* Identities and responses.                                                *)

\* What a profile may hold, and how many long words its locality and city have.
Parts == {"alias", "phone", "website", "locality", "city"}

Identities == [score : 0..100, has : SUBSET Parts, localityWords : 0..MaxWords,
               cityWords : 0..MaxWords, samePlace : BOOLEAN]

\* `business.identity_uniqueness_score or 0.5`: 0 is taken for a missing score.
IdentityScore(stored) == IF stored \in {Nothing, 0} THEN 50 ELSE stored

\* Neither words nor a shared name without the place; one name has as many words as itself.
Sensible(i) ==
    /\ "locality" \notin i.has => i.localityWords = 0
    /\ "city" \notin i.has => i.cityWords = 0
    /\ i.samePlace => {"locality", "city"} \subseteq i.has /\ i.localityWords = i.cityWords

\* What a response can say: the name at word boundaries, words that come close to it
\* (Jaro-Winkler 0.92), a long word of it, the name joined to other words by a hyphen, the
\* parts, and the words of the locality or the city apart from one another.
Sayings == {"name", "embedded_name", "near_name", "name_word", "locality_words", "city_words"}
               \union Parts

\* What else a text contains that says m.
Implied(i, m) ==
    CASE m = "name" -> {"near_name", "name_word"}
      [] m = "embedded_name" -> {"name", "name_word"}
      [] m = "locality" ->
            {"locality_words"} \union IF i.samePlace THEN {"city", "city_words"} ELSE {}
      [] m = "city" ->
            {"city_words"} \union IF i.samePlace THEN {"locality", "locality_words"} ELSE {}
      [] m = "locality_words" -> IF i.samePlace THEN {"city_words"} ELSE {}
      [] m = "city_words" -> IF i.samePlace THEN {"locality_words"} ELSE {}
      [] OTHER -> {}

Sayable(i) ==
    {m \in Sayings : /\ m \in Parts => m \in i.has
                     /\ m = "locality_words" => i.localityWords > 0
                     /\ m = "city_words" => i.cityWords > 0}

-------------------------------------------------------------------------------
(* The detector.                                                            *)

\* _gather_corroborating_signals: the parts the text mentions, one alias for all of them.
Signals(i, t) == i.has \intersect t

\* _passes_uniqueness_gate.
PassesGate(i, t) ==
    LET n == Cardinality(Signals(i, t)) IN
    \/ i.score >= 70
    \/ i.score >= 40 /\ n >= 1
    \/ n >= 2

\* The words _stage_address finds; those of one place count once for each of its fields.
AddressWords(i, t) ==
    (IF "locality_words" \in t THEN i.localityWords ELSE 0)
        + (IF "city_words" \in t THEN i.cityWords ELSE 0)

Stages == <<"exact_name", "alias", "phone", "website", "address", "fuzzy_name", "composite">>

ASSUME NothingIsNoStage == \A n \in DOMAIN Stages : Stages[n] # Nothing

\* Whether a stage, asked on its own, recognises the business.
Recognises(stage, i, t) ==
    CASE stage = "exact_name" -> "name" \in t /\ PassesGate(i, t)
      [] stage = "alias" -> "alias" \in Signals(i, t) /\ PassesGate(i, t)
      [] stage = "phone" -> "phone" \in Signals(i, t)
      [] stage = "website" -> "website" \in Signals(i, t)
      [] stage = "address" -> AddressWords(i, t) >= 2
      [] stage = "fuzzy_name" ->
            "near_name" \in t /\ Signals(i, t) \intersect {"locality", "city"} # {}
      [] stage = "composite" ->
            i.score < 70 /\ Cardinality(Signals(i, t)) >= 2 /\ "name_word" \in t

\* Faulty variant: a name that is gated out ends the search.
GatedOutEnds(i, t) ==
    IF "name" \in t /\ ~PassesGate(i, t) THEN {}
    ELSE {n \in DOMAIN Stages : Recognises(Stages[n], i, t)}
\* A stage that is gated out leaves the response to the stages after it.
Hits(i, t) == {n \in DOMAIN Stages : Recognises(Stages[n], i, t)}

IsCited(i, t) == Hits(i, t) # {}

\* The first stage that recognises the business decides.
MatchType(i, t) ==
    IF IsCited(i, t) THEN Stages[CHOOSE n \in Hits(i, t) : \A m \in Hits(i, t) : n <= m]
    ELSE Nothing

\* Faulty variant: the bases of stages 4 and 5 have changed places.
SwappedBase == [exact_name |-> 99, alias |-> 95, phone |-> 99, website |-> 80, address |-> 95,
                fuzzy_name |-> 75, composite |-> 85]
Base == [exact_name |-> 99, alias |-> 95, phone |-> 99, website |-> 95, address |-> 80,
         fuzzy_name |-> 75, composite |-> 85]

\* _boost_confidence: five hundredths for every signal, but for the one phone and website are
\* themselves.
Confidence(i, t) ==
    LET match == MatchType(i, t)
        boosts == Signals(i, t) \ ({match} \intersect {"phone", "website"})
        boosted == Base[match] + 5 * Cardinality(boosts)
    IN IF match = Nothing THEN 0 ELSE IF boosted > 99 THEN 99 ELSE boosted

-------------------------------------------------------------------------------
DetectionTypeOK ==
    /\ identity \in Identities /\ Sensible(identity)
    /\ text \subseteq Sayings

DetectionInit ==
    /\ \E stored \in Scores, has \in SUBSET Parts, l, c \in 0..MaxWords, same \in BOOLEAN :
        /\ identity = [score |-> IdentityScore(stored), has |-> has, localityWords |-> l,
                       cityWords |-> c, samePlace |-> same]
        /\ Sensible(identity)
    /\ text = {}

Say(m) ==
    /\ m \in Sayable(identity)
    /\ m \notin text
    /\ text' = text \union (({m} \union Implied(identity, m)) \intersect Sayings)
    /\ UNCHANGED identity

AllSaid == Sayable(identity) \subseteq text /\ UNCHANGED detectionVars

DetectionNext == (\E m \in Sayings : Say(m)) \/ AllSaid

DetectionSpec == DetectionInit /\ [][DetectionNext]_detectionVars

-------------------------------------------------------------------------------
(* Properties.                                                              *)

\* A response that cites the business still does when it says more of it.
MoreSaidStaysCited == [][IsCited(identity, text) => IsCited(identity, text)']_detectionVars

\* Saying more never makes the detector less confident, but for one case: words close to the
\* name make of a composite match a fuzzy one.
OnlyNearMissesLower ==
    [][Confidence(identity, text)' < Confidence(identity, text) =>
        /\ MatchType(identity, text) = "composite"
        /\ MatchType(identity, text)' = "fuzzy_name"]_detectionVars
===============================================================================
