------------------------------ MODULE Semantic ------------------------------
(***************************************************************************)
(* inverba/semantic.py, SpectrumDiffer: how different two observations of  *)
(* a page are.                                                             *)
(*                                                                         *)
(* A content is a normalized text: two contents are equal iff their        *)
(* content_hash is. What the differ reads off a text are parameters: the   *)
(* ratio of SequenceMatcher, in percent, of which nothing is assumed, and  *)
(* the sets of prices, stock words and numbers that the patterns find.     *)
(***************************************************************************)
EXTENDS Integers

CONSTANTS
    Contents,
    Similarity,         \* of a pair: need not be symmetric
    Prices, StockWords, Numbers,
    CosmeticThreshold,  \* percent, as Similarity
    MaterialThreshold

ASSUME ContentsAssumption ==
    /\ Similarity \in [Contents \X Contents -> 0..100]
    /\ DOMAIN Prices = Contents /\ DOMAIN StockWords = Contents /\ DOMAIN Numbers = Contents
ASSUME ThresholdAssumption == CosmeticThreshold \in 0..100 /\ MaterialThreshold \in 0..100

DiffLevel == {"first_observation", "identical", "cosmetic", "material", "divergent"}

\* SequenceMatcher(None, a.text, b.text).ratio()
Ratio(a, b) == Similarity[<<a, b>>]

\* Deliberately wrong: numbers count in all but identical texts only.
BugSignificant(a, b) ==
    \/ Prices[a] # Prices[b]
    \/ StockWords[a] # StockWords[b]
    \/ Ratio(a, b) >= 99 /\ Numbers[a] # Numbers[b]

\* The threshold at which numbers start to count is not the caller's to choose.
Significant(a, b) ==
    \/ Prices[a] # Prices[b]
    \/ StockWords[a] # StockWords[b]
    \/ Ratio(a, b) >= 95 /\ Numbers[a] # Numbers[b]

Level(a, b) ==
    IF a = b THEN "identical"
    ELSE IF Ratio(a, b) < MaterialThreshold THEN "divergent"
    ELSE IF Ratio(a, b) >= CosmeticThreshold /\ ~Significant(a, b) THEN "cosmetic"
    ELSE "material"

\* What a monitor must be told of when it changes.
Signals(c) == <<Prices[c], StockWords[c], Numbers[c]>>
=============================================================================
