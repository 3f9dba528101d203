----------------------------- MODULE ParseCache ------------------------------
(***************************************************************************)
(* The memoized parser of the JSON columns: a Map in insertion order used  *)
(* as an LRU cache, whose values are handed out as deep clones.            *)
(***************************************************************************)
EXTENDS Naturals, Sequences, SequencesExt

CONSTANTS Texts,       \* texts that parse
          Malformed,   \* texts that do not
          CacheSize,   \* getCacheSize: positive
          MaxParses    \* bound on the calls

ASSUME ParseCacheAssumption ==
    Texts \intersect Malformed = {} /\ CacheSize \in Nat \ {0} /\ MaxParses \in Nat

VARIABLES
  entries,     \* keys of the Map, oldest first
  spoiled,     \* keys whose cached value a caller has changed
  holders,     \* keys whose cached value itself, not a clone, a caller holds
  answer,      \* the last call: its text, and whether it got what the text says
  cacheHits, cacheMisses,
  uses         \* history: texts that parsed, by their last use

parseVars == <<entries, spoiled, holders, answer, cacheHits, cacheMisses, uses>>

ParseInit == /\ entries = <<>> /\ spoiled = {} /\ holders = {}
             /\ answer = [text |-> "none", asParsed |-> TRUE]
             /\ cacheHits = 0 /\ cacheMisses = 0
             /\ uses = <<>>

Keys(map) == {map[i] : i \in 1 .. Len(map)}

\* delete, of a key that is there once.
Deleted(map, text) ==
    IF text \in Keys(map) THEN RemoveAt(map, CHOOSE i \in 1 .. Len(map) : map[i] = text) ELSE map

\* delete and set: the key becomes the most recent.
Renewed(map, text) == Append(Deleted(map, text), text)

\* SimpleLRU.get
Touched(map, text) == Renewed(map, text)

\* SimpleLRU.set of a new key: the oldest goes when the cache is full.
Stored(map, text) == Append(IF Len(map) >= CacheSize THEN Tail(map) ELSE map, text)

\* structuredClone
Handed(text) == {}

Hit(text) ==
    /\ text \in Keys(entries)
    /\ cacheHits' = cacheHits + 1
    /\ entries' = Touched(entries, text)
    /\ holders' = holders \union Handed(text)
    /\ answer' = [text |-> text, asParsed |-> text \notin spoiled]
    /\ uses' = Renewed(uses, text)
    /\ UNCHANGED <<spoiled, cacheMisses>>

Miss(text) ==
    /\ text \notin Keys(entries)
    /\ cacheMisses' = cacheMisses + 1
    /\ IF text \in Malformed THEN UNCHANGED <<entries, holders, uses>>
       ELSE /\ entries' = Stored(entries, text)
            /\ holders' = holders \union Handed(text)
            /\ uses' = Renewed(uses, text)
    /\ spoiled' = spoiled \intersect Keys(entries')
    /\ answer' = [text |-> text, asParsed |-> TRUE]
    /\ UNCHANGED cacheHits

\* A caller changes the value it was given: its own, or the cached one.
Change(text) ==
    /\ answer.text = text
    /\ spoiled' = spoiled \union ({text} \intersect holders \intersect Keys(entries))
    /\ UNCHANGED <<entries, holders, answer, cacheHits, cacheMisses, uses>>

ParseNext ==
    \/ cacheHits + cacheMisses < MaxParses /\ \E t \in Texts \union Malformed : Hit(t) \/ Miss(t)
    \/ \E t \in Texts : Change(t)

ParseSpec == ParseInit /\ [][ParseNext]_parseVars

------------------------------------------------------------------------------
(* Properties.                                                              *)

\* The cache holds the texts used last, in the order of their last use, and no
\* more than its size (json-parse-cache.ts:19-41, 166-191).
HoldsLastUsed ==
    entries = SubSeq(uses, IF Len(uses) > CacheSize THEN Len(uses) - CacheSize + 1 ELSE 1, Len(uses))

\* Every call gets what its text says, whatever earlier callers did with the
\* values they were given (json-parse-cache.ts:172-186).
AnswersAsParsed == answer.asParsed

ParseInv == HoldsLastUsed /\ AnswersAsParsed /\ Len(entries) <= cacheMisses
=============================================================================
