--------------------------- MODULE SemanticCache ---------------------------
(***************************************************************************)
(* The prompt cache of the LLM endpoint (src/tryops/semantic_cache.py).    *)
(* Requests share one SemanticCache object without a lock: put rebinds     *)
(* self._entries twice and appends to whatever list it is bound to in      *)
(* between, so the lists are modelled as objects that are referred to.  A  *)
(* list is the set of its entries; an entry bears the number of its        *)
(* append, which is their order in every list.                             *)
(***************************************************************************)
EXTENDS RequestFlow

CONSTANTS
    Keys,        \* cache prompts up to case and white space: their fingerprints
    Similar,     \* pairs of keys whose prompts match above the threshold
    MaxEntries,  \* max_entries
    Earlier      \* stands for the requests before the ones of the model

ASSUME CacheAssumption ==
    /\ MaxEntries \in Nat \ {0}
    /\ Similar \subseteq Keys \X Keys
    /\ Earlier \notin Requests
    /\ IsFiniteSet(Requests)

VARIABLES
    lists,    \* lists[o]: the entries of the list object o
    current,  \* the object self._entries is bound to
    held,     \* held[r]: the object the put of r has loaded to append to
    appends,  \* entries appended so far
    matched   \* matched[r]: the id found by the lookup of r, as a set

cache == <<lists, current, held, appends, matched>>

Entry == [id : Keys, by : Requests \union {Earlier}, n : Nat]
Objects == (Requests \union {Earlier}) \X {"filtered", "trimmed"}
Cached == lists[current]

CacheInit ==
    /\ current = <<Earlier, "trimmed">>
    /\ appends = 1
    /\ \E first \in {{}} \union {{[id |-> k, by |-> Earlier, n |-> 0]} : k \in Keys} :
          lists = [o \in Objects |-> IF o = <<Earlier, "trimmed">> THEN first ELSE {}]
    /\ held = [r \in Requests |-> <<Earlier, "trimmed">>]
    /\ matched = [r \in Requests |-> {}]

\* A put is somewhere between the rebinding of self._entries and its last check.
Settling == {"loading", "appending", "measuring", "slicing", "trimming"}

-----------------------------------------------------------------------------
(* lookup and get_generation: two reads of self._entries, with the run of  *)
(* the native matcher between them.  A matcher that fails finds nothing.   *)

Lookup(r, k, from, to) ==
    /\ Goto(r, from, to)
    /\ \E found \in {{}} \union {{e.id} : e \in {e \in Cached : <<k, e.id>> \in Similar}} :
          matched' = [matched EXCEPT ![r] = found]
    /\ UNCHANGED <<lists, current, held, appends>>

\* A plausible bug, used nowhere: an id that is gone falls back to any entry.
MatchesAny(r) == IF matched[r] = {} THEN {} ELSE Cached

\* get_generation: the first entry of the list with the id found, if one is left.
Matches(r) == {e \in Cached : /\ e.id \in matched[r]
                              /\ \A f \in Cached : f.id = e.id => e.n <= f.n}

-----------------------------------------------------------------------------
(* put, one load or store of self._entries at a time.                      *)

FilterList(r, k) ==
    /\ Goto(r, "filtering", "rebinding")
    /\ lists' = [lists EXCEPT ![<<r, "filtered">>] = {e \in Cached : e.id # k}]
    /\ UNCHANGED <<current, held, appends, matched>>

Rebind(r) ==
    /\ Goto(r, "rebinding", "loading")
    /\ current' = <<r, "filtered">>
    /\ UNCHANGED <<lists, held, appends, matched>>

Load(r) ==
    /\ Goto(r, "loading", "appending")
    /\ held' = [held EXCEPT ![r] = current]
    /\ UNCHANGED <<lists, current, appends, matched>>

AppendEntry(r, k) ==
    /\ Goto(r, "appending", "measuring")
    /\ lists' = [lists EXCEPT ![held[r]] = @ \union {[id |-> k, by |-> r, n |-> appends]}]
    /\ appends' = appends + 1
    /\ UNCHANGED <<current, held, matched>>

\* A plausible bug, used nowhere: the length is that of the list before the append.
MeasureBefore(r, next) ==
    /\ at[r] = "measuring"
    /\ at' = [at EXCEPT ![r] = IF Cardinality(Cached) - 1 > MaxEntries THEN "slicing" ELSE next]
    /\ UNCHANGED cache

\* More entries than allowed: keep the last MaxEntries.
Measure(r, next) ==
    /\ at[r] = "measuring"
    /\ at' = [at EXCEPT ![r] = IF Cardinality(Cached) > MaxEntries THEN "slicing" ELSE next]
    /\ UNCHANGED cache

\* self._entries may be another list than the one measured: a slice of a short list is all of it.
Slice(r) ==
    /\ Goto(r, "slicing", "trimming")
    /\ \E kept \in SUBSET Cached :
          /\ Cardinality(kept) <= MaxEntries
          /\ Cardinality(kept) < MaxEntries => kept = Cached
          /\ \A e \in kept, f \in Cached \ kept : f.n < e.n
          /\ lists' = [lists EXCEPT ![<<r, "trimmed">>] = kept]
    /\ UNCHANGED <<current, held, appends, matched>>

Trim(r, next) ==
    /\ Goto(r, "trimming", next)
    /\ current' = <<r, "trimmed">>
    /\ UNCHANGED <<lists, held, appends, matched>>

=============================================================================
