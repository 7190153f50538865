--------------------------- MODULE MCAdvancedDebouncer ---------------------------
(* AdvancedDebouncer with interchangeable timers, requests and callers. *)
EXTENDS DebouncerRefinement, TLC

Symmetry ==
  Permutations(Timers) \cup Permutations(Requests)
    \cup Permutations(Starters) \cup Permutations(Stoppers)
=============================================================================
