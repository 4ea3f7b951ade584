----------------------------- MODULE CacheStore -----------------------------
(***************************************************************************)
(* What the cache of D4 promises to the compiler and to the counter: a map *)
(* from sub-formulas to values.  A formula that is asked for has the value *)
(* that was put there first, or none was.                                  *)
(***************************************************************************)
EXTENDS Naturals, FiniteSets

CONSTANTS Nothing, NotFound

VARIABLES
  store,   \* the values, by sub-formula
  asked,   \* the sub-formula looked up, or Nothing
  answer   \* the last answer

Init == store = <<>> /\ asked = Nothing /\ answer = NotFound

Ask ==
  /\ asked = Nothing /\ asked' # Nothing
  /\ UNCHANGED <<store, answer>>

Reply ==
  /\ asked # Nothing /\ asked' = Nothing
  /\ answer' = IF asked \in DOMAIN store THEN store[asked] ELSE NotFound
  /\ UNCHANGED store

Put ==
  /\ \A k \in DOMAIN store : k \in DOMAIN store' /\ store'[k] = store[k]
  /\ Cardinality(DOMAIN store' \ DOMAIN store) = 1
  /\ UNCHANGED <<asked, answer>>

Next == Ask \/ Reply \/ Put

Spec == Init /\ [][Next]_<<store, asked, answer>>

=============================================================================
