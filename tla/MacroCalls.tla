----------------------------- MODULE MacroCalls ------------------------------
(***************************************************************************)
(* What the expansion of macro calls promises a thread that analyses a     *)
(* file: each call returns, with what its macro made of it if that ran and *)
(* with the fallback otherwise, and calls are remembered, up to Cap of     *)
(* them, under what they were asked with.                                  *)
(***************************************************************************)
EXTENDS Naturals, FiniteSets

CONSTANTS Threads, Keys, Cap, NoKey

VARIABLES
    asked,  \* thread -> the call it is at
    known,  \* thread -> key -> text
    made    \* the keys whose macro has made something of them

vars == <<asked, known, made>>

Init ==
    /\ asked = [t \in Threads |-> NoKey]
    /\ known = [t \in Threads |-> << >>]
    /\ made = {}

Forget(t) ==
    /\ asked[t] = NoKey
    /\ known' = [known EXCEPT ![t] = << >>]
    /\ UNCHANGED <<asked, made>>

Ask(t, k) ==
    /\ asked[t] = NoKey
    /\ k \notin DOMAIN known[t]
    /\ asked' = [asked EXCEPT ![t] = k]
    /\ UNCHANGED <<known, made>>

Return(t) ==
    /\ asked[t] # NoKey
    /\ \E kept \in SUBSET DOMAIN known[t], real \in {FALSE} \cup {x \in {TRUE} : asked[t] \in made} :
          /\ Cardinality(kept) < Cap
          /\ Cardinality(kept) = Cap - 1 \/ kept = DOMAIN known[t]
          /\ known' = [known EXCEPT ![t] =
                [k \in kept \cup {asked[t]} |->
                    IF k = asked[t] THEN [key |-> k, real |-> real] ELSE @[k]]]
    /\ asked' = [asked EXCEPT ![t] = NoKey]
    /\ UNCHANGED made

Make(k) == made' = made \cup {k} /\ UNCHANGED <<asked, known>>

Next ==
    \/ \E t \in Threads : Forget(t) \/ Return(t) \/ \E k \in Keys : Ask(t, k)
    \/ \E k \in Keys : Make(k)

\* What may happen, and that calls return.
Safety == Init /\ [][Next]_vars
Spec == Safety /\ \A t \in Threads : WF_vars(Return(t))
=============================================================================
