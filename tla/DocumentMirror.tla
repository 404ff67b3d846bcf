--------------------------- MODULE DocumentMirror ----------------------------
(***************************************************************************)
(* What document synchronisation promises: the server's documents are as   *)
(* the editor's once were, and go through all the stages the editor's went *)
(* through, one after the other, none left out.  A stage gives each        *)
(* document its copy: a text and its version, or that it is not open.      *)
(***************************************************************************)
EXTENDS Naturals, Sequences

CONSTANTS Uris, Closed

VARIABLES
    edited,   \* uri -> the editor's copy
    stages    \* the server's stage and those it has yet to go through

vars == <<edited, stages>>

Init ==
    /\ edited = [u \in Uris |-> Closed]
    /\ stages = <<edited>>

\* A document starts at version 0; each change is the next one.
Edit(u) ==
    /\ edited'[u] # Closed =>
          edited'[u].version = IF edited[u] = Closed THEN 0 ELSE edited[u].version + 1
    /\ edited' = [edited EXCEPT ![u] = edited'[u]]
    /\ stages' = Append(stages, edited')

\* The editor says something that changes no document.
Remark ==
    /\ stages' = Append(stages, edited)
    /\ UNCHANGED edited

Take ==
    /\ Len(stages) > 1
    /\ stages' = Tail(stages)
    /\ UNCHANGED edited

Next == (\E u \in Uris : Edit(u)) \/ Remark \/ Take

Spec == Init /\ [][Next]_vars
=============================================================================
