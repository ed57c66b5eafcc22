---------------------------- MODULE ModelCatalog ----------------------------
(* What the versioned model store promises: a version, once registered, keeps *)
(* its content for ever, and at most one version of a model is active.        *)
(* Nothing here knows of transactions, files or processes; ModelStore is      *)
(* shown to implement it.                                                     *)
EXTENDS Naturals

CONSTANTS Name,      \* normalised model names
          Digest,    \* contents, by digest
          MaxInt     \* the largest version

VARIABLES content,   \* content[m]: version -> the content it is resolved to
          active     \* active[m]: {v} when v is the active version of m, else {}

vars == <<content, active>>

----------------------------------------------------------------------------

Init ==
    /\ content = [m \in Name |-> [v \in {} |-> 0]]
    /\ active = [m \in Name |-> {}]

\* A version is added; the others stay as they are, and nothing is activated.
Register(m, v, d) ==
    /\ v \notin DOMAIN content[m]
    /\ content' = [content EXCEPT ![m] = [w \in DOMAIN @ \cup {v} |->
                                             IF w = v THEN d ELSE @[w]]]
    /\ UNCHANGED active

Activate(m, v) ==
    /\ v \in DOMAIN content[m]
    /\ active' = [active EXCEPT ![m] = {v}]
    /\ UNCHANGED content

Next ==
    \E m \in Name, v \in 1..MaxInt :
        \/ \E d \in Digest : Register(m, v, d)
        \/ Activate(m, v)

Spec == Init /\ [][Next]_vars
=============================================================================
