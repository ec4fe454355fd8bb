------------------------- MODULE MCEphemeralAccess -------------------------
(***************************************************************************)
(* Instances of EphemeralAccess for TLC.                                   *)
(***************************************************************************)
EXTENDS EphemeralAccess, TLC

CONSTANT r1   \* the role of the bundle

Access(bundle, mode, suspend) == [bundle |-> bundle, mode |-> mode, suspend |-> suspend]
Target(durable, roles, suspend) == [durable |-> durable, roles |-> roles, suspend |-> suspend]

\* One policy that is only ever automatic, on a target that keeps its role.
Automatic  == {Access({r1}, "Automatic", FALSE)}
OneTarget  == {Target({}, {r1}, FALSE)}

\* The approval mode or the suspension changes.
BothModes  == {Access({r1}, m, FALSE) : m \in Modes}
Suspending == {Access({r1}, "Automatic", s) : s \in BOOLEAN}

\* The role of the bundle becomes durable, or is retired.
Durable    == {Target(d, {r1}, FALSE) : d \in {{}, {r1}}}
Retiring   == {Target({}, r, FALSE) : r \in {{r1}, {}}}

Symmetry == Permutations(Requests) \cup Permutations(Replicas)
=============================================================================
