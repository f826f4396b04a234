----------------------------- MODULE MCRecorder -----------------------------
(* Instances of Recorder for TLC. *)
EXTENDS Recorder, TLC

CONSTANTS t1, t2, m1, m2, x, y

MCVars == {x, y}

\* shared++ is a load and a store, or one instruction that does both; the
\* accesses to y are filtered out by the early returns.
Load   == [addr |-> x, ops |-> {"READ"}]
Bump   == [addr |-> x, ops |-> {"READ", "WRITE"}]
Hidden == [addr |-> y, ops |-> {"READ", "WRITE"}]

FewInstructions == {Bump}
AllInstructions == {Load, Bump, Hidden}
MCRecorded == {Load, Bump}

\* x is guarded by m1; blocks come and go at y.
MCGuard == (x :> {m1}) @@ (y :> {})
WithHeap == {y}

\* What the traced program uses of Pthreads.
NestedFeatures   == {"nested"}
UntracedFeatures == {"trylock", "cond_wait", "lock_error"}
=============================================================================
