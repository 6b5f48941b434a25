---------------------------- MODULE PackageStore ----------------------------
(***************************************************************************)
(* What ttrek promises about the committed state of an environment: one    *)
(* snapshot of the installed packages, changed by one writer at a time, at *)
(* most once while that writer holds the lock, and then as a whole.  A     *)
(* writer that gives up or dies changes nothing.                           *)
(***************************************************************************)
CONSTANTS Procs, Pkg, Ver, None, Broken, NoProc

VARIABLES snapshot, holder, phase
vars == <<snapshot, holder, phase>>

Snapshots == [Pkg -> Ver \cup {None, Broken}]

Init ==
    /\ snapshot = [q \in Pkg |-> None]
    /\ holder = NoProc
    /\ phase = "free"

Acquire(p) ==
    /\ phase = "free"
    /\ holder' = p
    /\ phase' = "busy"
    /\ UNCHANGED snapshot

\* The single commit of a holding; leaving the snapshot as it was is a
\* command that was refused, answered no, or failed.
Finish ==
    /\ phase = "busy"
    /\ phase' = "done"
    /\ snapshot' \in Snapshots
    /\ UNCHANGED holder

Release ==
    /\ phase # "free"
    /\ holder' = NoProc
    /\ phase' = "free"
    /\ UNCHANGED snapshot

Next == (\E p \in Procs : Acquire(p)) \/ Finish \/ Release

Spec == Init /\ [][Next]_vars
=============================================================================
