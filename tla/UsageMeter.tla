----------------------------- MODULE UsageMeter -----------------------------
(***************************************************************************)
(* What a watcher of any kind promises: it shows what an agent spent since *)
(* the attach, perhaps late, never more than that, and a new reading shows *)
(* growth of one counter at least.                                         *)
(***************************************************************************)
EXTENDS Integers

CONSTANT Counters      \* the counters of a Sample

VARIABLES due, shown

MeterInit == due = [c \in Counters |-> 0] /\ shown = [c \in Counters |-> 0]

Due == /\ \A c \in Counters : due'[c] >= due[c]
       /\ UNCHANGED shown

Show == /\ \A c \in Counters : shown'[c] <= due[c]
        /\ \E c \in Counters : shown'[c] > shown[c]
        /\ UNCHANGED due

MeterSpec == MeterInit /\ [][Due \/ Show]_<<due, shown>>
=============================================================================
