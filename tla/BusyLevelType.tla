--------------------------- MODULE BusyLevelType ---------------------------
(***************************************************************************)
(* The enumeration BusyLevel_e of src/cpp/BusyLevel.h with the numeric     *)
(* values the compiler gives it.  The order matters: every comparison of   *)
(* busy levels in the code (ServerBalancer's sort, its "< BUSY_WARN" test, *)
(* allBusyLevelUnder) compares these integers, and they run                *)
(*     BUSY_FATAL (3) < BUSY_ERROR (4) < BUSY_WARN (5) < BUSY_IDLE (6),    *)
(* so a numerically larger level is a LESS congested server.               *)
(***************************************************************************)
EXTENDS Integers

\* The enumerators in declaration order, after _BEGIN (0).
SHUTDOWN        == 1
INTERNAL_LEVEL0 == 2
LEVEL3          == 3
LEVEL2          == 4
LEVEL1          == 5
LEVEL0          == 6

\* The aliases the code uses.
INTERNAL_BUSY_IDLE == INTERNAL_LEVEL0
BUSY_FATAL         == LEVEL3
BUSY_ERROR         == LEVEL2
BUSY_WARN          == LEVEL1
BUSY_IDLE          == LEVEL0

\* Every value a BusyLevel_e::TYPE variable can hold.
BusyLevels == {SHUTDOWN, INTERNAL_BUSY_IDLE, BUSY_FATAL, BUSY_ERROR,
               BUSY_WARN, BUSY_IDLE}

\* The four levels the classifier's state machine moves between.
ClassifierLevels == {BUSY_FATAL, BUSY_ERROR, BUSY_WARN, BUSY_IDLE}

=============================================================================
