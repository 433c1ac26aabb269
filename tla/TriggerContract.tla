-------------------------- MODULE TriggerContract --------------------------
(***************************************************************************)
(* What aqua-trigger promises to the pipeline that runs it, as if all its  *)
(* loops were one: each image that the input names is settled once, in any *)
(* order - Aqua has a result, Aqua takes it for scanning, or it is missed; *)
(* exit code 0 comes only after all of them, with none missed.  A dry run  *)
(* asks Aqua for nothing and promises nothing.                             *)
(***************************************************************************)
EXTENDS Naturals

CONSTANT Images

VARIABLES
    dryRun,
    open,       \* the images that are not settled
    missed,     \* was an image missed?
    known,      \* the images that Aqua said to have a result for
    taken,      \* the images that Aqua took for scanning
    exit        \* "none", or how the command ended

triggerVars == <<dryRun, open, missed, known, taken, exit>>

Init == /\ dryRun \in BOOLEAN
        /\ open \in SUBSET Images
        /\ missed = FALSE
        /\ known = {} /\ taken = {}
        /\ exit = "none"

Settle(i) ==
    /\ exit = "none"
    /\ i \in open
    /\ open' = open \ {i}
    /\ UNCHANGED <<dryRun, exit>>

Has(i) ==
    /\ ~dryRun /\ Settle(i)
    /\ known' = known \cup {i}
    /\ UNCHANGED <<missed, taken>>

Take(i) ==
    /\ ~dryRun /\ Settle(i)
    /\ taken' = taken \cup {i}
    /\ UNCHANGED <<missed, known>>

\* Aqua may have taken it all the same.
Miss(i) ==
    /\ Settle(i)
    /\ missed' = TRUE
    /\ \/ UNCHANGED taken
       \/ ~dryRun /\ taken' = taken \cup {i}
    /\ UNCHANGED known

\* What is left open is given up.
Exit(code) ==
    /\ exit = "none"
    /\ exit' = code
    /\ open' = {}
    /\ UNCHANGED <<dryRun, missed, known, taken>>

Succeed == (dryRun \/ (open = {} /\ ~missed)) /\ Exit("succeeded")

Fail == Exit("failed")

Next == (\E i \in Images : Has(i) \/ Take(i) \/ Miss(i)) \/ Succeed \/ Fail

Spec == Init /\ [][Next]_triggerVars
=============================================================================
