----------------------------- MODULE MCCreator ------------------------------
(* Two numbers a district may have, and how often anything happens.         *)
EXTENDS Creator, TLC

CONSTANTS sd1, sd2

Districts == Permutations(Own)

At(classes, year) ==
    [base |-> "full",
     at |-> [s \in Sites |-> CASE s = "students" -> "demographics"
                              [] s = "classes" -> classes
                              [] OTHER -> year]]

\* Removed; one name everywhere; the school year's place forgotten; a name the
\* filename boundary refuses, everywhere and at one place.
MCHandEdits ==
    {Gone, At("own", "own"), At("own", "schedule"), At("schedule", "own"),
     At(Unusable, Unusable), At("own", Unusable)}

Authoring == [visit |-> 1, act |-> 2, write |-> 2, name |-> 1, test |-> 1, confirm |-> 1,
              outside |-> 0, fault |-> 0]
Failing == [visit |-> 1, act |-> 1, write |-> 1, name |-> 1, test |-> 1, confirm |-> 2,
            outside |-> 0, fault |-> 1]
Meddling == [visit |-> 1, act |-> 1, write |-> 1, name |-> 1, test |-> 1, confirm |-> 1,
             outside |-> 1, fault |-> 0]
\* Nobody else touches the folder.
Alone == {Authoring}

MCBudgets == {Authoring, Failing, Meddling}
=============================================================================
