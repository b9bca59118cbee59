--------------------------- MODULE MCTotalizedLTS ---------------------------
EXTENDS TotalizedLTS

\* Every two-state system over one ordinary and one terminal label; what an
\* observation declares is right, absent, empty or no collection at all.
MCAdapters ==
  {a \in [enabled    : [States -> SUBSET Labels],
          transition : [States -> [Labels -> States]],
          observe    : [States -> [value : Values,
                                   enabled_actions : {Absent, NotACollection} \cup
                                                       SUBSET Labels]]] :
     \A s \in States :
       /\ a.observe[s].enabled_actions
            \in {a.enabled[s], {}, Absent, NotACollection}
       /\ \A l \in Labels \ a.enabled[s] : a.transition[s][l] = s}

MCStarts == {[side \in Sides |-> IF side = "u" THEN "s1" ELSE "s2"]}

=============================================================================
