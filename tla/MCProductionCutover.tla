------------------------ MODULE MCProductionCutover ------------------------
\* Two terminals, two smoke runs, two backups, one write of the old site.
EXTENDS ProductionCutover, TLC

Symmetry == Permutations(Terminals) \cup Permutations(Markers)
              \cup Permutations(Passwords) \cup Permutations(Stamps)
============================================================================
