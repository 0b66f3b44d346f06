------------------------------- MODULE MCMotors -------------------------------
EXTENDS Motors

\* Two slots at two positions, or both at one; position 1 is so near to 0
\* that a wheel in motion overshoots below 0.
MCSlots == {1, 6}
MCRaw == {1}
MCTorn == {11}
MCBacklashes == {-2, 2}
\* The focuser is asked to go near to 0, and beyond.
MCFocus == {1, 14}
=============================================================================
