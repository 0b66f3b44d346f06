---------------------------- MODULE MCDriverImages ----------------------------
EXTENDS DriverImages

Vec(n, k) == [name |-> n, kind |-> k]

\* Three firmwares over two names: two vectors, the same two in the other
\* order, and one vector alone whose kind changed.
MCLayouts == { <<Vec("x", "number"), Vec("y", "number")>>,
               <<Vec("y", "number"), Vec("x", "number")>>,
               <<Vec("x", "text")>> }
=============================================================================
