----------------------------- MODULE MCSpscRing -----------------------------
\* A four-slot ring: few enough slots that the indices wrap, that the
\* ring fills up and empties, and that a side works on a view of the other
\* index that is a whole lap old.
EXTENDS SpscRing
=============================================================================
