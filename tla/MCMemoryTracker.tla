-------------------------- MODULE MCMemoryTracker --------------------------
\* Two guest threads, three pages and an image over the first two.  The GPU
\* thread uses the whole region and its middle page, so that an update of the
\* protection has a gap; the guest threads touch a page and a range.
EXTENDS MemoryTracker, TLC

TwoPages == 0 .. 1
Touched == {1 .. 1, 1 .. 2}
Bound == {0 .. 2, 1 .. 1}
Symmetry == Permutations(Guests)
=============================================================================
