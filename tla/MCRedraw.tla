------------------------------ MODULE MCRedraw ------------------------------
EXTENDS Redraw

Request(left, top, w, h, n, d) ==
  [region |-> [x |-> left, y |-> top, width |-> w, height |-> h],
   scale  |-> [num |-> n, den |-> d]]

\* The whole frame; a part of it, enlarged; one whose right edge wraps around
\* to a legal column.
MCRequests ==
  { Request(0, 0, 3, 2, 1, 1), Request(1, 0, 2, 2, 5, 3), Request(2, 1, 15, 1, 1, 1) }
=============================================================================
