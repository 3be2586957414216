--------------------------- MODULE MCImageRequest ---------------------------
(* The values a client sends in the run of ImageRequest: on both sides of   *)
(* each limit, and such that a derived dimension rounds up, down and to 0.  *)
EXTENDS ImageRequest

MCWidths == {-1, 0, 1, 7, 90, 91}

MCQualities == {-1, 0, 80, 101}

MCSides == {1, 4, 300}
=============================================================================
