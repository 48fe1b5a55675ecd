---------------------------- MODULE MCMkUfsImage ----------------------------
\* MkUfsImage for TLC: which image is converted for which module size.
EXTENDS MkUfsImage, UfsImages

MCArguments ==
    \* The smallest module either image fits, one sector less, one longer than
    \* the image, and 0.1 MB, which is no whole number of sectors.
    [input : {"plain", "permuted"}, full : BOOLEAN,
     size : {Of(720, "K"), Of(680, "K"), Of(1228800, "B"), Of(1, "M")}]
    \* A module below the floor; every other input, and what the script wrote.
    \cup [input : {"plain"}, full : {TRUE}, size : {Of(160, "K")}]
    \cup [input : (DOMAIN Images \ {"plain", "permuted"}) \cup {"img", "full"},
          full : {FALSE}, size : {Of(1200, "K")}]
=============================================================================
