---------------------------- MODULE MCBoardDisk -----------------------------
\* BoardDisk for TLC, on a disk of 240 blocks.
EXTENDS BoardDiskInv, UfsImages

TwoImages == [x \in {"plain", "permuted"} |-> Images[x]]

\* Both ways to flash an image, and a second image.
BoardArguments ==
    {[input |-> "plain", size |-> Of(1200, "K"), full |-> FALSE],
     [input |-> "plain", size |-> Of(1200, "K"), full |-> TRUE],
     [input |-> "permuted", size |-> Of(1200, "K"), full |-> FALSE]}
=============================================================================
