----------------------------- MODULE MCVenusDec -----------------------------
\* VenusDec for TLC.
EXTENDS VenusDecInv

\* Three and four pictures of one or two slices; parameter sets in front, in
\* between and at the end; a stream of five units, one more than MAX_AUS, and
\* one that is too short.
MCStreams ==
    {<<"param", "first", "next", "first", "param", "first">>,
     <<"first", "first", "param", "first", "next", "param">>,
     <<"first", "first", "param", "first", "next", "first", "param">>,
     <<"param", "param", "first", "next", "next">>}
=============================================================================
