------------------------- MODULE ChainDownloadMC -------------------------
(* Two instances of ChainDownload for TLC. *)
EXTENDS ChainDownload

McTops == {8, 9}
\* The first payments leave no spare address; 8, 9 and 11 come beyond the filter.
McPays == <<0, 0, 0, 0, 1, 2, 0, 4, 6, 0, 7>>

\* Three headers messages; a payment beyond the filter is announced meanwhile.
LongTops == {12}
LatePays == <<0, 0, 0, 0, 0, 0, 0, 0, 0, 0, 0, 0, 3>>
==========================================================================
