----------------------------- MODULE MCUniverse -----------------------------
(* Four seeds, two or three of them screened out, and a watchlist that is  *)
(* empty, leaves exploration a slot, or is as long as the limit. One of    *)
(* those screened out is held now and then.                                *)
EXTENDS Universe

CONSTANTS s1, s2, s3, s4

MCSeeds == <<s1, s2, s3, s4>>
MCWatchlists == {<<>>, <<s4>>, <<s4, s2, s1>>}
MCScreens == {{s1, s2}, {s1, s2, s3}}
MCHoldings == {{}, {s2}}
=============================================================================
