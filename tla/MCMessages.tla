----------------------------- MODULE MCMessages -----------------------------
(* The pieces that messages are composed of. *)
EXTENDS MessageJourney

MCKeys == {<<1>>, <<2>>, <<1, 1>>, <<1, 0>>}
MCValues == {<<>>, <<3>>}
MCRowBytes == {<<>>, <<1, 2, 3>>}
MCNames ==
  {<<1>>, <<1, Slash, 2>>, <<1, Slash>>, <<>>, <<1, Slash, Underscore, Underscore>>,
   <<1, 1, 1, 1, 1>>, <<1, 0>>}
=============================================================================
