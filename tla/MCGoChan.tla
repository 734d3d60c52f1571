------------------------------ MODULE MCGoChan ------------------------------
(* Instances of GoChan for TLC: channel 1 is unbuffered, channel 2 has one   *)
(* slot.                                                                     *)
EXTENDS GoChan

CONSTANTS g1, g2, g3

plain(d, c)   == [kind |-> "plain", cases |-> <<[dir |-> d, c |-> c]>>, dflt |-> FALSE]
try(d, c)     == [kind |-> "plain", cases |-> <<[dir |-> d, c |-> c]>>, dflt |-> TRUE]
close(c)      == [kind |-> "close", cases |-> <<[dir |-> "close", c |-> c]>>, dflt |-> FALSE]
sel(d, c, e, b) == [kind  |-> "select", dflt |-> FALSE,
                    cases |-> <<[dir |-> d, c |-> c], [dir |-> e, c |-> b]>>]
selDefault(d, c, e, b) == [sel(d, c, e, b) EXCEPT !.dflt = TRUE]

MCCap == <<0, 1>>

\* Two goroutines that select, and one that does everything else: both directions,
\* one channel twice in a select, a default, a non-blocking try, nil channels, Close.
MCMenu ==
    g1 :> {sel("recv", 1, "recv", 2), selDefault("recv", 2, "send", 1)} @@
    g2 :> {sel("recv", 1, "send", 2), sel("recv", 1, "send", 1)} @@
    g3 :> {plain("send", 2), plain("recv", 1), plain("recv", Nil), try("send", 1),
           close(2), close(Nil), sel("recv", Nil, "recv", 1)}
MCMaxOps == g1 :> 2 @@ g2 :> 1 @@ g3 :> 2
=============================================================================
