------------------------------ MODULE MCResend ------------------------------
EXTENDS Resend

(* Two suggestions, one of which outbids the other: 11 is the least fee a    *)
(* tenth of which is more than the one wei on top, and 14 is past what is    *)
(* bumped at all.                                                            *)
MCTiers == {[fee |-> 11, tip |-> 1], [fee |-> 14, tip |-> 1]}
=============================================================================
