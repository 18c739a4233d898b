------------------------------ MODULE MCFeeds ------------------------------
(* Three lines on the control socket, the first of them not a command.     *)
EXTENDS Feeds

ThreeLines == <<"bad", "place", "halt">>
=============================================================================
