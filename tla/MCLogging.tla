----------------------------- MODULE MCLogging -----------------------------
(* A small instance of Logging: the shipped rules in little.  Two compiler   *)
(* messages look the same once they are capped, one a warning; one line is   *)
(* coloured and longer than the terminal is wide, one has a hyperlink which  *)
(* the window cuts.                                                          *)
EXTENDS Logging

MCLines == {"error", "long error", "long warning", "make error", "done"}
MCCsi == {"red", "reset"}
MCText ==
    [l \in MCLines |->
        CASE l = "error" -> <<"red", "e", "reset", "osc", "u", "u", "st", "x">>
          [] l = "long error" -> <<"a", "b", "red", "c", "d", "e", "e", "reset", "r">>
          [] l = "long warning" -> <<"a", "red", "b", "c", "d", "w", "reset", "w">>
          [] l = "make error" -> <<"m", "a", "k", "e">>
          [] l = "done" -> <<"o", "k">>]
MCMarkers ==
    [l \in MCLines |-> CASE l = "make error" -> {"make", "gcc warning"}
                         [] l \in {"error", "long error"} -> {"gcc error"}
                         [] l = "long warning" -> {"gcc warning"}
                         [] OTHER -> {}]
MCUse == <<"make", "gcc">>
MCSets ==
    [make |-> <<[level |-> Err, markers |-> {"make"}]>>,
     gcc |-> <<[level |-> Err, markers |-> {"gcc error"}],
               [level |-> Warn, markers |-> {"gcc warning"}]>>]
=============================================================================
