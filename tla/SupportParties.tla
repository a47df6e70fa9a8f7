--------------------------- MODULE SupportParties ---------------------------
(***************************************************************************)
(* Who takes part in public support: what SupportFeed promises, and how    *)
(* SupportInbox and SupportConsole go about it, is about the same visitors *)
(* and calls.                                                              *)
(***************************************************************************)
CONSTANTS
    Visitors,       \* names that browsers give themselves
    Calls,          \* calls of visitors and of administrators
    None            \* an absent value

ASSUME NoVisitorAssumption == None \notin Visitors

=============================================================================
