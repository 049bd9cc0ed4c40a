------------------------------ MODULE MCListing ------------------------------
(* Small instances of Listing for TLC: the caps scaled down, each of them   *)
(* no multiple of the page.                                                 *)
EXTENDS Listing

Request(kind, method, botToken, channelID) ==
    [kind |-> kind, method |-> method, botToken |-> botToken,
     channelID |-> channelID]

MCRequests ==
    {Request(kind, "GET", TRUE, TRUE) : kind \in {"channels", "members"}}
        \cup {Request("channels", "POST", TRUE, TRUE),
              Request("channels", "GET", FALSE, TRUE),
              Request("members", "GET", TRUE, FALSE)}
==============================================================================
