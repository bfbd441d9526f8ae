--------------------------- MODULE MCBrowserBroker ---------------------------
(* A collection run with two ids, as its list and detail pages, and the API *)
(* with the id of a JD request: either may recover while the other works.   *)
EXTENDS BrowserBroker, TLC

\* Both may ask for the same page.
MCWanted == "api" :> {"u", "v"} @@ "run" :> {"u"}
\* "u" is "v" with another parameter, such as a page number.
MCTolerated == "u" :> {} @@ "v" :> {"u"}
MCMaxIds == "api" :> 1 @@ "run" :> 2
=============================================================================
