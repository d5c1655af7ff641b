--------------------------- MODULE CampfireSession ---------------------------
(***************************************************************************)
(* What campfire.New promises its caller (spec 4.7), without the pion     *)
(* machinery: the call is pending until it returns ok or an error; a peer *)
(* connection, once opened, is only ever closed; an error return leaves   *)
(* no connection open; only a session that was returned is torn down.     *)
(***************************************************************************)

VARIABLES
    result, \* "pending", "ok" or "err"
    conn    \* the transport: "none", "open", "closed"

vars == <<result, conn>>

Init == result = "pending" /\ conn = "none"

\* The transport is set up while New runs.
Connect ==
    /\ result = "pending" /\ conn = "none"
    /\ conn' = "open" /\ UNCHANGED result

\* New returns an error, releasing whatever it had opened.
Fail ==
    /\ result = "pending" /\ result' = "err"
    /\ conn' = IF conn = "open" THEN "closed" ELSE conn

\* New returns a session over an open transport.
Establish ==
    /\ result = "pending" /\ conn = "open"
    /\ result' = "ok" /\ UNCHANGED conn

\* A returned session is closed, by its user or by the transport.
Teardown ==
    /\ result = "ok" /\ conn = "open"
    /\ conn' = "closed" /\ UNCHANGED result

Next == Connect \/ Fail \/ Establish \/ Teardown

Spec == Init /\ [][Next]_vars

=============================================================================
