--------------------------- MODULE MCFilterAdmin ----------------------------
(* A small instance of FilterAdmin: a source with one domain, a file of    *)
(* the block list directory with another, and a subdomain of that one.     *)
EXTENDS FilterAdmin

CONSTANTS h1, h2, l1, u1, u2, boot

DomainsOf == {"listed", "local", "sub.local"}
ParentsOf == [d \in DomainsOf |-> IF d = "sub.local" THEN {"local"} ELSE {}]
OneContent == [s \in {"stored"} |-> {"listed"}]
CallersOf == Requests \cup {Startup}
StoredOrNone == {{}, {"stored"}}
=============================================================================
