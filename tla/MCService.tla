----------------------------- MODULE MCService -----------------------------
(* Small instances of Service for TLC. *)
EXTENDS Service, TLC

CONSTANTS r1, r2, ann, bob

(* ann may do everything, bob only read the log. *)
MCPermissions == (ann :> {"*"}) @@ (bob :> {"operation_log:read"})

Request(route, origin, token, body) ==
    [route |-> route, origin |-> origin, token |-> token, body |-> body]

Restore == Guarded("PUT", "/users/:id/restore", "user:write")
Password == LoggedIn("PUT", "/me/password")

(* One request of each kind that the middlewares tell apart. *)
MCArgs ==
    {Request(Healthz, "none", NoToken, "none"),
     Request(Readyz, "none", NoToken, "none"),
     Request(Swagger, "none", NoToken, "none"),
     Request(Stats, "none", bob, "none"),
     Request(Open("POST", "/login"), "allowed", NoToken, "password"),
     Request(Open("OPTIONS", "/login"), "allowed", NoToken, "none"),
     Request(Open("POST", "/login"), "refused", NoToken, "password"),
     Request(Open("POST", "/nowhere"), "none", NoToken, "plain"),
     Request(Password, "none", ann, "long"),
     Request(Password, "none", NoToken, "password"),
     Request(Restore, "none", ann, "none"),
     Request(Restore, "none", bob, "none"),
     Request(Restore, "none", OldToken, "none")}

(* One request of any kind next to a probe.  Requests meet only in the end of
   the process, which has to wait for both. *)
MCInit == Init /\ arg[r2].route = Readyz

MCSpec == MCInit /\ [][Next]_vars /\ Fairness

=============================================================================
