------------------------ MODULE MCRequestCredentials ------------------------
(***************************************************************************)
(* Model checking of RequestCredentials: a __Host- cookie, a path of its    *)
(* own and expected origins, or the default CookieConfig.                  *)
(***************************************************************************)
EXTENDS RequestCredentials, TLC

Strict == [host_only |-> TRUE, path |-> "/app", origins |-> TRUE,
           printable |-> TRUE]

StrictConfig == {Strict, [Strict EXCEPT !.printable = FALSE]}
DefaultConfig == {[host_only |-> FALSE, path |-> "/", origins |-> FALSE,
                   printable |-> TRUE]}

WithTheme == {{Theme}}
AnyJar == {{}, {Theme}}

MCOperations == {"current_user", "login_cookie", "login_bearer",
                 "logout_current", "registry_logout"}
MCLayers == {"none", "auth", "require", "permission"}

LoginOpenRestRequired == {"none", "require"}

Symmetry == Permutations(Requests) \cup Permutations(Tokens)
=============================================================================
